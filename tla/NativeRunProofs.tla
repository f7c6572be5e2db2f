-------------------------- MODULE NativeRunProofs --------------------------
(* Invariants of NativeRun, proved for every number of commands, blocks,    *)
(* faults and restores.                                                     *)
EXTENDS NativeRun, TLAPS

\* The steps at which a command's own sink may exist, and those at which the
\* command, or the sink it left behind, holds run.lock.
SinkSteps == {"watch", "stopping", "orphan"}
Holding == PrepareSteps \cup {"recover", "admit", "spawn", "complete"} \cup SinkSteps

LockInv ==
    \A p \in Procs : /\ pc[p] \in Holding => lock = p
                     /\ sink[p].state # "none" => pc[p] \in SinkSteps

\* There is one measurement at a time, since the root it needs is fresh only
\* once; its verdict outlives whatever other commands do.
MeasureInv ==
    /\ \A p \in Procs :
          /\ pc[p] \in {"lock", "join", "joining", "report"} => job[p].op = "measure"
          /\ job[p].op = "measure" => harness.used
          /\ pc[p] = "report" => harness.sampler = "ok" /\ harness.ingested
    /\ \A p, q \in Procs : job[p].op = "measure" /\ job[q].op = "measure" => p = q

\* A table without gaps: every block has all earlier ones.
Closed(table) == \A n \in table : StartBlock..n \subseteq table

\* What a running sink stands on: its position is stored, its batch as far as
\* it went is too, and neither the cursor nor the backup is ahead of it.
SinkInv(p) ==
    Running(p) =>
        /\ sink[p].at \in Blocks \cup {StartBlock - 1}
        /\ sink[p].at # StartBlock - 1 => sink[p].at \in rows \cap markers
        /\ sink[p].step # "rows" => /\ sink[p].upto \in rows
                                    /\ sink[p].at < sink[p].upto
        /\ sink[p].step \in {"truncate", "cursor"} => sink[p].upto \in markers
        /\ cursor \in Blocks => cursor <= sink[p].at
        /\ progress # None => progress <= sink[p].at

\* An admitted command keeps what Admit checked until the sink starts.
SpawnInv(p) ==
    pc[p] = "spawn" => progress = cursor /\ (cursor # None => Backed(cursor))

DataInv ==
    /\ Closed(rows) /\ Closed(markers)
    /\ NoRegression
    /\ \A p \in Procs : SinkInv(p) /\ SpawnInv(p)

RunInv == TypeOK /\ LockInv /\ MeasureInv /\ DataInv

----------------------------------------------------------------------------
(* Locks                                                                    *)

\* A command that returns leaves its steps, or joins its sampling thread; only
\* its own lock is released.
LEMMA ReturnMoves ==
    ASSUME TypeOK, NEW p \in Procs, Return(p) \/ End(p)
    PROVE  /\ pc' \in [Procs -> Steps]
           /\ job' \in [Procs -> [op : Commands \cup {None}, stop : Stops \cup {None},
                                  position : Blocks \cup {None}]]
           /\ lock' \in Procs \cup {None}
           /\ lock' = IF lock = p THEN None ELSE lock
           /\ \A q \in Procs \ {p} : pc'[q] = pc[q] /\ job'[q] = job[q]
           /\ \/ pc'[p] = "idle" /\ job'[p].op = None
              \/ pc'[p] = "join" /\ job'[p] = job[p] /\ job[p].op = "measure"
  BY DEF TypeOK, Return, End, Unlock, Goto, NoJob, Steps

\* Other commands keep the lock they hold when one that holds it, or holds
\* nothing, lets it go.
LEMMA LockReturn ==
    ASSUME TypeOK, LockInv, NEW p \in Procs, Return(p) \/ End(p),
           sink' = [sink EXCEPT ![p] = NoSink] \/ (UNCHANGED sink /\ pc[p] \notin SinkSteps)
    PROVE  LockInv'
  BY ReturnMoves DEF TypeOK, LockInv, Holding, SinkSteps, PrepareSteps, NoSink

\* A step of the holder of run.lock keeps it.
LEMMA LockMove ==
    ASSUME TypeOK, LockInv, NEW p \in Procs, NEW step, pc[p] \in Holding, Goto(p, step),
           UNCHANGED <<lock, sink>>, pc[p] \in SinkSteps => step \in SinkSteps
    PROVE  LockInv'
  BY DEF TypeOK, LockInv, Goto

LEMMA LockStep ==
    ASSUME TypeOK, LockInv, [Next]_vars
    PROVE  LockInv'
  <1> USE DEF setup, data, local, bounds
  <1>1. ASSUME NEW p \in Procs, Command(p)
        PROVE  LockInv'
    BY <1>1, RunAssumption DEF Command, Start, StartMeasure, Goto, TypeOK, LockInv, Holding, SinkSteps,
                PrepareSteps
  <1>2. ASSUME NEW p \in Procs, Prepare(p)
        PROVE  LockInv'
    <2>1. pc[p] \in PrepareSteps /\ UNCHANGED sink
      BY <1>2 DEF Prepare, Record, Freeze, CreateOwner, InsertOwner, CheckOwner, NativeSetup,
                  MarkPrepared, PrepareSteps
    <2>2. \/ \E step \in Holding : Goto(p, step) /\ UNCHANGED lock
          \/ Return(p)
      BY <1>2 DEF Prepare, Record, Freeze, CreateOwner, InsertOwner, CheckOwner, NativeSetup,
                  MarkPrepared, Prepared, PrepareSteps, Holding
    <2> QED
      BY <2>1, <2>2, LockReturn, LockMove DEF Holding, SinkSteps, PrepareSteps
  <1>3. ASSUME NEW p \in Procs, RecoverCursor(p) \/ Complete(p) \/ Refuse(p)
        PROVE  LockInv'
    BY <1>3, LockReturn DEF RecoverCursor, Complete, Refuse, Refused, SinkSteps
  <1>4. ASSUME NEW p \in Procs, Admit(p)
        PROVE  LockInv'
    BY <1>4, LockReturn, LockMove DEF Admit, SinkSteps, Holding
  <1>5. ASSUME NEW p \in Procs, Spawn(p)
        PROVE  LockInv'
    BY <1>5 DEF Spawn, Goto, TypeOK, LockInv, Holding, SinkSteps
  <1>6. ASSUME NEW p \in Procs, StopBounded(p) \/ StopSink(p)
        PROVE  LockInv'
    BY <1>6, LockMove DEF StopBounded, StopSink, Holding, SinkSteps
  <1>7. ASSUME NEW p \in Procs, SinkStops(p) \/ Sink(p) \/ SinkExit(p) \/ SinkFail(p)
        PROVE  LockInv'
    BY <1>7 DEF SinkStops, Sink, SinkRows, SinkMarkers, SinkTruncate, SinkCursor, SinkExit,
                SinkFail, Running, TypeOK, LockInv, SinkSteps
  <1>8. ASSUME NEW p \in Procs, Reap(p)
        PROVE  LockInv'
    <2>1. CASE Return(p)
      BY <1>8, <2>1, LockReturn DEF Reap
    <2>2. CASE Goto(p, "complete") /\ UNCHANGED lock
      BY <1>8, <2>2 DEF Reap, Goto, NoSink, TypeOK, LockInv, Holding, SinkSteps
    <2> QED
      BY <1>8, <2>1, <2>2 DEF Reap
  <1>9. ASSUME NEW p \in Procs, OrphanEnds(p)
        PROVE  LockInv'
    BY <1>9, LockReturn DEF OrphanEnds
  <1>10. ASSUME NEW p \in Procs, Measure(p)
         PROVE  LockInv'
    <2>1. CASE MeasureLock(p)
      BY <2>1, RunAssumption DEF MeasureLock, Goto, TypeOK, LockInv, Holding, SinkSteps, PrepareSteps
    <2>2. CASE Join(p)
      BY <2>2 DEF Join, Goto, TypeOK, LockInv, Holding, SinkSteps, PrepareSteps
    <2>3. CASE Joining(p) /\ ~Joined
      BY <2>3, LockReturn DEF Joining, SinkSteps
    <2>4. CASE Joining(p) /\ Joined
      BY <2>4 DEF Joining, Goto, TypeOK, LockInv, Holding, SinkSteps, PrepareSteps
    <2>5. CASE Report(p)
      BY <2>5, LockReturn DEF Report, SinkSteps
    <2> QED
      BY <1>10, <2>1, <2>2, <2>3, <2>4, <2>5 DEF Measure
  <1>11. ASSUME NEW p \in Procs, Fail(p)
         PROVE  LockInv'
    BY <1>11, LockReturn DEF Fail, SinkSteps
  <1>12. ASSUME NEW p \in Procs, Kill(p)
         PROVE  LockInv'
    <2>1. CASE Running(p)
      BY <1>12, <2>1 DEF Kill, Goto, Running, TypeOK, LockInv, Holding, SinkSteps
    <2>2. CASE ~Running(p)
      BY <1>12, <2>2, LockReturn DEF Kill
    <2> QED
      BY <2>1, <2>2
  <1>13. ASSUME NEW p \in Procs, Observe(p)
         PROVE  LockInv'
    BY <1>13 DEF Observe, LockInv
  <1>14. CASE SamplerFails \/ SamplerEnds \/ Restore \/ UNCHANGED vars
    BY <1>14 DEF SamplerFails, SamplerEnds, Restore, vars, LockInv
  <1> QED
    BY <1>1, <1>2, <1>3, <1>4, <1>5, <1>6, <1>7, <1>8, <1>9, <1>10, <1>11, <1>12, <1>13, <1>14
       DEF Next, Work

----------------------------------------------------------------------------
(* The measurement                                                          *)

\* Steps that leave the threads alone, or only tell that ingestion succeeded or
\* that the root is used, keep the measurement's invariant.
LEMMA MeasureFrame ==
    ASSUME TypeOK, MeasureInv, NEW p \in Procs,
           \A q \in Procs \ {p} : pc'[q] = pc[q] /\ job'[q] = job[q],
           \/ pc'[p] \notin {"lock", "join", "joining", "report"}
           \/ pc'[p] \in {"join", "joining"} /\ job'[p].op = "measure",
           job'[p].op = "measure" => job[p].op = "measure",
           harness.used => harness'.used,
           \A q \in Procs \ {p} : pc[q] = "report" =>
               harness'.sampler = harness.sampler /\ harness'.ingested = harness.ingested
    PROVE  MeasureInv'
  BY DEF TypeOK, MeasureInv

\* A command that returns is no measurement any more, or joins.
LEMMA MeasureReturn ==
    ASSUME TypeOK, MeasureInv, NEW p \in Procs, Return(p) \/ End(p),
           UNCHANGED harness \/ harness' = Threadless(p)
    PROVE  MeasureInv'
  <1>1. None # "measure"
    BY RunAssumption
  <1>2. job'[p].op = "measure" => job[p].op = "measure"
    BY <1>1, ReturnMoves
  <1>3. harness.used => harness'.used
    BY DEF Threadless, NoHarness
  <1>4. \A q \in Procs \ {p} : pc[q] = "report" =>
            harness'.sampler = harness.sampler /\ harness'.ingested = harness.ingested
    BY DEF Threadless, MeasureInv
  <1> QED
    BY <1>1, <1>2, <1>3, <1>4, ReturnMoves, MeasureFrame

\* A step within a command, which starts no measurement.
LEMMA MeasureMove ==
    ASSUME TypeOK, MeasureInv, NEW p \in Procs, NEW step, Goto(p, step), UNCHANGED <<job, harness>>,
           step \notin {"lock", "join", "joining", "report"}
    PROVE  MeasureInv'
  BY DEF TypeOK, MeasureInv, Goto

LEMMA MeasureStep ==
    ASSUME TypeOK, LockInv, MeasureInv, [Next]_vars
    PROVE  MeasureInv'
  <1> USE DEF setup, data, local, bounds
  <1>1. ASSUME NEW p \in Procs, Command(p)
        PROVE  MeasureInv'
    <2>1. CASE \E op \in {"prepare", "recover", "ingest"}, stop \in Stops \cup {None} :
                  Start(p, op, stop)
      <3>1. PICK op \in {"prepare", "recover", "ingest"}, stop \in Stops \cup {None} :
                Start(p, op, stop)
        BY <2>1
      <3>2. job'[p].op = op /\ pc'[p] = "record"
        BY <3>1 DEF Start, Goto, TypeOK
      <3> QED
        BY <3>1, <3>2, MeasureFrame DEF Start, Goto, TypeOK
    <2>2. CASE \E stop \in MeasureStops : StartMeasure(p, stop)
      BY <2>2 DEF StartMeasure, Goto, TypeOK, MeasureInv
    <2> QED
      BY <1>1, <2>1, <2>2 DEF Command
  <1>2. ASSUME NEW p \in Procs, Prepare(p)
        PROVE  MeasureInv'
    <2>1. UNCHANGED harness
      BY <1>2 DEF Prepare, Record, Freeze, CreateOwner, InsertOwner, CheckOwner, NativeSetup,
                  MarkPrepared
    <2>2. \/ \E step \in Holding : Goto(p, step) /\ UNCHANGED job
          \/ Return(p)
      BY <1>2 DEF Prepare, Record, Freeze, CreateOwner, InsertOwner, CheckOwner, NativeSetup,
                  MarkPrepared, Prepared, PrepareSteps, Holding
    <2> QED
      BY <2>1, <2>2, MeasureReturn, MeasureMove DEF Holding, SinkSteps, PrepareSteps
  <1>3. ASSUME NEW p \in Procs, RecoverCursor(p) \/ Refuse(p) \/ OrphanEnds(p)
        PROVE  MeasureInv'
    BY <1>3, MeasureReturn DEF RecoverCursor, Refuse, OrphanEnds
  <1>4. ASSUME NEW p \in Procs, Spawn(p) \/ StopBounded(p) \/ StopSink(p)
        PROVE  MeasureInv'
    BY <1>4, MeasureReturn, MeasureMove DEF Spawn, StopBounded, StopSink
  <1>5. ASSUME NEW p \in Procs, Complete(p) \/ Admit(p), Ingested(p) /\ Return(p)
        PROVE  MeasureInv'
    <2>1. \A q \in Procs \ {p} : pc[q] = "report" =>
              harness'.sampler = harness.sampler /\ harness'.ingested = harness.ingested
      BY <1>5 DEF Ingested, TypeOK, MeasureInv
    <2>2. harness.used => harness'.used
      BY <1>5 DEF Ingested, TypeOK
    <2>3. job'[p].op = "measure" => job[p].op = "measure"
      BY <1>5, ReturnMoves, RunAssumption
    <2>4. UNCHANGED sink
      BY <1>5 DEF Complete, Admit
    <2> QED
      BY <1>5, <2>1, <2>2, <2>3, <2>4, ReturnMoves, MeasureFrame, RunAssumption DEF Complete, Admit
  <1>13. ASSUME NEW p \in Procs, Complete(p)
         PROVE  MeasureInv'
    BY <1>5, <1>13 DEF Complete
  <1>14. ASSUME NEW p \in Procs, Admit(p)
         PROVE  MeasureInv'
    <2>1. CASE Ingested(p) /\ Return(p)
      BY <1>5, <1>14, <2>1
    <2>2. CASE UNCHANGED harness /\ Return(p)
      BY <1>14, <2>2, MeasureReturn DEF Admit
    <2>3. CASE UNCHANGED <<harness, job, lock>> /\ Goto(p, "spawn")
      BY <1>14, <2>3, MeasureMove DEF Admit
    <2> QED
      BY <1>14, <2>1, <2>2, <2>3 DEF Admit
  <1>6. ASSUME NEW p \in Procs, SinkStops(p) \/ Sink(p) \/ SinkExit(p) \/ SinkFail(p) \/ Observe(p)
        PROVE  MeasureInv'
    BY <1>6 DEF SinkStops, Sink, SinkRows, SinkMarkers, SinkTruncate, SinkCursor, SinkExit,
                SinkFail, Observe, MeasureInv
  <1>7. ASSUME NEW p \in Procs, Reap(p)
        PROVE  MeasureInv'
    <2>1. CASE Return(p)
      BY <1>7, <2>1, MeasureReturn DEF Reap
    <2>2. CASE Goto(p, "complete") /\ job' = [job EXCEPT ![p].position = cursor]
      BY <1>7, <2>2, MeasureFrame DEF Reap, Goto, TypeOK
    <2> QED
      BY <1>7, <2>1, <2>2 DEF Reap
  <1>8. ASSUME NEW p \in Procs, Measure(p)
        PROVE  MeasureInv'
    <2>1. CASE MeasureLock(p) /\ ~Goto(p, "join")
      BY <2>1, MeasureMove DEF MeasureLock
    <2>2. CASE MeasureLock(p) /\ Goto(p, "join")
      BY <2>2 DEF MeasureLock, Goto, TypeOK, MeasureInv
    <2>3. CASE Join(p)
      BY <2>3 DEF Join, Signal, Goto, TypeOK, MeasureInv
    <2>4. CASE Joining(p) /\ Joined
      BY <2>4 DEF Joining, Joined, Goto, TypeOK, MeasureInv
    <2>5. CASE Joining(p) /\ ~Joined
      BY <2>5, MeasureReturn DEF Joining
    <2>6. CASE Report(p)
      BY <2>6, MeasureReturn DEF Report
    <2> QED
      BY <1>8, <2>1, <2>2, <2>3, <2>4, <2>5, <2>6 DEF Measure
  <1>9. ASSUME NEW p \in Procs, Fail(p)
        PROVE  MeasureInv'
    BY <1>9, MeasureReturn DEF Fail
  <1>10. ASSUME NEW p \in Procs, Kill(p)
         PROVE  MeasureInv'
    <2>1. CASE Running(p)
      <3>1. harness.used => harness'.used
        BY <1>10 DEF Kill, Threadless, NoHarness
      <3>2. \A q \in Procs \ {p} : pc[q] = "report" =>
                harness'.sampler = harness.sampler /\ harness'.ingested = harness.ingested
        BY <1>10 DEF Kill, Threadless, MeasureInv
      <3> QED
        BY <1>10, <2>1, <3>1, <3>2, MeasureFrame DEF Kill, Goto, TypeOK
    <2>2. CASE ~Running(p)
      BY <1>10, <2>2, MeasureReturn DEF Kill
    <2> QED
      BY <2>1, <2>2
  <1>11. CASE SamplerFails \/ SamplerEnds
    <2>1. \A p \in Procs : pc[p] # "report"
      BY <1>11 DEF SamplerFails, SamplerEnds, MeasureInv
    <2>2. harness.used => harness'.used
      BY <1>11 DEF SamplerFails, SamplerEnds, TypeOK
    <2> QED
      BY <1>11, <2>1, <2>2 DEF SamplerFails, SamplerEnds, MeasureInv
  <1>12. CASE Restore \/ UNCHANGED vars
    BY <1>12 DEF Restore, vars, MeasureInv
  <1> QED
    BY <1>1, <1>2, <1>3, <1>4, <1>13, <1>14, <1>6, <1>7, <1>8, <1>9, <1>10, <1>11, <1>12
       DEF Next, Work

----------------------------------------------------------------------------
(* Blocks, cursor and backup                                                *)

\* Whoever is at a step that holds run.lock is alone there.
LEMMA Alone ==
    ASSUME LockInv, NEW p \in Procs, NEW q \in Procs, pc[p] \in Holding,
           pc[q] \in Holding \/ Running(q)
    PROVE  p = q
  BY DEF LockInv, Holding, Running

\* Steps that write no block, no cursor and no backup and start no sink.
LEMMA DataFrame ==
    ASSUME DataInv, UNCHANGED <<rows, markers, cursor, progress>>,
           \A q \in Procs : sink'[q] = sink[q] \/ sink'[q].state # "run",
           \A q \in Procs : pc'[q] = "spawn" => pc[q] = "spawn"
    PROVE  DataInv'
  BY DEF DataInv, SinkInv, SpawnInv, Closed, NoRegression, Backed, Running

\* Where a command returns, no sink is about to start.
LEMMA ReturnSpawn ==
    ASSUME TypeOK, NEW p \in Procs, Return(p) \/ End(p)
    PROVE  \A q \in Procs : pc'[q] = "spawn" => pc[q] = "spawn"
  BY ReturnMoves

\* The backup may follow the cursor of the only sink there is.
LEMMA SaveKeeps ==
    ASSUME TypeOK, LockInv, DataInv, NEW p \in Procs, pc[p] \in SinkSteps, Backed(cursor),
           progress' = cursor, UNCHANGED <<rows, markers, cursor>>,
           \A q \in Procs : sink'[q] = sink[q] \/ sink'[q].state # "run",
           \A q \in Procs \ {p} : pc'[q] = pc[q],
           pc'[p] # "spawn"
    PROVE  DataInv'
  <1>1. cursor \in Blocks
    BY DEF Backed, TypeOK
  <1>2. \A q \in Procs : SinkInv(q)'
    BY <1>1 DEF DataInv, SinkInv, Running
  <1>3. \A q \in Procs : pc'[q] # "spawn"
    BY Alone DEF Holding
  <1>4. NoRegression'
    BY <1>1 DEF NoRegression, Blocks
  <1> QED
    BY <1>2, <1>3, <1>4 DEF DataInv, SpawnInv, Closed

LEMMA DataStep ==
    ASSUME RunInv, [Next]_vars
    PROVE  DataInv'
  <1> USE DEF RunInv, setup, data, local, bounds
  <1>1. ASSUME NEW p \in Procs, Command(p)
        PROVE  DataInv'
    BY <1>1, DataFrame DEF Command, Start, StartMeasure, Goto, TypeOK
  <1>2. ASSUME NEW p \in Procs, Prepare(p)
        PROVE  DataInv'
    <2>1. UNCHANGED <<rows, markers, cursor, progress, sink>>
      BY <1>2 DEF Prepare, Record, Freeze, CreateOwner, InsertOwner, CheckOwner, NativeSetup,
                  MarkPrepared
    <2>2. (\E step \in Steps \ {"spawn"} : Goto(p, step)) \/ Return(p)
      BY <1>2 DEF Prepare, Record, Freeze, CreateOwner, InsertOwner, CheckOwner, NativeSetup,
                  MarkPrepared, Prepared, PrepareSteps, Steps
    <2>3. \A q \in Procs : pc'[q] = "spawn" => pc[q] = "spawn"
      BY <2>2, ReturnSpawn DEF Goto, TypeOK
    <2> QED
      BY <2>1, <2>3, DataFrame
  <1>3. ASSUME NEW p \in Procs, Refuse(p) \/ Complete(p) \/ Fail(p) \/ Report(p)
        PROVE  DataInv'
    BY <1>3, ReturnSpawn, DataFrame DEF Refuse, Complete, Fail, Report
  <1>4. ASSUME NEW p \in Procs, StopBounded(p) \/ StopSink(p) \/ MeasureLock(p) \/ Join(p)
        PROVE  DataInv'
    BY <1>4, DataFrame DEF StopBounded, StopSink, MeasureLock, Join, Goto, TypeOK
  <1>5. ASSUME NEW p \in Procs, Joining(p)
        PROVE  DataInv'
    <2>1. \A q \in Procs : pc'[q] = "spawn" => pc[q] = "spawn"
      BY <1>5, ReturnSpawn DEF Joining, Goto, TypeOK
    <2> QED
      BY <1>5, <2>1, DataFrame DEF Joining
  <1>6. ASSUME NEW p \in Procs, SinkStops(p) \/ SinkExit(p) \/ SinkFail(p)
        PROVE  DataInv'
    BY <1>6, DataFrame DEF SinkStops, SinkExit, SinkFail, TypeOK, Sinks
  <1>7. ASSUME NEW p \in Procs, OrphanEnds(p)
        PROVE  DataInv'
    BY <1>7, ReturnSpawn, DataFrame DEF OrphanEnds, TypeOK, NoSink
  <1>8. ASSUME NEW p \in Procs, Kill(p)
        PROVE  DataInv'
    <2>1. \A q \in Procs : pc'[q] = "spawn" => pc[q] = "spawn"
      BY <1>8, ReturnSpawn DEF Kill, Goto, TypeOK
    <2>2. \A q \in Procs : sink'[q] = sink[q] \/ sink'[q].state # "run"
      BY <1>8 DEF Kill, NoSink, TypeOK
    <2> QED
      BY <1>8, <2>1, <2>2, DataFrame DEF Kill
  <1>9. ASSUME NEW p \in Procs, RecoverCursor(p)
        PROVE  DataInv'
    <2>1. \A q \in Procs : ~Running(q) /\ pc[q] # "spawn"
      BY <1>9, Alone DEF RecoverCursor, Holding, LockInv, Running, SinkSteps
    <2>2. progress \in Blocks
      BY <1>9 DEF RecoverCursor, Backed, TypeOK
    <2>3. \A q \in Procs : ~Running(q)' /\ pc'[q] # "spawn"
      BY <1>9, <2>1, ReturnSpawn DEF RecoverCursor, Running
    <2>4. NoRegression'
      BY <1>9, <2>2 DEF RecoverCursor, NoRegression, Blocks
    <2> QED
      BY <1>9, <2>3, <2>4 DEF RecoverCursor, DataInv, SinkInv, SpawnInv, Closed
  <1>10. ASSUME NEW p \in Procs, Admit(p)
         PROVE  DataInv'
    <2>1. \A q \in Procs : ~Running(q)
      BY <1>10, Alone DEF Admit, Holding, LockInv, Running, SinkSteps
    <2>2. \A q \in Procs \ {p} : pc[q] # "spawn"
      BY <1>10, Alone DEF Admit, Holding
    <2>3. cursor # None => Backed(cursor)
      BY <1>10 DEF Admit, Saveable
    <2>4. \A q \in Procs \ {p} : pc'[q] # "spawn"
      BY <1>10, <2>2, ReturnMoves DEF Admit, Goto, TypeOK
    <2>5. NoRegression'
      BY <1>10 DEF Admit, NoRegression, Blocks
    <2>6. UNCHANGED <<rows, markers, cursor, sink>> /\ progress' = cursor
      BY <1>10 DEF Admit
    <2> QED
      BY <2>1, <2>3, <2>4, <2>5, <2>6 DEF DataInv, SinkInv, SpawnInv, Closed, Backed, Running
  <1>11. ASSUME NEW p \in Procs, Spawn(p)
         PROVE  DataInv'
    <2>1. \A q \in Procs : ~Running(q)
      BY <1>11, Alone DEF Spawn, Holding, LockInv, Running, SinkSteps
    <2>2. progress = cursor /\ (cursor # None => Backed(cursor))
      BY <1>11 DEF Spawn, DataInv, SpawnInv
    <2>3. \A q \in Procs \ {p} : sink'[q] = sink[q] /\ pc'[q] # "spawn"
      BY <1>11, Alone DEF Spawn, Holding, Goto, TypeOK
    <2>4. /\ sink'[p].state = "run" /\ sink'[p].step = "rows"
          /\ sink'[p].at = IF cursor = None THEN StartBlock - 1 ELSE cursor
          /\ pc'[p] = "watch"
      BY <1>11 DEF Spawn, Goto, NoSink, TypeOK
    <2>5. cursor # None => cursor \in Blocks
      BY <2>2 DEF Backed, TypeOK
    <2>6. UNCHANGED <<rows, markers, cursor, progress>>
      BY <1>11 DEF Spawn
    <2>7. SinkInv(p)'
      <3>1. CASE cursor = None
        BY <2>2, <2>4, <2>6, <3>1, RunAssumption DEF SinkInv
      <3>2. CASE cursor # None
        <4>1. cursor \in Blocks /\ cursor \in Int /\ progress = cursor /\ Backed(cursor)
          BY <2>2, <2>5, <3>2, RunAssumption DEF Blocks
        <4>2. sink'[p].at = cursor /\ sink'[p].step = "rows"
          BY <2>4, <3>2
        <4> QED
          BY <2>6, <4>1, <4>2 DEF SinkInv, Backed
      <3> QED
        BY <3>1, <3>2
    <2>8. \A q \in Procs : SinkInv(q)' /\ SpawnInv(q)'
      BY <2>1, <2>3, <2>4, <2>7 DEF SinkInv, SpawnInv, Running
    <2> QED
      BY <2>6, <2>8 DEF DataInv, NoRegression, Closed
  <1>12. ASSUME NEW p \in Procs, Observe(p)
         PROVE  DataInv'
    BY <1>12, SaveKeeps DEF Observe, Saveable, SinkSteps
  <1>13. ASSUME NEW p \in Procs, Reap(p)
         PROVE  DataInv'
    <2>1. \A q \in Procs \ {p} : pc'[q] = pc[q]
      BY <1>13, ReturnMoves DEF Reap, Goto, TypeOK
    <2>2. pc'[p] # "spawn"
      BY <1>13, ReturnMoves DEF Reap, Goto, TypeOK
    <2>3. \A q \in Procs : sink'[q] = sink[q] \/ sink'[q].state # "run"
      BY <1>13 DEF Reap, NoSink, TypeOK
    <2>4. UNCHANGED <<rows, markers, cursor>> /\ pc[p] \in SinkSteps
      BY <1>13 DEF Reap, SinkSteps
    <2>5. CASE cursor \in Blocks /\ Saveable
      BY <1>13, <2>1, <2>2, <2>3, <2>4, <2>5, SaveKeeps DEF Reap, Saveable
    <2>6. CASE ~(cursor \in Blocks /\ Saveable)
      BY <1>13, <2>1, <2>2, <2>3, <2>4, <2>6, DataFrame DEF Reap
    <2> QED
      BY <2>5, <2>6
  <1>14. ASSUME NEW p \in Procs, Sink(p)
         PROVE  DataInv'
    <2>0. Running(p) /\ UNCHANGED <<progress, pc>> /\ pc[p] \in SinkSteps
      BY <1>14 DEF Sink, SinkRows, SinkMarkers, SinkTruncate, SinkCursor, Running, LockInv
    <2>1. \A q \in Procs \ {p} : ~Running(q) /\ pc[q] # "spawn"
      BY <2>0, Alone DEF Holding
    <2>2. \A q \in Procs \ {p} : SinkInv(q)' /\ SpawnInv(q)'
      BY <1>14, <2>0, <2>1 DEF Sink, SinkRows, SinkMarkers, SinkTruncate, SinkCursor, Running,
                               SinkInv, SpawnInv, TypeOK
    <2>3. SpawnInv(p)'
      BY <2>0 DEF SpawnInv, SinkSteps
    <2>4. SinkInv(p) /\ sink[p] \in Sinks /\ StartBlock \in Nat
      BY RunAssumption DEF DataInv, TypeOK
    <2>5. CASE SinkRows(p)
      <3>1. PICK n \in Blocks : /\ n > sink[p].at
                                /\ rows' = rows \cup ((sink[p].at + 1)..n)
                                /\ sink' = [sink EXCEPT ![p].upto = n, ![p].step = "markers"]
        BY <2>5 DEF SinkRows
      <3>2. sink[p].at \in Int /\ n \in Int
        BY <2>0, <2>4 DEF SinkInv, Blocks
      <3>3. /\ sink'[p].at = sink[p].at /\ sink'[p].upto = n
            /\ sink'[p].step = "markers" /\ sink'[p].state = sink[p].state
        BY <3>1 DEF TypeOK, Sinks
      <3>4. SinkInv(p)'
        BY <2>0, <2>4, <2>5, <3>1, <3>2, <3>3 DEF SinkRows, SinkInv, Running
      <3>5. Closed(rows')
        BY <2>0, <2>4, <3>1, <3>2, Z3 DEF DataInv, SinkInv, Closed, Blocks, TypeOK
      <3> QED
        BY <2>2, <2>3, <2>5, <3>4, <3>5 DEF SinkRows, DataInv, NoRegression, Closed
    <2>6. CASE SinkMarkers(p)
      <3>2. sink[p].at \in Int /\ sink[p].upto \in Int /\ sink[p].upto \in rows
        BY <2>0, <2>4, <2>6 DEF SinkInv, SinkMarkers, Blocks, TypeOK
      <3>3. /\ sink'[p].at = sink[p].at /\ sink'[p].upto = sink[p].upto
            /\ sink'[p].step = "truncate" /\ sink'[p].state = sink[p].state
        BY <2>6 DEF SinkMarkers, TypeOK, Sinks
      <3>4. SinkInv(p)'
        BY <2>0, <2>4, <2>6, <3>2, <3>3 DEF SinkMarkers, SinkInv, Running
      <3>5. Closed(markers')
        BY <2>0, <2>4, <2>6, <3>2, Z3 DEF SinkMarkers, DataInv, SinkInv, Closed, Blocks, TypeOK
      <3> QED
        BY <2>2, <2>3, <2>6, <3>4, <3>5 DEF SinkMarkers, DataInv, NoRegression, Closed
    <2>7. CASE SinkTruncate(p)
      <3>1. /\ sink'[p].at = sink[p].at /\ sink'[p].upto = sink[p].upto
            /\ sink'[p].step = "cursor" /\ sink'[p].state = sink[p].state
        BY <2>7 DEF SinkTruncate, TypeOK, Sinks
      <3>2. cursor' \notin Blocks
        BY <2>7, RunAssumption DEF SinkTruncate
      <3>3. SinkInv(p)'
        BY <2>4, <2>7, <3>1, <3>2 DEF SinkTruncate, SinkInv, Running
      <3> QED
        BY <2>2, <2>3, <2>7, <3>2, <3>3 DEF SinkTruncate, DataInv, NoRegression, Closed
    <2>8. CASE SinkCursor(p)
      <3>1. /\ sink'[p].at = sink[p].upto /\ sink'[p].step = "rows"
            /\ cursor' = sink[p].upto
        BY <2>8 DEF SinkCursor, TypeOK, Sinks
      <3>2. sink[p].at \in Int /\ sink[p].upto \in rows \cap markers /\ sink[p].at < sink[p].upto
        BY <2>0, <2>4, <2>8 DEF SinkInv, SinkCursor, Blocks
      <3>3. progress # None => progress \in Int /\ progress <= sink[p].at
        BY <2>0, <2>4 DEF SinkInv, TypeOK, Blocks
      <3>4. sink[p].upto \in Blocks /\ sink[p].upto \in Int
        <4>1. rows \subseteq Blocks /\ Blocks \subseteq Int
          BY RunAssumption DEF TypeOK, Blocks
        <4> QED
          BY <3>2, <4>1 DEF TypeOK
      <3>5. SinkInv(p)'
        BY <2>8, <3>1, <3>2, <3>3, <3>4 DEF SinkCursor, SinkInv
      <3>6. NoRegression'
        BY <2>0, <3>1, <3>2, <3>3, <3>4 DEF NoRegression
      <3> QED
        BY <2>2, <2>3, <2>8, <3>5, <3>6 DEF SinkCursor, DataInv, Closed
    <2> QED
      BY <1>14, <2>5, <2>6, <2>7, <2>8 DEF Sink
  <1>15. CASE Restore
    <2>1. \A q \in Procs : ~Running(q) /\ pc[q] # "spawn"
      BY <1>15, RunAssumption DEF Restore, LockInv, Holding, Running
    <2>2. Closed(rows') /\ Closed(markers')
      BY <1>15, RunAssumption, Z3 DEF Restore, DataInv, Closed, TypeOK, Blocks
    <2> QED
      BY <1>15, <2>1, <2>2 DEF Restore, DataInv, SinkInv, SpawnInv, NoRegression, Running, Closed
  <1>16. CASE SamplerFails \/ SamplerEnds \/ UNCHANGED vars
    BY <1>16, DataFrame DEF SamplerFails, SamplerEnds, vars
  <1> QED
    BY <1>1, <1>2, <1>3, <1>4, <1>5, <1>6, <1>7, <1>8, <1>9, <1>10, <1>11, <1>12, <1>13, <1>14,
       <1>15, <1>16 DEF Next, Work, Measure
----------------------------------------------------------------------------
(* Types                                                                    *)

\* The parts of the type invariant that an action disturbs together.
LocalType ==
    /\ lock \in Procs \cup {None}
    /\ pc \in [Procs -> Steps]
    /\ job \in [Procs -> [op : Commands \cup {None}, stop : Stops \cup {None},
                          position : Blocks \cup {None}]]
HarnessType ==
    harness \in [used : BOOLEAN, sampler : {"none", "run", "ok", "error"},
                 done : BOOLEAN, cancelled : BOOLEAN, ingested : BOOLEAN]

\* A step moves one command, returns from it or ends it.
LEMMA LocalStep ==
    ASSUME RunInv, [Next]_vars
    PROVE  LocalType'
  <1> USE DEF RunInv, setup, data, local, bounds
  <1>1. ASSUME NEW p \in Procs, Return(p) \/ End(p)
        PROVE  LocalType'
    BY <1>1, ReturnMoves DEF LocalType
  <1>2. ASSUME NEW p \in Procs, NEW step \in Steps, Goto(p, step), UNCHANGED <<job, lock>>
        PROVE  LocalType'
    BY <1>2 DEF LocalType, Goto, TypeOK
  <1>3. ASSUME UNCHANGED <<pc, job, lock>>
        PROVE  LocalType'
    BY <1>3 DEF LocalType, TypeOK
  <1>4. ASSUME NEW p \in Procs, Command(p)
        PROVE  LocalType'
    <2>1. \E op \in Commands, stop \in Stops \cup {None} :
              job' = [job EXCEPT ![p].op = op, ![p].stop = stop]
      BY <1>4, RunAssumption DEF Command, Start, StartMeasure, Commands
    <2>2. (\E step \in Steps : Goto(p, step)) /\ (lock' = p \/ UNCHANGED lock)
      BY <1>4 DEF Command, Start, StartMeasure, Steps, PrepareSteps
    <2>3. job' \in [Procs -> [op : Commands \cup {None}, stop : Stops \cup {None},
                              position : Blocks \cup {None}]]
      <3>1. PICK op \in Commands, stop \in Stops \cup {None} :
                job' = [job EXCEPT ![p].op = op, ![p].stop = stop]
        BY <2>1
      <3>2. job[p].position \in Blocks \cup {None}
        BY DEF TypeOK
      <3>3. job[p] = [op |-> job[p].op, stop |-> job[p].stop, position |-> job[p].position]
        BY DEF TypeOK
      <3>4. job'[p] = [op |-> op, stop |-> stop, position |-> job[p].position]
        BY <3>1, <3>3 DEF TypeOK
      <3>5. /\ DOMAIN job' = Procs /\ job' = [q \in Procs |-> job'[q]]
            /\ \A q \in Procs \ {p} : job'[q] = job[q]
        BY <3>1 DEF TypeOK
      <3> QED
        BY <3>2, <3>4, <3>5 DEF TypeOK
    <2>4. pc' \in [Procs -> Steps] /\ lock' \in Procs \cup {None}
      BY <2>2 DEF Goto, TypeOK
    <2> QED
      BY <2>3, <2>4 DEF LocalType
  <1>5. ASSUME NEW p \in Procs, Prepare(p)
        PROVE  LocalType'
    <2>1. (\E step \in Steps : Goto(p, step) /\ UNCHANGED <<job, lock>>) \/ Return(p)
      BY <1>5 DEF Prepare, Record, Freeze, CreateOwner, InsertOwner, CheckOwner, NativeSetup,
                  MarkPrepared, Prepared, PrepareSteps, Steps
    <2> QED
      BY <1>1, <1>2, <2>1
  <1>6. ASSUME NEW p \in Procs, MeasureLock(p)
        PROVE  LocalType'
    BY <1>6 DEF MeasureLock, Goto, LocalType, TypeOK, Steps, PrepareSteps
  <1>7. ASSUME NEW p \in Procs, Reap(p)
        PROVE  LocalType'
    <2>1. CASE Return(p)
      BY <1>1, <2>1
    <2>2. CASE ~Return(p)
      <3>1. /\ cursor \in Blocks /\ Goto(p, "complete") /\ UNCHANGED lock
            /\ job' = [job EXCEPT ![p].position = cursor]
        BY <1>7, <2>2 DEF Reap
      <3> QED
        BY <3>1 DEF Goto, LocalType, TypeOK, Steps
    <2> QED
      BY <2>1, <2>2
  <1>8. ASSUME NEW p \in Procs,
               \/ Admit(p) \/ RecoverCursor(p) \/ Spawn(p) \/ StopSink(p) \/ StopBounded(p)
               \/ Complete(p) \/ Refuse(p) \/ OrphanEnds(p) \/ Join(p) \/ Joining(p)
               \/ Report(p) \/ Fail(p) \/ Kill(p)
        PROVE  LocalType'
    <2>1. \/ \E step \in Steps : Goto(p, step) /\ UNCHANGED <<job, lock>>
          \/ Return(p) \/ End(p)
      BY <1>8 DEF Admit, RecoverCursor, Spawn, StopSink, StopBounded, Complete, Refuse,
                  OrphanEnds, Join, Joining, Report, Fail, Kill, Steps
    <2> QED
      BY <1>1, <1>2, <2>1
  <1>9. ASSUME NEW p \in Procs,
               Observe(p) \/ SinkStops(p) \/ Sink(p) \/ SinkExit(p) \/ SinkFail(p)
        PROVE  LocalType'
    BY <1>3, <1>9 DEF Observe, SinkStops, Sink, SinkRows, SinkMarkers, SinkTruncate, SinkCursor,
                      SinkExit, SinkFail
  <1>10. CASE SamplerFails \/ SamplerEnds \/ Restore \/ UNCHANGED vars
    BY <1>3, <1>10 DEF SamplerFails, SamplerEnds, Restore, vars
  <1> QED
    BY <1>4, <1>5, <1>6, <1>7, <1>8, <1>9, <1>10 DEF Next, Work, Measure

LEMMA HarnessStep ==
    ASSUME RunInv, [Next]_vars
    PROVE  HarnessType'
  <1> USE DEF RunInv, setup, data, local, bounds
  <1>1. ASSUME UNCHANGED harness
        PROVE  HarnessType'
    BY <1>1 DEF HarnessType, TypeOK
  <1>2. ASSUME NEW p \in Procs, harness' = Threadless(p)
        PROVE  HarnessType'
    BY <1>2 DEF HarnessType, TypeOK, Threadless, NoHarness
  <1>3. ASSUME NEW p \in Procs, Command(p)
        PROVE  HarnessType'
    BY <1>3 DEF Command, Start, StartMeasure, HarnessType, TypeOK
  <1>4. ASSUME NEW p \in Procs, Complete(p) \/ Admit(p)
        PROVE  HarnessType'
    BY <1>1, <1>4 DEF Complete, Admit, Ingested, HarnessType, TypeOK
  <1>5. ASSUME NEW p \in Procs, Join(p)
        PROVE  HarnessType'
    BY <1>5 DEF Join, Signal, HarnessType, TypeOK
  <1>6. ASSUME NEW p \in Procs, Joining(p) \/ Report(p) \/ Fail(p) \/ Kill(p)
        PROVE  HarnessType'
    BY <1>1, <1>2, <1>6 DEF Joining, Report, Fail, Kill
  <1>7. ASSUME NEW p \in Procs,
               \/ Prepare(p) \/ RecoverCursor(p) \/ Spawn(p) \/ StopBounded(p)
               \/ SinkStops(p) \/ Reap(p) \/ Refuse(p) \/ OrphanEnds(p) \/ Observe(p)
               \/ StopSink(p) \/ Sink(p) \/ SinkExit(p) \/ SinkFail(p) \/ MeasureLock(p)
        PROVE  HarnessType'
    BY <1>1, <1>7 DEF Prepare, Record, Freeze, CreateOwner, InsertOwner, CheckOwner, NativeSetup,
       MarkPrepared, RecoverCursor, Spawn, StopBounded, SinkStops, Reap, Refuse,
       OrphanEnds, Observe, StopSink, Sink, SinkRows, SinkMarkers, SinkTruncate, SinkCursor,
       SinkExit, SinkFail, MeasureLock
  <1>8. CASE SamplerFails \/ SamplerEnds
    BY <1>8 DEF SamplerFails, SamplerEnds, HarnessType, TypeOK
  <1>9. CASE Restore \/ UNCHANGED vars
    BY <1>1, <1>9 DEF Restore, vars
  <1> QED
    BY <1>3, <1>4, <1>5, <1>6, <1>7, <1>8, <1>9 DEF Next, Work, Measure

StoreType ==
    /\ phase \in {None, "preparing", "prepared"}
    /\ litter \in BOOLEAN /\ frozen \in BOOLEAN /\ tables \in BOOLEAN
    /\ owner \in {"absent", "empty", "row"}
    /\ completed \in Blocks \cup {None}
    /\ faults \in 0..MaxFaults /\ restores \in 0..MaxRestores
DataType ==
    /\ rows \subseteq Blocks /\ markers \subseteq Blocks
    /\ cursor \in Blocks \cup {None, Torn}
    /\ progress \in Blocks \cup {None}
    /\ sink \in [Procs -> Sinks]

LEMMA StoreTypeStep ==
    ASSUME RunInv, [Next]_vars
    PROVE  StoreType'
  <1> USE RunAssumption DEF RunInv, setup, data, local, bounds
  <1>1. ASSUME UNCHANGED <<setup, completed, restores>>,
               UNCHANGED faults \/ (faults < MaxFaults /\ faults' = faults + 1)
        PROVE  StoreType'
    BY <1>1 DEF StoreType, TypeOK
  <1>2. ASSUME NEW p \in Procs, Prepare(p)
        PROVE  StoreType'
    BY <1>2 DEF Prepare, Record, Freeze, CreateOwner, InsertOwner, CheckOwner, NativeSetup,
       MarkPrepared, StoreType, TypeOK
  <1>3. ASSUME NEW p \in Procs, Complete(p)
        PROVE  StoreType'
    BY <1>3 DEF Complete, StoreType, TypeOK
  <1>4. ASSUME NEW p \in Procs, Kill(p)
        PROVE  StoreType'
    BY <1>4 DEF Kill, StoreType, TypeOK
  <1>5. CASE Restore
    BY <1>5 DEF Restore, StoreType, TypeOK
  <1>6. ASSUME NEW p \in Procs, Command(p) \/ Measure(p)
        PROVE  StoreType'
    BY <1>1, <1>6 DEF Command, Start, StartMeasure, Measure, MeasureLock, Join, Joining, Report
  <1>7. ASSUME NEW p \in Procs,
               \/ RecoverCursor(p) \/ Admit(p) \/ Spawn(p) \/ StopBounded(p) \/ SinkStops(p)
               \/ Reap(p) \/ Refuse(p) \/ OrphanEnds(p) \/ Observe(p) \/ StopSink(p)
               \/ Fail(p)
        PROVE  StoreType'
    BY <1>1, <1>7 DEF RecoverCursor, Admit, Spawn, StopBounded, SinkStops, Reap, Refuse,
       OrphanEnds, Observe, StopSink, Fail
  <1>8. ASSUME NEW p \in Procs, Sink(p) \/ SinkExit(p) \/ SinkFail(p)
        PROVE  StoreType'
    BY <1>1, <1>8 DEF Sink, SinkRows, SinkMarkers, SinkTruncate, SinkCursor, SinkExit, SinkFail
  <1>9. CASE SamplerFails \/ SamplerEnds \/ UNCHANGED vars
    BY <1>1, <1>9 DEF SamplerFails, SamplerEnds, vars
  <1> QED
    BY <1>2, <1>3, <1>4, <1>5, <1>6, <1>7, <1>8, <1>9 DEF Next, Work

\* A sink whose fields keep their types; the others are untouched.
LEMMA SinkEdit ==
    ASSUME TypeOK, NEW p \in Procs, DOMAIN sink' = Procs, sink' = [q \in Procs |-> sink'[q]],
           \A q \in Procs \ {p} : sink'[q] = sink[q],
           sink'[p] = [state |-> sink'[p].state, step |-> sink'[p].step, at |-> sink'[p].at,
                       upto |-> sink'[p].upto, stop |-> sink'[p].stop],
           sink'[p].state \in {"none", "run", "ok", "failed"},
           sink'[p].step \in {"rows", "markers", "truncate", "cursor"},
           sink'[p].at \in Blocks \cup {StartBlock - 1, None},
           sink'[p].upto \in Blocks \cup {None}, sink'[p].stop \in Stops \cup {None}
    PROVE  sink' \in [Procs -> Sinks]
  <1>1. sink'[p] \in Sinks
    BY DEF Sinks
  <1> QED
    BY <1>1 DEF TypeOK

LEMMA DataTypeStep ==
    ASSUME RunInv, [Next]_vars
    PROVE  DataType'
  <1> USE DEF RunInv, setup, data, local, bounds
  <1>1. ASSUME UNCHANGED <<rows, markers, cursor, progress, sink>>
        PROVE  DataType'
    BY <1>1 DEF DataType, TypeOK
  <1>2. NoSink \in Sinks
    BY DEF NoSink, Sinks
  <1>3. ASSUME NEW p \in Procs, NEW state \in {"none", "run", "ok", "failed"},
               UNCHANGED <<rows, markers, cursor, progress>>,
               sink' = [sink EXCEPT ![p] = NoSink] \/ sink' = [sink EXCEPT ![p].state = state]
        PROVE  DataType'
    <2>0. sink[p] \in Sinks
      BY DEF TypeOK
    <2>1. CASE sink' = [sink EXCEPT ![p].state = state]
      <3>1. sink' \in [Procs -> Sinks]
        BY <2>0, <2>1, SinkEdit DEF TypeOK, Sinks
      <3> QED
        BY <1>3, <3>1 DEF DataType, TypeOK
    <2>2. CASE sink' = [sink EXCEPT ![p] = NoSink]
      BY <1>2, <1>3, <2>2 DEF DataType, TypeOK
    <2> QED
      BY <1>3, <2>1, <2>2
  <1>4. ASSUME NEW p \in Procs, Command(p) \/ Measure(p) \/ Prepare(p)
        PROVE  DataType'
    BY <1>1, <1>4 DEF Command, Start, StartMeasure, Measure, MeasureLock, Join, Joining, Report,
       Prepare, Record, Freeze, CreateOwner, InsertOwner, CheckOwner, NativeSetup, MarkPrepared
  <1>5. ASSUME NEW p \in Procs, RecoverCursor(p) \/ Observe(p) \/ Admit(p)
        PROVE  DataType'
    BY <1>5 DEF RecoverCursor, Observe, Admit, Saveable, Backed, DataType, TypeOK
  <1>6. ASSUME NEW p \in Procs, Spawn(p)
        PROVE  DataType'
    <2>1. (IF cursor = None THEN StartBlock - 1 ELSE cursor) \in Blocks \cup {StartBlock - 1, None}
      BY <1>6 DEF Spawn, DataInv, SpawnInv, Backed, TypeOK
    <2>2. job[p].stop \in Stops \cup {None}
      BY DEF TypeOK
    <2>3. [NoSink EXCEPT !.state = "run", !.stop = job[p].stop,
                         !.at = IF cursor = None THEN StartBlock - 1 ELSE cursor] \in Sinks
      BY <2>1, <2>2 DEF NoSink, Sinks
    <2> QED
      BY <1>6, <2>3 DEF Spawn, DataType, TypeOK
  <1>7. ASSUME NEW p \in Procs, Reap(p)
        PROVE  DataType'
    BY <1>2, <1>7 DEF Reap, DataType, TypeOK
  <1>8. ASSUME NEW p \in Procs,
               \/ StopBounded(p) \/ StopSink(p) \/ Refuse(p) \/ Complete(p) \/ Fail(p)
        PROVE  DataType'
    BY <1>1, <1>8 DEF StopBounded, StopSink, Refuse, Complete, Fail
  <1>9. ASSUME NEW p \in Procs,
               SinkStops(p) \/ SinkExit(p) \/ SinkFail(p) \/ OrphanEnds(p) \/ Kill(p)
        PROVE  DataType'
    BY <1>1, <1>3, <1>9 DEF SinkStops, SinkExit, SinkFail, OrphanEnds, Kill
  <1>10. ASSUME NEW p \in Procs, Sink(p)
         PROVE  DataType'
    <2>1. /\ StartBlock \in Nat /\ Head \in Nat /\ sink[p] \in Sinks
          /\ SinkInv(p) /\ Running(p)
      BY <1>10, RunAssumption DEF Sink, SinkRows, SinkMarkers, SinkTruncate, SinkCursor, DataInv,
                                  TypeOK
    <2>2. sink[p].at \in Int /\ sink[p].at >= StartBlock - 1
      BY <2>1 DEF SinkInv, Blocks
    <2>3. CASE SinkRows(p)
      <3>1. PICK n \in Blocks : /\ rows' = rows \cup ((sink[p].at + 1)..n)
                                /\ sink' = [sink EXCEPT ![p].upto = n, ![p].step = "markers"]
        BY <2>3 DEF SinkRows
      <3>2. (sink[p].at + 1)..n \subseteq Blocks
        BY <2>1, <2>2 DEF Blocks
      <3>3. sink' \in [Procs -> Sinks]
        BY <2>1, <3>1, SinkEdit DEF TypeOK, Sinks
      <3> QED
        BY <2>3, <3>1, <3>2, <3>3 DEF SinkRows, DataType, TypeOK
    <2>4. CASE SinkMarkers(p)
      <3>1. sink[p].upto \in Blocks
        BY <2>1, <2>4 DEF SinkMarkers, SinkInv, TypeOK
      <3>2. (sink[p].at + 1)..sink[p].upto \subseteq Blocks
        BY <2>1, <2>2, <3>1 DEF Blocks
      <3>3. sink' \in [Procs -> Sinks]
        BY <2>1, <2>4, SinkEdit DEF SinkMarkers, TypeOK, Sinks
      <3> QED
        BY <2>4, <3>2, <3>3 DEF SinkMarkers, DataType, TypeOK
    <2>5. CASE SinkTruncate(p)
      <3>1. sink' \in [Procs -> Sinks]
        BY <2>1, <2>5, SinkEdit DEF SinkTruncate, TypeOK, Sinks
      <3> QED
        BY <2>5, <3>1 DEF SinkTruncate, DataType, TypeOK
    <2>6. CASE SinkCursor(p)
      <3>1. sink[p].upto \in Blocks
        BY <2>1, <2>6 DEF SinkCursor, SinkInv, TypeOK
      <3>2. sink' \in [Procs -> Sinks]
        BY <2>1, <2>6, <3>1, SinkEdit DEF SinkCursor, TypeOK, Sinks
      <3> QED
        BY <2>6, <3>1, <3>2 DEF SinkCursor, DataType, TypeOK
    <2> QED
      BY <1>10, <2>3, <2>4, <2>5, <2>6 DEF Sink
  <1>11. CASE SamplerFails \/ SamplerEnds \/ UNCHANGED vars
    BY <1>1, <1>11 DEF SamplerFails, SamplerEnds, vars
  <1>12. CASE Restore
    BY <1>12 DEF Restore, DataType, TypeOK
  <1> QED
    BY <1>4, <1>5, <1>6, <1>7, <1>8, <1>9, <1>10, <1>11, <1>12 DEF Next, Work

----------------------------------------------------------------------------
(* Theorems                                                                 *)

LEMMA RunInit ==
    Init => RunInv
  <1> SUFFICES ASSUME Init PROVE RunInv
    OBVIOUS
  <1>1. TypeOK
    <2>0. HarnessType
      BY DEF Init, HarnessType, NoHarness
    <2>1. StoreType
      <3>1. litter \in BOOLEAN /\ frozen \in BOOLEAN /\ tables \in BOOLEAN
        BY DEF Init
      <3>2. faults \in 0..MaxFaults /\ restores \in 0..MaxRestores
        BY RunAssumption DEF Init
      <3>3. /\ phase \in {None, "preparing", "prepared"} /\ owner \in {"absent", "empty", "row"}
            /\ completed \in Blocks \cup {None}
        BY DEF Init
      <3> QED
        BY <3>1, <3>2, <3>3 DEF StoreType
    <2>2. LocalType
      BY DEF Init, LocalType, NoJob, Steps
    <2>3. DataType
      BY DEF Init, DataType, NoSink, Sinks
    <2> QED
      BY <2>0, <2>1, <2>2, <2>3 DEF TypeOK, StoreType, HarnessType, LocalType, DataType
  <1>2. LockInv
    BY DEF Init, LockInv, Holding, SinkSteps, PrepareSteps, NoSink
  <1>3. MeasureInv
    BY RunAssumption DEF Init, MeasureInv, NoJob
  <1>4. DataInv
    BY DEF Init, DataInv, Closed, NoRegression, SinkInv, SpawnInv, Running, NoSink
  <1> QED
    BY <1>1, <1>2, <1>3, <1>4 DEF RunInv

LEMMA RunStep ==
    ASSUME RunInv, [Next]_vars
    PROVE  RunInv'
  <1>1. TypeOK'
    BY LocalStep, HarnessStep, StoreTypeStep, DataTypeStep
       DEF TypeOK, LocalType, HarnessType, StoreType, DataType
  <1> QED
    BY <1>1, LockStep, MeasureStep, DataStep DEF RunInv

\* The conjunction that every step of ingest.rs and of the throughput measurement
\* preserves: types, the holder of run.lock, the one measurement of a root, and
\* what the database keeps behind the cursor, its backup and a running sink.
THEOREM RunInvariant == Spec => []RunInv
  BY RunInit, RunStep, PTL DEF Spec

\* Every variable of a guarded run keeps its type.
THEOREM RunTypes == Spec => []TypeOK
  BY RunInvariant, PTL DEF RunInv

\* At most one native sink of a source runs, and its command or the orphaned
\* sink itself holds run.lock (ingest.rs: ingest_bounded, the inherited lock).
THEOREM OneSinkAtATime == Spec => []OneSink
  <1>1. RunInv => OneSink
    BY DEF RunInv, LockInv, OneSink, Running, SinkSteps, Holding
  <1> QED
    BY <1>1, RunInvariant, PTL

\* A running sink never streams over blocks the database has lost, through
\* kills, orphaned sinks, torn cursors, recoveries and restored databases
\* (ingest.rs: the checks of ingest_bounded before the sink is spawned).
THEOREM NoGapBehindSink == Spec => []NoGap
  <1>1. RunInv => NoGap
    <2> SUFFICES ASSUME RunInv, NEW p \in Procs, Running(p)
                 PROVE  (StartBlock..sink[p].at) \subseteq rows \cap markers
      BY DEF NoGap
    <2>1. SinkInv(p) /\ Closed(rows) /\ Closed(markers)
      BY DEF RunInv, DataInv
    <2>2. CASE sink[p].at = StartBlock - 1
      BY <2>2, RunAssumption
    <2>3. CASE sink[p].at # StartBlock - 1
      BY <2>1, <2>3 DEF SinkInv, Closed
    <2> QED
      BY <2>2, <2>3
  <1> QED
    BY <1>1, RunInvariant, PTL

\* The backup of the cursor never overtakes a readable cursor (cursor.rs:
\* save_progress, which refuses such a cursor; ingest.rs: recover_cursor).
THEOREM BackupNeverAhead == Spec => []NoRegression
  <1>1. RunInv => NoRegression
    BY DEF RunInv, DataInv
  <1> QED
    BY <1>1, RunInvariant, PTL

\* A throughput result that may be written stands for a sampled and ingested
\* run whose blocks are all stored, also after the database was restored: the
\* backup is checked against it once more (throughput_qualification.rs).
THEOREM ThroughputResultWhole == Spec => []ResultWhole
  <1>1. RunInv => ResultWhole
    <2> SUFFICES ASSUME RunInv, NEW p \in Procs, pc[p] = "report", Reportable(p)
                 PROVE  /\ harness.sampler = "ok" /\ harness.ingested
                        /\ StartBlock..(job[p].stop - 1) \subseteq rows \cap markers
      BY DEF ResultWhole
    <2>1. harness.sampler = "ok" /\ harness.ingested
      BY DEF RunInv, MeasureInv
    <2>2. StartBlock..(job[p].stop - 1) \subseteq rows \cap markers
      BY DEF RunInv, DataInv, Closed, Reportable, Backed
    <2> QED
      BY <2>1, <2>2
  <1> QED
    BY <1>1, RunInvariant, PTL
============================================================================
