----------------------------- MODULE NativeRun -----------------------------
(***************************************************************************)
(* One guarded native source: its preparation, its ingestion by a          *)
(* supervised `substreams sink clickhouse` process, the native cursor file *)
(* and the checked backup of that cursor (durable_progress.json).          *)
(*                                                                         *)
(* A process is one evm-state command (prepare, ingest, recover-cursor) on *)
(* the same state directory.  Each step is one file write or one statement.*)
(* A command may return an error, which reaps its sink first, or be killed *)
(* outright: then the sink lives on with the inherited run.lock.           *)
(*                                                                         *)
(* The throughput measurement (throughput_qualification.rs) is a command   *)
(* that runs one ingestion under a deadline beside a sampling thread,      *)
(* which can cancel it.                                                    *)
(*                                                                         *)
(* The sink itself is external.  It inserts block rows, then their marker  *)
(* rows, then rewrites cursor.txt in place, and may exit at any point.     *)
(***************************************************************************)
EXTENDS Integers, FiniteSets

CONSTANTS
    Procs,          \* evm-state commands
    StartBlock,     \* --start-block of the run
    Head,           \* bound: highest finalized block
    Stops,          \* the values of --stop-block (exclusive; None follows the head)
    MeasureStops,   \* the exclusive stops of throughput measurements
    MaxFaults,      \* bound: kills, errors and sink failures
    MaxRestores,    \* bound: restores of an older database
    None, Torn      \* no file; a file whose contents do not decode

Blocks == StartBlock..Head

ASSUME RunAssumption ==
    /\ StartBlock \in Nat /\ Head \in Nat /\ MaxFaults \in Nat /\ MaxRestores \in Nat
    /\ Stops \subseteq ((StartBlock + 1)..(Head + 1)) \cup {None}
    /\ MeasureStops \subseteq Stops \ {None}
    /\ None \notin Procs \cup Blocks /\ Torn \notin Blocks \cup {None}
    /\ None \notin (StartBlock + 1)..(Head + 1)
    /\ None \notin {"prepare", "ingest", "recover", "measure"}

VARIABLES
    phase,          \* run.json: None, "preparing" or "prepared"
    litter,         \* a temporary file of an interrupted first write remains
    frozen,         \* package.spkg is there
    owner,          \* table _evm_state_run: "absent", "empty" or "row"
    tables,         \* native setup has created its tables and schema hash
    rows, markers,  \* block numbers in state_blocks and _blocks_
    cursor,         \* cursor.txt: a block number, Torn or None
    progress,       \* durable_progress.json: a block number or None
    completed,      \* last_completed_cursor.txt: a block number or None
    lock,           \* the command whose descriptor holds run.lock, or None
    pc, job,        \* each command's position; what it was asked to do
    sink,           \* the native process each command started
    faults, restores, \* how many of the bounded events happened
    harness         \* the throughput measurement of this source: see NoHarness

setup == <<phase, litter, frozen, owner, tables>>
data == <<rows, markers>>
local == <<pc, job>>
bounds == <<faults, restores>>
vars == <<phase, litter, frozen, owner, tables, rows, markers, cursor, progress,
          completed, lock, pc, job, sink, faults, restores, harness>>

Commands == {"prepare", "ingest", "recover", "measure"}
PrepareSteps == {"record", "freeze", "owner", "ownerRow", "ownerCheck", "setup", "mark"}
Steps == {"idle", "recover", "admit", "spawn", "watch", "stopping", "complete", "orphan"}
         \cup PrepareSteps \cup {"lock", "join", "joining", "report"}

NoJob == [op |-> None, stop |-> None, position |-> None]
NoSink == [state |-> "none", step |-> "rows", at |-> None, upto |-> None, stop |-> None]
Sinks == [state : {"none", "run", "ok", "failed"},
          step : {"rows", "markers", "truncate", "cursor"},
          at : Blocks \cup {StartBlock - 1, None}, upto : Blocks \cup {None},
          stop : Stops \cup {None}]

\* Whether the root was ever used; the sampling thread; the flags that the
\* threads share; ingestion's verdict.
NoHarness == [used |-> FALSE, sampler |-> "none", done |-> FALSE, cancelled |-> FALSE,
              ingested |-> FALSE]

Init ==
    /\ phase = None /\ litter = FALSE /\ frozen = FALSE
    /\ owner = "absent" /\ tables = FALSE
    /\ rows = {} /\ markers = {}
    /\ cursor = None /\ progress = None /\ completed = None
    /\ lock = None
    /\ pc = [p \in Procs |-> "idle"] /\ job = [p \in Procs |-> NoJob]
    /\ sink = [p \in Procs |-> NoSink]
    /\ faults = 0 /\ restores = 0 /\ harness = NoHarness

Goto(p, step) == pc' = [pc EXCEPT ![p] = step]

Unlock(p) == lock' = IF lock = p THEN None ELSE lock

\* The command is gone, and run.lock with it.
End(p) ==
    /\ Goto(p, "idle")
    /\ job' = [job EXCEPT ![p] = NoJob]
    /\ Unlock(p)

\* The operation returns and its guard unlocks run.lock; a measurement then
\* joins its other thread.
Return(p) == IF job[p].op = "measure" THEN Goto(p, "join") /\ Unlock(p) /\ UNCHANGED job
             ELSE End(p)

Running(p) == sink[p].state = "run"

\* cursor::validate: the position has one block row and one marker row.
Backed(position) == position \in rows \cap markers

----------------------------------------------------------------------------
(* Preparation: prepare_unlocked                                            *)

\* Every command starts with run.lock, taken without waiting.
Start(p, op, stop) ==
    /\ pc[p] = "idle" /\ lock = None
    /\ lock' = p
    /\ job' = [job EXCEPT ![p].op = op, ![p].stop = stop]
    /\ harness' = [harness EXCEPT !.used = TRUE]
    /\ Goto(p, "record")
    /\ UNCHANGED <<setup, data, cursor, progress, completed, sink, bounds>>

\* A first run needs a state directory without other files and a database
\* without tables; run.json then makes the preparation resumable.
Record(p) ==
    /\ pc[p] = "record"
    /\ phase = None => /\ ~litter
                       /\ owner = "absent" /\ ~tables
    /\ phase' = IF phase = None THEN "preparing" ELSE phase
    /\ Goto(p, "freeze")
    /\ UNCHANGED <<litter, frozen, owner, tables, data, cursor, progress, completed,
                   lock, job, sink, bounds, harness>>

Freeze(p) ==
    /\ pc[p] = "freeze"
    /\ phase = "prepared" => frozen
    /\ frozen' = TRUE
    /\ Goto(p, "owner")
    /\ UNCHANGED <<phase, litter, owner, tables, data, cursor, progress, completed,
                   lock, job, sink, bounds, harness>>

\* The ownership table is created if it does not exist.
CreateOwner(p) ==
    /\ pc[p] = "owner"
    /\ owner = "absent" => phase # "prepared"
    /\ owner' = IF owner = "absent" THEN "empty" ELSE owner
    /\ Goto(p, IF owner = "absent" THEN "ownerRow" ELSE "ownerCheck")
    /\ UNCHANGED <<phase, litter, frozen, tables, data, cursor, progress, completed,
                   lock, job, sink, bounds, harness>>

InsertOwner(p) ==
    /\ pc[p] = "ownerRow"
    /\ owner' = "row"
    /\ Goto(p, "ownerCheck")
    /\ UNCHANGED <<phase, litter, frozen, tables, data, cursor, progress, completed,
                   lock, job, sink, bounds, harness>>

\* What a prepared command goes on to do.
Prepared(p) ==
    CASE job[p].op = "prepare" -> Return(p)
      [] job[p].op = "recover" -> Goto(p, "recover") /\ UNCHANGED <<job, lock>>
      [] OTHER                 -> Goto(p, "admit") /\ UNCHANGED <<job, lock>>

\* The ownership row must be there, and be this run's.
CheckOwner(p) ==
    /\ pc[p] = "ownerCheck"
    /\ owner = "row"
    /\ IF phase = "preparing" THEN Goto(p, "setup") /\ UNCHANGED <<job, lock>>
       ELSE tables /\ Prepared(p)
    /\ UNCHANGED <<setup, data, cursor, progress, completed, sink, bounds, harness>>

NativeSetup(p) ==
    /\ pc[p] = "setup"
    /\ tables' = TRUE
    /\ Goto(p, "mark")
    /\ UNCHANGED <<phase, litter, frozen, owner, data, cursor, progress, completed,
                   lock, job, sink, bounds, harness>>

MarkPrepared(p) ==
    /\ pc[p] = "mark"
    /\ phase' = "prepared"
    /\ Prepared(p)
    /\ UNCHANGED <<litter, frozen, owner, tables, data, cursor, progress, completed,
                   sink, bounds, harness>>

----------------------------------------------------------------------------
(* The cursor and its backup: save_progress, recover_cursor                 *)

\* save_progress accepts the cursor: it has its rows, and so has the previous
\* backup, which is not ahead of it.
Saveable ==
    /\ Backed(cursor)
    /\ progress # None => Backed(progress) /\ progress <= cursor

\* Mutants of RecoverCursor: it restores the cursor of the last completed run,
\* or only moves the damaged file away.
RecoverCompleted(p) ==
    /\ pc[p] = "recover"
    /\ Backed(progress) /\ completed # None
    /\ cursor' = completed
    /\ Return(p)
    /\ UNCHANGED <<setup, data, progress, completed, sink, bounds, harness>>
RecoverByRemoval(p) ==
    /\ pc[p] = "recover"
    /\ Backed(progress)
    /\ cursor' = None
    /\ Return(p)
    /\ UNCHANGED <<setup, data, progress, completed, sink, bounds, harness>>

RecoverCursor(p) ==
    /\ pc[p] = "recover"
    /\ Backed(progress)
    /\ cursor' = progress
    /\ Return(p)
    /\ UNCHANGED <<setup, data, progress, completed, sink, bounds, harness>>

----------------------------------------------------------------------------
(* Ingestion: ingest_bounded                                                *)

\* check_bound of a measurement: its deadline may have passed at any check, and
\* its sampling thread may have cancelled it.
MayStop(p) == job[p].op = "measure"
MustStop(p) == MayStop(p) /\ harness.cancelled

\* Mutant of Admit: a cursor is trusted without its block data.
AdmitUnchecked(p) ==
    /\ pc[p] = "admit"
    /\ IF rows # {} THEN cursor \in Blocks ELSE cursor = None /\ progress = None
    /\ progress' = cursor
    /\ IF cursor # None /\ job[p].stop # None /\ cursor >= job[p].stop - 1
       THEN Return(p) ELSE Goto(p, "spawn") /\ UNCHANGED <<job, lock>>
    /\ UNCHANGED <<setup, data, cursor, completed, sink, bounds, harness>>

\* Ingestion returns without an error: what a measurement learns of it.
Ingested(p) == harness' = [harness EXCEPT !.ingested = @ \/ job[p].op = "measure"]

\* Existing data needs a cursor that matches it; no data needs no cursor and
\* no backup.  A run that is already at its stop ends here, and one that is
\* past it with an error.
Admit(p) ==
    /\ pc[p] = "admit" /\ ~MustStop(p)
    /\ IF rows # {} THEN Saveable ELSE cursor = None /\ progress = None
    /\ progress' = cursor
    /\ IF cursor # None /\ job[p].stop # None /\ cursor >= job[p].stop - 1
       THEN /\ Return(p)
            /\ IF cursor = job[p].stop - 1 THEN Ingested(p) ELSE UNCHANGED harness
       ELSE Goto(p, "spawn") /\ UNCHANGED <<job, lock, harness>>
    /\ UNCHANGED <<setup, data, cursor, completed, sink, bounds>>

\* The sink inherits run.lock and continues from cursor.txt.
Spawn(p) ==
    /\ pc[p] = "spawn"
    /\ sink' = [sink EXCEPT ![p] =
          [NoSink EXCEPT !.state = "run", !.stop = job[p].stop,
                         !.at = IF cursor = None THEN StartBlock - 1 ELSE cursor]]
    /\ Goto(p, "watch")
    /\ UNCHANGED <<setup, data, cursor, progress, completed, lock, job, bounds, harness>>

\* A cursor that decodes is checked and backed up while the sink runs.
Observe(p) ==
    /\ pc[p] = "watch"
    /\ cursor \in Blocks
    /\ Saveable
    /\ progress' = cursor
    /\ UNCHANGED <<setup, data, cursor, completed, lock, local, sink, bounds, harness>>

\* A signal, a deadline, low capacity or a cursor that does not match its data
\* stops the sink with SIGTERM.
StopSink(p) ==
    /\ pc[p] = "watch" /\ Running(p)
    /\ faults < MaxFaults /\ faults' = faults + 1
    /\ Goto(p, "stopping")
    /\ UNCHANGED <<setup, data, cursor, progress, completed, lock, job, sink, restores, harness>>

\* The bound of a measurement is checked every second.
StopBounded(p) ==
    /\ pc[p] = "watch" /\ Running(p) /\ MayStop(p)
    /\ Goto(p, "stopping")
    /\ UNCHANGED <<setup, data, cursor, progress, completed, lock, job, sink, bounds, harness>>

\* The sink ends on SIGTERM, or on SIGKILL 15 seconds later.
SinkStops(p) ==
    /\ pc[p] = "stopping" /\ Running(p)
    /\ \E state \in {"ok", "failed"} : sink' = [sink EXCEPT ![p].state = state]
    /\ UNCHANGED <<setup, data, cursor, progress, completed, lock, local, bounds, harness>>

\* Mutant of Reap: the last cursor is backed up without decoding it.
ReapUndecoded(p) ==
    /\ pc[p] \in {"watch", "stopping"}
    /\ sink[p].state \in {"ok", "failed"}
    /\ sink' = [sink EXCEPT ![p] = NoSink]
    /\ progress' = cursor
    /\ Return(p)
    /\ UNCHANGED <<setup, data, cursor, completed, bounds, harness>>

\* The sink has ended: its last cursor is backed up, and the run is complete if
\* the sink succeeded at the requested block.
Reap(p) ==
    /\ pc[p] \in {"watch", "stopping"}
    /\ sink[p].state \in {"ok", "failed"}
    /\ sink' = [sink EXCEPT ![p] = NoSink]
    /\ LET decodes == cursor \in Blocks
           done == /\ pc[p] = "watch" /\ sink[p].state = "ok" /\ ~MustStop(p)
                   /\ decodes /\ Saveable
                   /\ job[p].stop # None => cursor = job[p].stop - 1
       IN  /\ progress' = IF decodes /\ Saveable THEN cursor ELSE progress
           /\ IF done
              THEN /\ Goto(p, "complete")
                   /\ job' = [job EXCEPT ![p].position = cursor]
                   /\ UNCHANGED lock
              ELSE Return(p)
    /\ UNCHANGED <<setup, data, cursor, completed, bounds, harness>>

Complete(p) ==
    /\ pc[p] = "complete"
    /\ completed' = job[p].position
    /\ Ingested(p)
    /\ Return(p)
    /\ UNCHANGED <<setup, data, cursor, progress, sink, bounds>>

----------------------------------------------------------------------------
(* The throughput measurement: throughput_qualification::measure            *)

\* The root must be fresh; workload.json, which is linked and never replaced,
\* keeps it to one measurement.  Then the sampling thread starts.
StartMeasure(p, stop) ==
    /\ pc[p] = "idle" /\ ~harness.used
    /\ harness' = [harness EXCEPT !.used = TRUE, !.sampler = "run"]
    /\ job' = [job EXCEPT ![p].op = "measure", ![p].stop = stop]
    /\ Goto(p, "lock")
    /\ UNCHANGED <<setup, data, cursor, progress, completed, lock, sink, bounds>>

\* ingest_bounded takes run.lock without waiting, or is refused.
MeasureLock(p) ==
    /\ pc[p] = "lock"
    /\ IF ~MustStop(p) /\ lock = None THEN lock' = p /\ Goto(p, "record")
       ELSE Goto(p, "join") /\ UNCHANGED lock
    /\ UNCHANGED <<setup, data, cursor, progress, completed, job, sink, bounds, harness>>

\* A failed sample is recorded and sampling goes on; a record that cannot be
\* written ends the thread and cancels ingestion.
SamplerFails ==
    /\ harness.sampler = "run"
    /\ faults < MaxFaults /\ faults' = faults + 1
    /\ harness' = [harness EXCEPT !.sampler = "error", !.cancelled = TRUE]
    /\ UNCHANGED <<setup, data, cursor, progress, completed, lock, local, sink, restores>>

SamplerEnds ==
    /\ harness.sampler = "run" /\ harness.done
    /\ harness' = [harness EXCEPT !.sampler = "ok"]
    /\ UNCHANGED <<setup, data, cursor, progress, completed, lock, local, sink, bounds>>

\* The threads and what they share are gone with their process.
Threadless(p) == IF job[p].op = "measure" THEN [NoHarness EXCEPT !.used = TRUE] ELSE harness

\* Mutant of Signal: the sampling thread is not told.
SignalNot == harness

\* done is set under its mutex, whatever ingestion returned.
Signal == [harness EXCEPT !.done = TRUE]

Join(p) ==
    /\ pc[p] = "join"
    /\ harness' = Signal
    /\ Goto(p, "joining")
    /\ UNCHANGED <<setup, data, cursor, progress, completed, lock, job, sink, bounds>>

\* Mutant of Joined: only the verdict of ingestion is looked at.
JoinedIngested == harness.ingested

\* The results of both threads are needed.
Joined == harness.sampler = "ok" /\ harness.ingested

Joining(p) ==
    /\ pc[p] = "joining" /\ harness.sampler # "run"
    /\ IF Joined THEN Goto(p, "report") /\ UNCHANGED <<job, lock, harness>>
       ELSE End(p) /\ harness' = Threadless(p)
    /\ UNCHANGED <<setup, data, cursor, progress, completed, sink, bounds>>

\* The backup is checked again, now without run.lock ...
Reportable(p) == Backed(progress) /\ progress = job[p].stop - 1

\* ... and result.json is written, or the measurement fails.
Report(p) ==
    /\ pc[p] = "report"
    /\ End(p) /\ harness' = Threadless(p)
    /\ UNCHANGED <<setup, data, cursor, progress, completed, sink, bounds>>

----------------------------------------------------------------------------
(* The native sink (external)                                               *)

\* A batch of blocks after the sink's position, up to its stop.
SinkRows(p) ==
    /\ Running(p) /\ sink[p].step = "rows"
    /\ \E n \in Blocks :
          /\ n > sink[p].at
          /\ sink[p].stop # None => n < sink[p].stop
          /\ rows' = rows \cup ((sink[p].at + 1)..n)
          /\ sink' = [sink EXCEPT ![p].upto = n, ![p].step = "markers"]
    /\ UNCHANGED <<setup, markers, cursor, progress, completed, lock, local, bounds, harness>>

SinkMarkers(p) ==
    /\ Running(p) /\ sink[p].step = "markers"
    /\ markers' = markers \cup ((sink[p].at + 1)..sink[p].upto)
    /\ sink' = [sink EXCEPT ![p].step = "truncate"]
    /\ UNCHANGED <<setup, rows, cursor, progress, completed, lock, local, bounds, harness>>

\* cursor.txt is rewritten in place: for a while it does not decode.
SinkTruncate(p) ==
    /\ Running(p) /\ sink[p].step = "truncate"
    /\ cursor' = Torn
    /\ sink' = [sink EXCEPT ![p].step = "cursor"]
    /\ UNCHANGED <<setup, data, progress, completed, lock, local, bounds, harness>>

SinkCursor(p) ==
    /\ Running(p) /\ sink[p].step = "cursor"
    /\ cursor' = sink[p].upto
    /\ sink' = [sink EXCEPT ![p].step = "rows", ![p].at = sink[p].upto, ![p].upto = None]
    /\ UNCHANGED <<setup, data, progress, completed, lock, local, bounds, harness>>

AtStop(p) == sink[p].stop # None /\ sink[p].at = sink[p].stop - 1

SinkExit(p) ==
    /\ Running(p) /\ sink[p].step = "rows"
    /\ AtStop(p)
    /\ sink' = [sink EXCEPT ![p].state = "ok"]
    /\ UNCHANGED <<setup, data, cursor, progress, completed, lock, local, bounds, harness>>

\* It fails anywhere, or the stream ends early and it reports success.
SinkFail(p) ==
    /\ Running(p)
    /\ faults < MaxFaults /\ faults' = faults + 1
    /\ \E state \in {"ok", "failed"} :
          /\ state = "ok" => sink[p].step = "rows"
          /\ sink' = [sink EXCEPT ![p].state = state]
    /\ UNCHANGED <<setup, data, cursor, progress, completed, lock, local, restores, harness>>

----------------------------------------------------------------------------
(* Failure                                                                  *)

\* A check fails: the command returns an error.  A running sink is stopped and
\* reaped before run.lock is released.
Refused(p) ==
    \/ pc[p] = "record" /\ phase = None /\ (litter \/ owner # "absent" \/ tables)
    \/ pc[p] = "freeze" /\ phase = "prepared" /\ ~frozen
    \/ pc[p] = "owner" /\ owner = "absent" /\ phase = "prepared"
    \/ pc[p] = "ownerCheck" /\ (owner # "row" \/ (phase = "prepared" /\ ~tables))
    \/ pc[p] = "recover" /\ ~Backed(progress)
    \/ pc[p] \in {"lock", "admit"} /\ MayStop(p)
    \/ pc[p] = "admit" /\ ~(IF rows # {} THEN Saveable ELSE cursor = None /\ progress = None)

Refuse(p) ==
    /\ Refused(p)
    /\ Return(p)
    /\ UNCHANGED <<setup, data, cursor, progress, completed, sink, bounds, harness>>

\* An error at any other statement or file write.
Fail(p) ==
    /\ pc[p] \notin {"idle", "watch", "stopping", "orphan", "join", "joining"}
    /\ faults < MaxFaults /\ faults' = faults + 1
    /\ IF pc[p] = "report" THEN End(p) /\ harness' = Threadless(p)
       ELSE Return(p) /\ UNCHANGED harness
    /\ UNCHANGED <<setup, data, cursor, progress, completed, sink, restores>>

\* Mutant of Kill: the sink does not inherit run.lock.
KillUnlocks(p) ==
    /\ pc[p] \notin {"idle", "orphan"}
    /\ faults < MaxFaults /\ faults' = faults + 1
    /\ lock' = None
    /\ Goto(p, IF Running(p) THEN "orphan" ELSE "idle")
    /\ job' = [job EXCEPT ![p] = NoJob]
    /\ harness' = Threadless(p)
    /\ UNCHANGED <<setup, data, cursor, progress, completed, sink, restores>>

\* SIGKILL: no guard runs.  The descriptor of run.lock stays open in a sink.
Kill(p) ==
    /\ pc[p] \notin {"idle", "orphan"}
    /\ faults < MaxFaults /\ faults' = faults + 1
    /\ IF Running(p)
       THEN Goto(p, "orphan") /\ UNCHANGED <<job, lock, sink>>
       ELSE End(p) /\ sink' = [sink EXCEPT ![p] = NoSink]
    /\ harness' = Threadless(p)
    /\ litter' \in IF pc[p] = "record" /\ phase = None THEN BOOLEAN ELSE {litter}
    /\ UNCHANGED <<phase, frozen, owner, tables, data, cursor, progress, completed, restores>>

\* An orphaned sink ends and the last descriptor of run.lock is closed.
OrphanEnds(p) ==
    /\ pc[p] = "orphan" /\ ~Running(p)
    /\ sink' = [sink EXCEPT ![p] = NoSink]
    /\ End(p)
    /\ UNCHANGED <<setup, data, cursor, progress, completed, bounds, harness>>

\* The operator restores an older copy of the database under the same uuid,
\* but not the state directory that went with it.
Restore ==
    /\ lock = None /\ tables
    /\ restores < MaxRestores /\ restores' = restores + 1
    /\ \E n \in (StartBlock - 1)..Head :
          /\ rows' = rows \cap (StartBlock..n)
          /\ markers' = markers \cap (StartBlock..n)
    /\ UNCHANGED <<setup, cursor, progress, completed, lock, local, sink, faults, harness>>

----------------------------------------------------------------------------

Command(p) == \/ \E op \in {"prepare", "recover"} : Start(p, op, None)
              \/ \E stop \in Stops : Start(p, "ingest", stop)
              \/ \E stop \in MeasureStops : StartMeasure(p, stop)

Prepare(p) == \/ Record(p) \/ Freeze(p) \/ CreateOwner(p) \/ InsertOwner(p)
              \/ CheckOwner(p) \/ NativeSetup(p) \/ MarkPrepared(p)

Work(p) == \/ Prepare(p) \/ RecoverCursor(p) \/ Admit(p) \/ Spawn(p)
           \/ StopBounded(p) \/ SinkStops(p) \/ Reap(p) \/ Complete(p) \/ Refuse(p)
           \/ OrphanEnds(p)

Measure(p) == MeasureLock(p) \/ Join(p) \/ Joining(p) \/ Report(p)

Sink(p) == SinkRows(p) \/ SinkMarkers(p) \/ SinkTruncate(p) \/ SinkCursor(p)

Next == \/ \E p \in Procs : \/ Command(p) \/ Work(p) \/ Observe(p) \/ StopSink(p)
                            \/ Sink(p) \/ SinkExit(p) \/ SinkFail(p)
                            \/ Measure(p) \/ Fail(p) \/ Kill(p)
        \/ SamplerFails \/ SamplerEnds \/ Restore

Spec == Init /\ [][Next]_vars

\* What the documentation tells an operator to do while no command runs:
\* recover a missing or torn cursor from its backup, otherwise ingest again.
Retry(p) == IF cursor \notin Blocks /\ progress # None
            THEN Start(p, "recover", None)
            ELSE \E stop \in Stops : Start(p, "ingest", stop)

\* The operator does so again and again, whatever else is tried; a running
\* command and a running sink keep running (the request and native-command
\* timeouts bound each step), and faults are finitely many by MaxFaults.  The
\* wrapper need not look at the cursor.
Fairness == \A p \in Procs : /\ SF_vars(Retry(p))
                             /\ WF_vars(Work(p) \/ Measure(p))
                             /\ WF_vars(StopBounded(p))
                             /\ WF_vars(Sink(p) \/ SinkExit(p))

LiveSpec == Spec /\ Fairness /\ WF_vars(SamplerEnds)

----------------------------------------------------------------------------
(* Properties                                                               *)

\* Every variable stays in its type.
TypeOK ==
    /\ phase \in {None, "preparing", "prepared"}
    /\ litter \in BOOLEAN /\ frozen \in BOOLEAN /\ tables \in BOOLEAN
    /\ owner \in {"absent", "empty", "row"}
    /\ rows \subseteq Blocks /\ markers \subseteq Blocks
    /\ cursor \in Blocks \cup {None, Torn}
    /\ progress \in Blocks \cup {None}
    /\ completed \in Blocks \cup {None}
    /\ lock \in Procs \cup {None}
    /\ pc \in [Procs -> Steps]
    /\ job \in [Procs -> [op : Commands \cup {None}, stop : Stops \cup {None},
                          position : Blocks \cup {None}]]
    /\ sink \in [Procs -> Sinks]
    /\ faults \in 0..MaxFaults /\ restores \in 0..MaxRestores
    /\ harness \in [used : BOOLEAN, sampler : {"none", "run", "ok", "error"},
                    done : BOOLEAN, cancelled : BOOLEAN, ingested : BOOLEAN]

\* At most one native sink writes to a source, also after its wrapper was
\* killed and other commands were tried: the sink keeps the inherited run.lock.
OneSink == \A p \in Procs : Running(p) => lock = p

\* Nothing is missing behind a running sink: it never continues from a cursor
\* whose blocks the database has lost, so no gap can be streamed over.
NoGap == \A p \in Procs : Running(p) =>
            (StartBlock..sink[p].at) \subseteq rows \cap markers

\* The checked backup never overtakes a readable cursor, whatever was killed,
\* recovered or restored; save_progress would refuse such a cursor for ever.
NoRegression == cursor \in Blocks /\ progress # None => progress <= cursor

\* Once the run has a checked backup, retrying the documented commands brings
\* it to its stop block, or to the head if it follows the head, through kills,
\* torn cursors and orphaned sinks.  A restored older database is refused.
Completes ==
    progress # None ~> \/ \E stop \in Stops \ {None} : progress # None /\ progress >= stop - 1
                       \/ \E p \in Procs : Running(p) /\ sink[p].stop = None /\ sink[p].at = Head
                       \/ restores > 0

\* A throughput result stands for a whole run although the threads fail apart
\* and run.lock is free before the result is written: both threads succeeded
\* and every block of the workload is stored.
ResultWhole ==
    \A p \in Procs : pc[p] = "report" /\ Reportable(p) =>
        /\ harness.sampler = "ok" /\ harness.ingested
        /\ StartBlock..(job[p].stop - 1) \subseteq rows \cap markers

\* A measurement ends whichever of its threads fails first: neither waits for
\* the other for ever.
MeasureEnds == \A p \in Procs : (job[p].op = "measure") ~> (pc[p] = "idle")

\* An interrupted preparation can be repeated until the run is prepared.
PreparationResumes == phase = "preparing" ~> phase = "prepared"
============================================================================
