--------------------------- MODULE ControlBinding ---------------------------
(***************************************************************************)
(* Which controller directory coordinates a checkpoint database: its first *)
(* binding and every later Control::open (control.rs), the host identity   *)
(* behind it (host.rs) and the recovery of hostname-bound records          *)
(* (host_recovery.rs).                                                     *)
(*                                                                         *)
(* All locks of CheckpointStore are files of one controller directory, so  *)
(* they exclude nothing unless every process uses the same one.  A place   *)
(* is a directory name on a machine; a record is [id, directory, host],    *)
(* where host is a machine identity or, in a legacy record, a host name.   *)
(* Metadata may be copied or lost, ownership may be lost with the          *)
(* database, and a statement may be applied after its client is gone.      *)
(***************************************************************************)
EXTENDS Integers, Sequences, FiniteSets

CONSTANTS
    Procs,          \* evm-state commands
    Machines, Directories,
    Places,         \* where a controller directory may be, all reaching the database
    Names,          \* host names
    Original,       \* the place where a legacy controller was bound
    Source,         \* directory of the native run, on the same machine
    Scenarios,      \* where the system starts and what may happen to it:
                    \*   legacy: the database is bound, by host name
                    \*   names: the host name of each machine
                    \*   places: those that commands and copies use
                    \*   faults: bound on kills, errors and timeouts
                    \*   copies: bound on copies of a controller directory
                    \*   losses: bound on lost directories and ownership tables
    None

\* A binding: control id, directory, and machine identity or legacy host name.
Records == [id : Nat, directory : Directories \cup {Source}, host : Machines \cup Names]

ASSUME BindingAssumption ==
    /\ Places \subseteq [machine : Machines, directory : Directories]
    /\ Original \in Places /\ Source \notin Directories
    /\ IsFiniteSet(Names) /\ Cardinality(Names) > Cardinality(Machines)
    /\ Machines \cap Names = {}
    /\ \A s \in Scenarios :
          /\ s.legacy \in BOOLEAN /\ s.names \in [Machines -> Names]
          /\ \A m, n \in Machines : s.names[m] = s.names[n] => m = n
          /\ Original \in s.places /\ s.places \subseteq Places
          /\ {s.faults, s.copies, s.losses} \subseteq Nat
    /\ None \notin Machines \cup Directories \cup Names \cup Procs
    /\ None \notin Records /\ None \notin Seq(Records)

VARIABLES
    scenario,       \* one of Scenarios
    name,           \* host name of each machine
    binding,        \* binding.json of each place
    initialized,    \* its initialization marker: a control id
    sidecar,        \* its host-rebinding.json
    table,          \* _evm_checkpoint_control: its rows, or None
    run,            \* identity of the native run
    runSidecar,     \* host-rebinding.json of the native run
    initLock,       \* holder of initialize.lock at each place
    sourceLock,     \* holder of the native run's locks
    pc, at,         \* each process's step and place
    record, exists, \* what it read of binding.json and of system.tables
    late,           \* statements whose client is gone
    opened,         \* places opened since the ownership table was last lost
    stopped,        \* the operator has stopped the machine's writers and readers
    ids, faults, copies, losses

files == <<binding, initialized, sidecar>>
locks == <<initLock, sourceLock>>
local == <<pc, at, record, exists>>
bounds == <<scenario, stopped, faults, copies, losses>>
vars == <<scenario, name, binding, initialized, sidecar, table, run, runSidecar, initLock, sourceLock,
          pc, at, record, exists, late, opened, stopped, ids, faults,
          copies, losses>>

RebindSteps == {"validate", "runSidecar", "sidecar"}

Init ==
    /\ scenario \in Scenarios /\ name = scenario.names
    /\ LET Legacy == scenario.legacy
           host == IF Legacy THEN name[Original.machine] ELSE Original.machine
           old == [id |-> 0, directory |-> Original.directory, host |-> host]
           placed(value) == [q \in Places |-> IF Legacy /\ q = Original THEN value ELSE None]
       IN  /\ binding = placed(old) /\ initialized = placed(0)
           /\ table = IF Legacy THEN <<old>> ELSE None
           /\ run = [id |-> 0, directory |-> Source, host |-> host]
    /\ sidecar = [q \in Places |-> None] /\ runSidecar = None
    /\ initLock = [q \in Places |-> None] /\ sourceLock = None
    /\ pc = [p \in Procs |-> "idle"] /\ at = [p \in Procs |-> Original]
    /\ record = [p \in Procs |-> None] /\ exists = [p \in Procs |-> FALSE]
    /\ late = {} /\ opened = {} /\ stopped = FALSE
    /\ ids = 1 /\ faults = 0 /\ copies = 0 /\ losses = 0

Goto(p, step) == pc' = [pc EXCEPT ![p] = step]

\* The process ends: what it remembers is gone and its locks are released.
End(p) ==
    /\ Goto(p, "idle")
    /\ at' = [at EXCEPT ![p] = Original] /\ record' = [record EXCEPT ![p] = None]
    /\ exists' = [exists EXCEPT ![p] = FALSE]
    /\ initLock' = [q \in Places |-> IF initLock[q] = p THEN None ELSE initLock[q]]
    /\ sourceLock' = IF sourceLock = p THEN None ELSE sourceLock

----------------------------------------------------------------------------
(* Host identity: host.rs                                                   *)

\* recovery_record_for
RecoveryRecord(rec, directory, machine) ==
    [record |-> rec, directory |-> directory, machine |-> machine]

\* Mutant of HostMatches: a record of any machine and any sidecar will do.
HostMatchesLoosely(rec, rebound, directory, machine) ==
    rec.host \in Machines \/ rec.host = name[machine] \/ rebound # None

\* matches_for: a recovery sidecar takes the place of the host name.
HostMatches(rec, rebound, directory, machine) ==
    IF rec.host \in Machines THEN rec.host = machine
    ELSE IF rebound # None THEN rebound = RecoveryRecord(rec, directory, machine)
    ELSE rec.host = name[machine]

----------------------------------------------------------------------------
(* Control::open                                                            *)

StartOpen(p, place) ==
    /\ pc[p] = "idle" /\ ~stopped
    /\ Goto(p, "lock") /\ at' = [at EXCEPT ![p] = place]
    /\ UNCHANGED <<name, files, table, run, runSidecar, locks, record, exists, late, opened, ids,
                   bounds>>

TakeInitLock(p) ==
    /\ pc[p] = "lock" /\ initLock[at[p]] = None
    /\ initLock' = [initLock EXCEPT ![at[p]] = p]
    /\ Goto(p, "exists")
    /\ UNCHANGED <<name, files, table, run, runSidecar, sourceLock, at, record, exists, late,
                   opened, ids, bounds>>

SeeTable(p) ==
    /\ pc[p] = "exists"
    /\ exists' = [exists EXCEPT ![p] = table # None]
    /\ Goto(p, "bind")
    /\ UNCHANGED <<name, files, table, run, runSidecar, locks, at, record, late, opened, ids,
                   bounds>>

\* binding.json as it is, or the new one of a database without an owner.
Binding(p) ==
    IF binding[at[p]] # None THEN binding[at[p]]
    ELSE [id |-> ids, directory |-> at[p].directory, host |-> at[p].machine]

\* Mutant of MayBind: a binding without its table is not resumed.
MayBindFresh(p) ==
    /\ (binding[at[p]] = None) = ~exists[p]
    /\ Binding(p).directory = at[p].directory
    /\ HostMatches(Binding(p), sidecar[at[p]], at[p].directory, at[p].machine)

\* A binding is written only when the database has no owner, used only where
\* it was made, and starts an ownership only once.
MayBind(p) ==
    /\ binding[at[p]] # None \/ ~exists[p]
    /\ Binding(p).directory = at[p].directory
    /\ HostMatches(Binding(p), sidecar[at[p]], at[p].directory, at[p].machine)
    /\ exists[p] \/ initialized[at[p]] = None

Bind(p) ==
    /\ pc[p] = "bind" /\ MayBind(p)
    /\ binding' = [binding EXCEPT ![at[p]] = Binding(p)]
    /\ ids' = IF binding[at[p]] = None THEN ids + 1 ELSE ids
    /\ record' = [record EXCEPT ![p] = Binding(p)]
    /\ Goto(p, IF exists[p] THEN "owner" ELSE "create")
    /\ UNCHANGED <<name, initialized, sidecar, table, run, runSidecar, locks, at, exists, late,
                   opened, bounds>>

\* CREATE TABLE fails when another controller was faster.
CreateTable(p) ==
    /\ pc[p] = "create" /\ table = None
    /\ table' = <<>>
    /\ Goto(p, "insert")
    /\ UNCHANGED <<name, files, run, runSidecar, locks, at, record, exists, late, opened, ids,
                   bounds>>

InsertOwner(p) ==
    /\ pc[p] = "insert" /\ table # None
    /\ table' = Append(table, record[p])
    /\ Goto(p, "owner")
    /\ UNCHANGED <<name, files, run, runSidecar, locks, at, record, exists, late, opened, ids,
                   bounds>>

CheckOwner(p) ==
    /\ pc[p] = "owner" /\ table = <<record[p]>>
    /\ Goto(p, "mark")
    /\ UNCHANGED <<name, files, table, run, runSidecar, locks, at, record, exists, late, opened,
                   ids, bounds>>

MarkerOf(rec) == rec.id

\* The marker is written or compared; the lock is released and the
\* controller returned.
MarkInitialized(p) ==
    /\ pc[p] = "mark" /\ initialized[at[p]] \in {None, MarkerOf(record[p])}
    /\ initialized' = [initialized EXCEPT ![at[p]] = MarkerOf(record[p])]
    /\ opened' = opened \cup {at[p]}
    /\ initLock' = [initLock EXCEPT ![at[p]] = None]
    /\ Goto(p, "opened")
    /\ UNCHANGED <<name, binding, sidecar, table, run, runSidecar, sourceLock, at, record,
                   exists, late, ids, bounds>>

Rebinding(place) == \E p \in Procs : pc[p] \in RebindSteps /\ at[p] = place

\* The caller takes the controller's locks, works and returns.
Use(p) ==
    /\ pc[p] = "opened" /\ ~Rebinding(at[p])
    /\ Goto(p, "using")
    /\ UNCHANGED <<name, files, table, run, runSidecar, locks, at, record, exists, late, opened,
                   ids, bounds>>

Finish(p) ==
    /\ pc[p] \in {"using", "ingesting"}
    /\ End(p)
    /\ UNCHANGED <<name, files, table, run, runSidecar, late, opened, ids, bounds>>

----------------------------------------------------------------------------
(* The native run and host recovery                                         *)

\* Any command on the native run's directory.
Ingest(p) ==
    /\ pc[p] = "idle" /\ ~stopped /\ sourceLock = None
    /\ HostMatches(run, runSidecar, Source, Original.machine)
    /\ sourceLock' = p
    /\ Goto(p, "ingesting")
    /\ UNCHANGED <<name, files, table, run, runSidecar, initLock, at, record, exists, late,
                   opened, ids, bounds>>

\* Mutant of Quiescent: readers and publishers are not excluded.
QuiescentSource == sourceLock = None /\ initLock[Original] = None

\* All six locks can be had; each is tried without waiting.
Quiescent ==
    /\ sourceLock = None /\ initLock[Original] = None
    /\ \A q \in Procs : pc[q] = "using" => at[q] # Original

\* rebind, on the original machine, of legacy records only.
StartRebind(p) ==
    /\ pc[p] = "idle" /\ run.host \notin Machines /\ Quiescent
    /\ sourceLock' = p /\ initLock' = [initLock EXCEPT ![Original] = p]
    /\ at' = [at EXCEPT ![p] = Original] /\ Goto(p, "validate")
    /\ UNCHANGED <<name, files, table, run, runSidecar, record, exists, late, opened, ids, bounds>>

RunRecovery == RecoveryRecord(run, Source, Original.machine)
BindingRecovery == RecoveryRecord(binding[Original], Original.directory, Original.machine)

\* Mutant of MayRebind: what an interrupted attempt left stops the next one.
MayRebindOnce ==
    /\ binding[Original] # None /\ binding[Original].host = run.host
    /\ table = <<binding[Original]>> /\ initialized[Original] = binding[Original].id
    /\ runSidecar = None /\ sidecar[Original] = None

\* Both sides are checked before either sidecar is written.
MayRebind ==
    /\ binding[Original] # None /\ binding[Original].host = run.host
    /\ binding[Original].directory = Original.directory
    /\ table = <<binding[Original]>> /\ initialized[Original] = binding[Original].id
    /\ runSidecar \in {None, RunRecovery} /\ sidecar[Original] \in {None, BindingRecovery}

ValidateRebind(p) ==
    /\ pc[p] = "validate" /\ MayRebind
    /\ Goto(p, "runSidecar")
    /\ UNCHANGED <<name, files, table, run, runSidecar, locks, at, record, exists, late, opened,
                   ids, bounds>>

WriteRunSidecar(p) ==
    /\ pc[p] = "runSidecar"
    /\ runSidecar' = RunRecovery
    /\ Goto(p, "sidecar")
    /\ UNCHANGED <<name, files, table, run, locks, at, record, exists, late, opened, ids, bounds>>

WriteSidecar(p) ==
    /\ pc[p] = "sidecar"
    /\ sidecar' = [sidecar EXCEPT ![Original] = BindingRecovery]
    /\ End(p)
    /\ UNCHANGED <<name, binding, initialized, table, run, runSidecar, late, opened, ids, bounds>>

----------------------------------------------------------------------------
(* Errors, kills and what operators do                                      *)

\* A check of the step the process has reached fails.
Refused(p) ==
    \/ pc[p] = "bind" /\ ~MayBind(p)
    \/ pc[p] = "create" /\ table # None
    \/ pc[p] = "insert" /\ table = None
    \/ pc[p] = "owner" /\ table # <<record[p]>>
    \/ pc[p] = "mark" /\ initialized[at[p]] \notin {None, MarkerOf(record[p])}
    \/ pc[p] = "validate" /\ ~MayRebind

Refuse(p) ==
    /\ Refused(p) /\ End(p)
    /\ UNCHANGED <<name, files, table, run, runSidecar, late, opened, ids, bounds>>

\* Killed or timed out; a statement in flight may be applied later.
Fail(p) ==
    /\ pc[p] # "idle" /\ faults < scenario.faults
    /\ faults' = faults + 1
    /\ \/ late' = late
       \/ /\ pc[p] \in {"create", "insert"}
          /\ late' = late \cup {[op |-> pc[p], row |-> record[p]]}
    /\ End(p)
    /\ UNCHANGED <<name, files, table, run, runSidecar, opened, scenario, stopped, ids, copies, losses>>

ApplyLate(s) ==
    /\ s \in late
    /\ table' = IF s.op = "create" THEN (IF table = None THEN <<>> ELSE table)
                ELSE IF table # None THEN Append(table, s.row) ELSE table
    /\ late' = late \ {s}
    /\ UNCHANGED <<name, files, run, runSidecar, locks, local, opened, ids, bounds>>

\* A controller directory is copied to, or restored at, a place without one.
Copy(from, to) ==
    /\ copies < scenario.copies /\ binding[from] # None /\ binding[to] = None
    /\ binding' = [binding EXCEPT ![to] = binding[from]]
    /\ initialized' = [initialized EXCEPT ![to] = initialized[from]]
    /\ sidecar' = [sidecar EXCEPT ![to] = sidecar[from]]
    /\ copies' = copies + 1
    /\ UNCHANGED <<name, table, run, runSidecar, locks, local, late, opened, scenario, stopped, ids, faults,
                   losses>>

\* A controller directory is lost.
LosePlace(place) ==
    /\ losses < scenario.losses /\ binding[place] # None
    /\ \A p \in Procs : pc[p] # "idle" => at[p] # place
    /\ binding' = [binding EXCEPT ![place] = None]
    /\ initialized' = [initialized EXCEPT ![place] = None]
    /\ sidecar' = [sidecar EXCEPT ![place] = None]
    /\ losses' = losses + 1
    /\ UNCHANGED <<name, table, run, runSidecar, locks, local, late, opened, scenario, stopped, ids, faults,
                   copies>>

\* The database is restored without its ownership table, with nothing running.
LoseTable ==
    /\ losses < scenario.losses /\ table # None /\ \A p \in Procs : pc[p] = "idle"
    /\ table' = None /\ opened' = {} /\ losses' = losses + 1
    /\ UNCHANGED <<name, files, run, runSidecar, locks, local, late, scenario, stopped, ids, faults,
                   copies>>

Rename(m, new) ==
    /\ scenario.legacy /\ \A n \in Machines : name[n] # new
    /\ new # run.host
    /\ name' = [name EXCEPT ![m] = new]
    /\ UNCHANGED <<files, table, run, runSidecar, locks, local, late, opened, ids, bounds>>

\* Before recovery the operator stops whatever still runs on the pair.
StopWriters ==
    /\ scenario.legacy /\ name[Original.machine] # run.host
    /\ stopped' = TRUE
    /\ UNCHANGED <<name, files, table, run, runSidecar, locks, local, late, opened, ids, scenario,
                   faults, copies, losses>>

Opening(p) == TakeInitLock(p) \/ SeeTable(p) \/ Bind(p) \/ CreateTable(p) \/ InsertOwner(p)
              \/ CheckOwner(p) \/ MarkInitialized(p) \/ Use(p) \/ Finish(p)
Recovering(p) == ValidateRebind(p) \/ WriteRunSidecar(p) \/ WriteSidecar(p)

Next == \/ \E p \in Procs, q \in scenario.places : StartOpen(p, q)
        \/ \E p \in Procs : \/ Opening(p) \/ Recovering(p) \/ Refuse(p) \/ Fail(p)
                            \/ Ingest(p) \/ StartRebind(p)
        \/ \E s \in late : ApplyLate(s)
        \/ \E f, t \in scenario.places : Copy(f, t)
        \/ \E q \in scenario.places : LosePlace(q)
        \/ LoseTable \/ StopWriters
        \/ \E m \in Machines, n \in Names : Rename(m, n)

Spec == Init /\ [][Next]_vars

\* A process runs until it returns.  The operator tries again what failed, and
\* stops the pair before its recovery.
Fairness ==
    /\ \A p \in Procs : WF_vars(Opening(p) \/ Recovering(p) \/ Refuse(p))
    /\ \A q \in Places : SF_vars(q \in scenario.places /\ \E p \in Procs : StartOpen(p, q))
    /\ WF_vars(StopWriters) /\ WF_vars(\E p \in Procs : StartRebind(p))

FairSpec == Spec /\ Fairness

----------------------------------------------------------------------------
(* Properties                                                               *)

\* While a database keeps its ownership table, at most one controller
\* directory is ever opened for it: no copy, no other EVM_STATE_HOME, no lost
\* directory and no race of two first users establishes a second one.
OneController == \A q1, q2 \in opened : q1 = q2

\* Host recovery changes a directory only while nobody works in it.
Quiet ==
    [][/\ runSidecar' # runSidecar => \A p \in Procs : pc[p] # "ingesting"
       /\ sidecar'[Original] # sidecar[Original] /\ sidecar'[Original] # None =>
             \A p \in Procs : pc[p] = "using" => at[p] # Original]_vars

\* An interrupted first binding is finished by a later open, whatever was
\* killed or delayed, unless a directory or the ownership is lost, and except
\* where the ownership table stays empty: the row is inserted only by the
\* process that created the table.
Opens ==
    []((\E q \in Places : binding[q] # None /\ initialized[q] = None) =>
            <>(opened # {} \/ losses > 0 \/ [](table = <<>>)))

\* On the original machine a renamed legacy pair is recovered, however often
\* the attempt is interrupted between its two sidecars.
Recovers ==
    (run.host \in Names /\ name[Original.machine] # run.host)
        ~> (runSidecar = RunRecovery /\ sidecar[Original] = BindingRecovery)
============================================================================
