----------------------------- MODULE CapacityRun -----------------------------
(***************************************************************************)
(* A command under the capacity monitor: capacity.rs with the owned process*)
(* group of process.rs.                                                    *)
(*                                                                         *)
(* The monitor samples the disk before it launches the command and while   *)
(* it runs; the command samples it again at its own stages (guard) and     *)
(* leaves each result as an event file.  A sample is not atomic: the       *)
(* server's directories, the local directories and the free space are read *)
(* one after the other while the command, its children and the database go *)
(* on writing.  The command is a group leader and the children it forked.  *)
(*                                                                         *)
(* With data_scan_mode host_bind (capacity_host.rs) the server's data is   *)
(* walked through the host path of its bind mount, which may be replaced   *)
(* under the walk, and put back: probe files are read through the container *)
(* before and after it.                                                    *)
(***************************************************************************)
EXTENDS Integers, FiniteSets

CONSTANTS
    Budget, Headroom, MinFree,  \* thresholds of the policy
    Attempts,       \* traversals of a directory that keeps changing (5 in the code)
    Disk,           \* bound: bytes of the one filesystem
    MaxChildren,    \* bound: children of the command
    MaxEvents,      \* bound: guard samples of the command
    Modes,          \* data_scan_mode: "container", "host_bind"
    Directories,    \* bound: directories that may be at the host path or mounted
    None

ASSUME CapacityAssumption ==
    /\ {Budget, Headroom, MinFree, Attempts, Disk, MaxChildren, MaxEvents} \subseteq Nat
    /\ 0 < Headroom /\ Headroom < Budget /\ Attempts > 0
    /\ 0 \in Directories /\ Directories \subseteq Nat
    /\ Modes \subseteq {"container", "host_bind"}
    /\ None \notin Nat \cup {"exit0", "exit1", "killed"}

VARIABLES
    server, local,  \* allocated bytes of the data disks and of the local roots
    mode,           \* how the data disks are walked
    place,          \* directory at the host path, and directory that the container has mounted
    leader,         \* the command: "none", "run", or how it ended
    children,       \* its children that run
    op,             \* "work", "guard", or "failed" after a rejected guard
    events,         \* guard samples it left as files
    sample,         \* the monitor's and the guard's sample in progress
    step,           \* the monitor's step
    result,         \* exit status the monitor knows
    reasons,        \* its stop reasons
    peak,           \* the largest sample it knows
    interrupted,    \* it received SIGINT or SIGTERM
    unconfirmed,    \* termination_error
    summary,        \* summary.json
    rejected,       \* history: some sample on record was incomplete or over a threshold
    highest         \* history: largest complete sample on record

disk == <<server, local, mode, place>>
command == <<leader, children, op, events>>
monitor == <<step, result, reasons, peak, interrupted, unconfirmed, summary>>
history == <<rejected, highest>>
vars == <<server, local, mode, place, leader, children, op, events, sample, step, result, reasons, peak,
          interrupted, unconfirmed, summary, rejected, highest>>

Samplers == {"monitor", "guard"}
NoSample == [stage |-> "none", server |-> 0, tries |-> 0, outcome |-> None,
             probe |-> None,
             \* history: the bytes are the container's, and a directory that was replaced
             \* under the walk was put back
             own |-> TRUE, returned |-> FALSE]
Start == [NoSample EXCEPT !.stage = "server"]
Codes == {"exit0", "exit1", "killed"}
Limits == {"budget", "free"}

Init ==
    /\ server = 0 /\ local = 0
    /\ mode \in Modes /\ place = [path |-> 0, mount |-> 0]
    /\ leader = "none" /\ children = 0 /\ op = "work" /\ events = {}
    /\ sample = [s \in Samplers |-> IF s = "monitor" THEN Start ELSE NoSample]
    /\ step = "first" /\ result = None /\ reasons = {} /\ peak = 0
    /\ interrupted = FALSE /\ unconfirmed = FALSE /\ summary = None
    /\ rejected = FALSE /\ highest = 0

Larger(a, b) == IF a >= b THEN a ELSE b

----------------------------------------------------------------------------
(* Meter::sample                                                            *)

Incomplete == [used |-> None, reasons |-> {"incomplete"}]

\* admission_reasons
AdmissionReasons(used, available) ==
    {r \in Limits : \/ r = "budget" /\ used + Headroom >= Budget
                    \/ r = "free" /\ available < MinFree}

Scan(s, stage) == sample[s].stage = stage
Put(s, value) == sample' = [sample EXCEPT ![s] = value]

\* One complete traversal of the server's data directories, in the container.
ScanServer(s) ==
    /\ Scan(s, "server") /\ mode = "container"
    /\ Put(s, [sample[s] EXCEPT !.stage = "local", !.server = server, !.tries = 0])
    /\ UNCHANGED <<disk, command, monitor, history>>

\* The server's bytes cannot be told.
NotMeasured(s) == Put(s, [NoSample EXCEPT !.stage = "end", !.outcome = Incomplete])

\* Probe::verify: the host path is still the directory of the probe, and the
\* container reads the probe in its mount.
ProbeSeen(where, probe) == where.path = probe /\ where.mount = probe

\* bindings, Probe::create and the verification before the walk.
Probe(s) ==
    /\ Scan(s, "server") /\ mode = "host_bind"
    /\ IF ProbeSeen(place, place.path)
       THEN Put(s, [sample[s] EXCEPT !.stage = "walk", !.probe = place.path])
       ELSE NotMeasured(s)
    /\ UNCHANGED <<disk, command, monitor, history>>

\* data_usage walks whatever is at the host path; another directory is empty.
Walk(s) ==
    /\ Scan(s, "walk")
    /\ LET own == place.path = place.mount
       IN  Put(s, [sample[s] EXCEPT !.stage = "verify", !.tries = 0, !.own = own,
                                    !.server = IF own THEN server ELSE 0])
    /\ UNCHANGED <<disk, command, monitor, history>>

\* Mutant of ProbedAfter: the probes are not read again after the walk.
ProbedAfterWalk(s) == TRUE

ProbedAfter(s) == ProbeSeen(place, sample[s].probe)

\* The verification after the walk; the probes are removed.
Verify(s) ==
    /\ Scan(s, "verify")
    /\ IF ProbedAfter(s)
       THEN Put(s, [sample[s] EXCEPT !.stage = "local", !.probe = None])
       ELSE NotMeasured(s)
    /\ UNCHANGED <<disk, command, monitor, history>>

\* The local directories, then the free space and the decision.
ScanLocal(s) ==
    /\ Scan(s, "local")
    /\ LET used == sample[s].server + local
           outcome == [used |-> used,
                       reasons |-> AdmissionReasons(used, Disk - server - local)]
       IN  Put(s, [NoSample EXCEPT !.stage = "end", !.outcome = outcome, !.own = sample[s].own,
                                   !.returned = sample[s].returned])
    /\ UNCHANGED <<disk, command, monitor, history>>

\* A directory changed under the traversal, which starts again from nothing.
Rescan(s) ==
    /\ (Scan(s, "server") /\ mode = "container") \/ Scan(s, "walk") \/ Scan(s, "local")
    /\ sample[s].tries + 1 < Attempts
    /\ Put(s, [sample[s] EXCEPT !.tries = @ + 1])
    /\ UNCHANGED <<disk, command, monitor, history>>

\* Retries are exhausted, or any other measurement fails.
ScanFails(s) ==
    /\ sample[s].stage \in {"server", "walk", "verify", "local"}
    /\ NotMeasured(s)
    /\ UNCHANGED <<disk, command, monitor, history>>

----------------------------------------------------------------------------
(* The command                                                              *)

Alive == leader = "run" \/ children > 0

\* Any process of the group writes or removes files.
Allocate(d, n) ==
    /\ Alive /\ op # "guard"
    /\ d + server \in Nat /\ n + local \in Nat /\ d + server + n + local <= Disk
    /\ server' = server + d /\ local' = local + n
    /\ UNCHANGED <<mode, place, command, sample, monitor, history>>

\* Merges and dropped parts change the database at any time.
Merge(d) ==
    /\ server + d \in Nat /\ server + d + local <= Disk
    /\ server' = server + d
    /\ UNCHANGED <<local, mode, place, command, sample, monitor, history>>

\* Another directory, new or an earlier one, is put at the host path or mounted.
Move(p, d) ==
    /\ mode = "host_bind" /\ d # place[p]
    /\ place' = [place EXCEPT ![p] = d]
    /\ sample' = [s \in Samplers |->
                     [sample[s] EXCEPT !.returned = @ \/ (sample[s].probe # None
                                                          /\ ProbeSeen(place', sample[s].probe))]]
    /\ UNCHANGED <<server, local, mode, command, monitor, history>>

Fork ==
    /\ leader = "run" /\ children < MaxChildren
    /\ children' = children + 1
    /\ UNCHANGED <<disk, leader, op, events, sample, monitor, history>>

ChildExits ==
    /\ children > 0
    /\ children' = children - 1
    /\ UNCHANGED <<disk, leader, op, events, sample, monitor, history>>

StartGuard ==
    /\ leader = "run" /\ op = "work" /\ Cardinality(events) < MaxEvents
    /\ op' = "guard" /\ Put("guard", Start)
    /\ UNCHANGED <<disk, leader, children, events, monitor, history>>

\* What the history keeps of a sample that was put on record.
Remember(outcome) ==
    /\ rejected' = (rejected \/ outcome.reasons # {})
    /\ highest' = IF outcome.used = None THEN highest ELSE Larger(highest, outcome.used)

\* Mutant of RecordEvent: a failed sample leaves no event.
RecordEventComplete(outcome) ==
    IF outcome.used = None THEN events ELSE events \cup {outcome}

RecordEvent(outcome) == events \cup {outcome}

\* guard: the event is written first, then the stage fails or goes on.
EndGuard ==
    /\ op = "guard" /\ Scan("guard", "end")
    /\ LET outcome == sample["guard"].outcome
       IN  /\ events' = RecordEvent(outcome)
           /\ op' = IF outcome.reasons = {} THEN "work" ELSE "failed"
           /\ Remember(outcome)
    /\ Put("guard", NoSample)
    /\ UNCHANGED <<disk, leader, children, monitor>>

\* The event cannot be written: the stage fails whatever the sample said.
GuardUnwritten ==
    /\ op = "guard" /\ Scan("guard", "end")
    /\ op' = "failed"
    /\ Put("guard", NoSample)
    /\ UNCHANGED <<disk, leader, children, events, monitor, history>>

\* A wrapper around the command may go on after the failed stage.
Ignore ==
    /\ leader = "run" /\ op = "failed"
    /\ op' = "work"
    /\ UNCHANGED <<disk, leader, children, events, sample, monitor, history>>

\* The leader exits, or is killed: by SIGKILL after terminate gave up, or by others.
Exits(code) ==
    /\ leader = "run"
    /\ code = "exit0" => op = "work"
    /\ leader' = code /\ op' = "work"
    /\ Put("guard", NoSample)
    /\ UNCHANGED <<disk, children, events, monitor, history>>

----------------------------------------------------------------------------
(* supervise                                                                *)

\* Stats::record
Record(outcome) ==
    /\ peak' = IF outcome.used = None THEN peak ELSE Larger(peak, outcome.used)
    /\ Remember(outcome)

\* The first sample decides whether the command is launched at all.
FirstSample ==
    /\ step = "first" /\ Scan("monitor", "end")
    /\ LET outcome == sample["monitor"].outcome
       IN  /\ Record(outcome)
           /\ reasons' = outcome.reasons
           /\ step' = IF outcome.reasons = {} THEN "launch" ELSE "read"
    /\ Put("monitor", NoSample)
    /\ UNCHANGED <<disk, command, result, interrupted, unconfirmed, summary>>

Launch ==
    /\ step = "launch"
    /\ leader' = "run" /\ step' = "wait"
    /\ UNCHANGED <<disk, children, op, events, sample, result, reasons, peak, interrupted,
                   unconfirmed, summary, history>>

\* The command exited or the interval passed; another sample either way.
Wait ==
    /\ step = "wait"
    /\ result' = IF leader \in Codes THEN leader ELSE None
    /\ step' = "sample" /\ Put("monitor", Start)
    /\ UNCHANGED <<disk, command, reasons, peak, interrupted, unconfirmed, summary, history>>

\* Leave the loop on an exit status or a reason to stop.
Decide ==
    /\ step = "sample" /\ Scan("monitor", "end")
    /\ LET outcome == sample["monitor"].outcome
           why == reasons \cup outcome.reasons
                  \cup (IF interrupted THEN {"interrupted"} ELSE {})
       IN  /\ Record(outcome)
           /\ reasons' = why
           /\ step' = IF why # {} THEN "term" ELSE IF result # None THEN "read" ELSE "wait"
    /\ Put("monitor", NoSample)
    /\ UNCHANGED <<disk, command, result, interrupted, unconfirmed, summary>>

\* The sample log cannot be written, or the launch fails.
MonitorError ==
    /\ step \in {"first", "launch", "wait", "sample"}
    /\ reasons' = reasons \cup {"error"}
    /\ step' = IF step \in {"first", "launch"} THEN "read" ELSE "term"
    /\ Put("monitor", NoSample)
    /\ UNCHANGED <<disk, command, result, peak, interrupted, unconfirmed, summary, history>>

\* Mutant of Terminate: the wait for the leader has no limit.
TerminatePatiently ==
    /\ step = "term" /\ leader # "run"
    /\ children' \in 0..children
    /\ step' = "kill"
    /\ UNCHANGED <<disk, leader, op, events, sample, result, reasons, peak, interrupted,
                   unconfirmed, summary, history>>

\* terminate: SIGTERM, which the processes may handle as they like, and up to
\* 15 seconds for the leader.
Terminate ==
    /\ step = "term"
    /\ leader' \in IF leader = "run" THEN {"run", "exit0", "exit1", "killed"} ELSE {leader}
    /\ children' \in 0..children
    /\ sample' = IF leader' = leader THEN sample ELSE [sample EXCEPT !["guard"] = NoSample]
    /\ op' = IF leader' = leader THEN op ELSE "work"
    /\ step' = "kill"
    /\ UNCHANGED <<disk, events, result, reasons, peak, interrupted, unconfirmed, summary,
                   history>>

\* Mutant of Survivors: SIGKILL is only for a leader that is still there.
SurvivorsOfLeader == IF leader = "run" THEN 0 ELSE children

\* SIGKILL reaches every process of the group.
Survivors == 0

\* A signal could not be sent, or the leader is still there 10 seconds after
\* SIGKILL: terminate fails, and for a leader that is not reaped the group
\* stays armed.
Kill ==
    /\ step = "kill"
    /\ \/ /\ children' = Survivors
          /\ leader' = IF leader = "run" THEN "killed" ELSE leader
          /\ result' = leader' /\ step' = "read"
          /\ UNCHANGED unconfirmed
       \/ /\ unconfirmed' = TRUE
          /\ children' \in 0..children
          /\ leader' \in IF leader = "run" THEN {"run", "killed"} ELSE {leader}
          /\ step' = IF leader' = "run" THEN "drop" ELSE "read"
          /\ UNCHANGED result
    /\ sample' = IF leader' = "run" THEN sample ELSE [sample EXCEPT !["guard"] = NoSample]
    /\ op' = IF leader' = "run" THEN op ELSE "work"
    /\ UNCHANGED <<disk, events, reasons, peak, interrupted, summary, history>>

\* OwnedGroup::drop: SIGKILL again, and a wait for the leader without a limit.
Drop ==
    /\ step = "drop" /\ leader # "run"
    /\ step' = "read"
    /\ UNCHANGED <<disk, command, sample, result, reasons, peak, interrupted, unconfirmed, summary,
                   history>>

\* Mutant of GuardPeak: only the periodic samples count.
GuardPeakPeriodic == peak

GuardPeak ==
    LET used == {e.used : e \in {x \in events : x.used # None}} \cup {peak}
    IN  CHOOSE n \in used : \A m \in used : m <= n

\* The guard events are read and the summary is written.
Summarize ==
    /\ step = "read"
    /\ LET why == reasons \cup UNION {e.reasons : e \in events}
       IN  summary' = [completed |-> result = "exit0" /\ why = {} /\ ~unconfirmed,
                       peak |-> GuardPeak, reasons |-> why]
    /\ step' = "done"
    /\ UNCHANGED <<disk, command, sample, result, reasons, peak, interrupted, unconfirmed,
                   history>>

Interrupt ==
    /\ step \notin {"done", "dead"} /\ ~interrupted
    /\ interrupted' = TRUE
    /\ UNCHANGED <<disk, command, sample, step, result, reasons, peak, unconfirmed, summary,
                   history>>

\* The monitor is killed, or its events cannot be read: its memory is lost,
\* there is no summary, and the command goes on alone.
MonitorDies ==
    /\ step \notin {"done", "dead"}
    /\ step' = "dead" /\ Put("monitor", NoSample)
    /\ result' = None /\ reasons' = {} /\ peak' = 0
    /\ interrupted' = FALSE /\ unconfirmed' = FALSE
    /\ rejected' = FALSE /\ highest' = 0
    /\ UNCHANGED <<disk, command, summary>>

Sampling(s) == ScanServer(s) \/ Probe(s) \/ Walk(s) \/ Verify(s) \/ ScanLocal(s) \/ Rescan(s) \/ ScanFails(s)
Supervise == FirstSample \/ Launch \/ Wait \/ Decide \/ MonitorError \/ Terminate \/ Kill
             \/ Drop \/ Summarize
Execute == \/ \E d, n \in {-1, 0, 1} : Allocate(d, n)
           \/ Fork \/ ChildExits \/ StartGuard \/ EndGuard \/ GuardUnwritten \/ Ignore
           \/ \E code \in Codes : Exits(code)

Next == \/ \E s \in Samplers : Sampling(s)
        \/ Supervise \/ Execute
        \/ \E d \in {-1, 1} : Merge(d)
        \/ \E p \in {"path", "mount"}, d \in Directories : Move(p, d)
        \/ Interrupt \/ MonitorDies

\* The monitor is scheduled; nothing is assumed of the command.
Fairness == WF_vars(Sampling("monitor")) /\ WF_vars(Supervise)

Spec == Init /\ [][Next]_vars /\ Fairness

----------------------------------------------------------------------------
(* Properties                                                               *)

\* A sample with a number of bytes counted the container's own data: a data
\* directory or mount that was replaced at any point of a host_bind walk is
\* noticed before the number is used, unless it was put back by then, which
\* the device, the inode and the nonce of a probe cannot tell.
MeasuresData ==
    \A s \in Samplers :
        \/ sample[s].stage = "local"
        \/ sample[s].stage = "end" /\ sample[s].outcome # Incomplete
        => sample[s].own \/ sample[s].returned

\* A report says "completed" only if the command exited with zero and every
\* sample that the monitor or the command put on record was complete and
\* within the thresholds, even if the command ignored its own rejected stage.
CompletedIsClean ==
    summary # None => (summary.completed => ~rejected /\ leader = "exit0")

\* The reported peak covers every recorded sample, those of guards included,
\* unless the command could not be stopped and may go on sampling.
PeakCovers == summary # None /\ ~unconfirmed => summary.peak >= highest

\* Once the run was stopped, no process of the command is left, unless the
\* report says that this could not be confirmed.
StoppedIsDown ==
    summary # None /\ reasons # {} /\ ~unconfirmed => ~Alive

\* terminate gave up on a leader that does not die, and drop waits for it.
Blocked == step = "drop" /\ leader = "run"

\* A monitor with a reason to stop the command does stop it and reports,
\* unless the leader outlives SIGKILL for ever: drop waits without a limit.
Stops ==
    \/ <>[]Blocked
    \/ (reasons # {} \/ (step = "sample" /\ interrupted)) ~>
          (step = "dead" \/ (summary # None /\ ~summary.completed /\ (unconfirmed \/ ~Alive)))
============================================================================
