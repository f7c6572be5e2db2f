-------------------------- MODULE CapacityRunProofs --------------------------
(***************************************************************************)
(* What a report of the capacity monitor says is true of the command, for  *)
(* every disk, every policy, any number of children, guard samples and     *)
(* replaced directories.                                                   *)
(*                                                                         *)
(* MonitorInv is inductive.  SampleInv is about one sample in progress: a  *)
(* walk that counted another directory than the container's can only have  *)
(* done so while the host path and the mount differ, so that its probe is  *)
(* not seen again before a directory was put back.  ProcessInv ties the    *)
(* command's life to the monitor's step, RecordInv the recorded samples to *)
(* what the summary is made from, and SummaryInv the summary to the        *)
(* command that may still run.                                             *)
(***************************************************************************)
EXTENDS CapacityRun, WellFoundedInduction, TLAPS

Steps == {"first", "launch", "wait", "sample", "term", "kill", "drop", "read", "done", "dead"}
Reasons == {"incomplete", "budget", "free"}

\* A number of bytes that one sample may come to: the directories are counted
\* one after the other, each of them up to the whole disk.
Bytes == 0..(Disk + Disk)
Outcomes == [used : Bytes \cup {None}, reasons : SUBSET Reasons]
Samples == [stage : {"none", "server", "walk", "verify", "local", "end"},
            server : 0..Disk, tries : Nat, outcome : Outcomes \cup {None},
            probe : Nat \cup {None}, own : BOOLEAN, returned : BOOLEAN]

TypeInv ==
    /\ server \in Nat /\ local \in Nat /\ server + local <= Disk
    /\ mode \in {"container", "host_bind"} /\ place \in [path : Nat, mount : Nat]
    /\ leader \in Codes \cup {"none", "run"} /\ children \in Nat
    /\ op \in {"work", "guard", "failed"} /\ events \subseteq Outcomes
    /\ sample \in [Samplers -> Samples]
    /\ step \in Steps /\ result \in Codes \cup {None}
    /\ peak \in Bytes /\ highest \in Bytes
    /\ interrupted \in BOOLEAN /\ unconfirmed \in BOOLEAN /\ rejected \in BOOLEAN

SampleInv ==
    \A s \in Samplers :
        /\ sample[s].stage \in {"none", "server", "walk"} => sample[s].own
        /\ sample[s].stage \in {"walk", "verify"} => sample[s].probe \in Nat
        /\ sample[s].stage = "verify" =>
              \/ sample[s].own \/ sample[s].returned
              \/ ~ProbeSeen(place, sample[s].probe)
        /\ sample[s].stage = "local" => sample[s].own \/ sample[s].returned
        /\ sample[s].stage = "end" =>
              /\ sample[s].outcome \in Outcomes
              /\ sample[s].outcome = Incomplete \/ sample[s].own \/ sample[s].returned

ProcessInv ==
    /\ step \in {"first", "launch"} => leader = "none"
    /\ step \in {"wait", "sample", "term", "kill", "drop"} => leader # "none"
    /\ step = "drop" => unconfirmed
    /\ leader = "none" => children = 0
    /\ leader # "run" => op = "work"
    /\ result # None => leader = result
    /\ step \in {"read", "done"} /\ ~unconfirmed => leader # "run"
    /\ step \in {"read", "done"} /\ ~unconfirmed /\ reasons # {} => children = 0

RecordInv ==
    /\ step = "first" => ~rejected
    /\ rejected => reasons # {} \/ \E e \in events : e.reasons # {}
    /\ highest <= peak \/ \E e \in events : e.used # None /\ highest <= e.used

SummaryInv ==
    summary # None =>
        /\ step = "done"
        /\ summary.completed => ~rejected /\ leader = "exit0"
        /\ ~unconfirmed => summary.peak >= highest

MonitorInv == TypeInv /\ SampleInv /\ ProcessInv /\ RecordInv /\ SummaryInv

----------------------------------------------------------------------------
(* Samples                                                                  *)

\* What each kind of step does to the samples: a traversal moves one sample
\* on, a moved directory may be one that a sample has probed, and every other
\* step leaves each sample alone, starts it or drops it.
LEMMA SampleStep ==
    ASSUME TypeInv, [Next]_vars
    PROVE  \/ \E s \in Samplers : Sampling(s)
           \/ \E p \in {"path", "mount"}, d \in Directories : Move(p, d)
           \/ /\ UNCHANGED place
              /\ sample' = [s \in Samplers |-> sample'[s]]
              /\ \A s \in Samplers : sample'[s] \in {sample[s], Start, NoSample}
  <1> USE DEF disk, command, monitor, history
  <1>1. CASE Supervise
    BY <1>1 DEF Supervise, FirstSample, Launch, Wait, Decide, MonitorError, Terminate, Kill, Drop,
                Summarize, Put, TypeInv
  <1>2. CASE Execute
    BY <1>2 DEF Execute, Allocate, Fork, ChildExits, StartGuard, EndGuard, GuardUnwritten, Ignore,
                Exits, Put, TypeInv
  <1>3. CASE \/ \E d \in {-1, 1} : Merge(d)
             \/ Interrupt \/ MonitorDies \/ UNCHANGED vars
    BY <1>3 DEF Merge, Interrupt, MonitorDies, Put, vars, TypeInv
  <1> QED
    BY <1>1, <1>2, <1>3 DEF Next

LEMMA Constants ==
    /\ Disk \in Nat /\ 0 \in 0..Disk /\ 0 \in Bytes /\ 0..Disk \subseteq Nat /\ Bytes \subseteq Nat
    /\ None \notin Nat
  BY CapacityAssumption DEF Bytes

LEMMA FreshSamples ==
    /\ NoSample \in Samples /\ Start \in Samples
    /\ Incomplete \in Outcomes
    /\ [NoSample EXCEPT !.stage = "end", !.outcome = Incomplete] \in Samples
  BY Constants DEF NoSample, Start, Samples, Outcomes, Incomplete, Reasons

\* A finished traversal: the sum of two readings of a disk.
LEMMA ScannedOutcome ==
    ASSUME TypeInv, NEW s \in Samplers
    PROVE  LET used == sample[s].server + local
           IN  [used |-> used, reasons |-> AdmissionReasons(used, Disk - server - local)]
                  \in Outcomes
  <1>1. sample[s].server \in 0..Disk /\ local \in 0..Disk
    BY Constants DEF TypeInv, Samples
  <1>2. sample[s].server + local \in Bytes
    BY <1>1, Constants DEF Bytes
  <1>3. \A used, available : AdmissionReasons(used, available) \subseteq Reasons
    BY DEF AdmissionReasons, Limits, Reasons
  <1> QED
    BY <1>2, <1>3 DEF Outcomes

LEMMA SampleTypes ==
    ASSUME TypeInv, [Next]_vars
    PROVE  sample' \in [Samplers -> Samples]
  <1> USE DEF disk, command, monitor, history
  <1>1. ASSUME NEW s \in Samplers, Sampling(s)
        PROVE  sample' \in [Samplers -> Samples]
    <2>1. sample[s] \in Samples
      BY DEF TypeInv
    <2>2. server \in 0..Disk /\ place.path \in Nat /\ TRUE \in BOOLEAN /\ FALSE \in BOOLEAN
      BY Constants DEF TypeInv
    <2>3. (place.path = place.mount) \in BOOLEAN
      OBVIOUS
    <2>4. sample[s].own \in BOOLEAN /\ sample[s].returned \in BOOLEAN
      BY <2>1 DEF Samples
    <2>5. CASE ScanServer(s) \/ Rescan(s) \/ Probe(s) \/ Verify(s) \/ ScanFails(s)
      <3>1. [sample[s] EXCEPT !.stage = "local", !.server = server, !.tries = 0] \in Samples
        BY <2>1, <2>2 DEF Samples
      <3>2. [sample[s] EXCEPT !.tries = @ + 1] \in Samples
        BY <2>1 DEF Samples
      <3>3. [sample[s] EXCEPT !.stage = "walk", !.probe = place.path] \in Samples
        BY <2>1, <2>2 DEF Samples
      <3>4. [sample[s] EXCEPT !.stage = "local", !.probe = None] \in Samples
        BY <2>1 DEF Samples
      <3>5. \E value \in Samples : Put(s, value)
        BY <2>5, <3>1, <3>2, <3>3, <3>4, FreshSamples
           DEF ScanServer, Rescan, Probe, Verify, ScanFails, NotMeasured
      <3> QED
        BY <3>5 DEF Put, TypeInv
    <2>6. CASE Walk(s)
      <3> DEFINE own == place.path = place.mount
      <3>1. own \in BOOLEAN /\ (IF own THEN server ELSE 0) \in 0..Disk
        BY <2>2, <2>3, Constants
      <3> HIDE DEF own
      <3>2. [sample[s] EXCEPT !.stage = "verify", !.tries = 0, !.own = own,
                              !.server = IF own THEN server ELSE 0] \in Samples
        BY <2>1, <3>1 DEF Samples
      <3> QED
        BY <2>6, <3>2 DEF Walk, Put, TypeInv, own
    <2>7. CASE ScanLocal(s)
      <3> DEFINE used == sample[s].server + local
                 outcome == [used |-> used,
                             reasons |-> AdmissionReasons(used, Disk - server - local)]
      <3>1. outcome \in Outcomes
        BY ScannedOutcome
      <3>2. sample' = [sample EXCEPT ![s] = [NoSample EXCEPT !.stage = "end", !.outcome = outcome,
                                                             !.own = sample[s].own,
                                                             !.returned = sample[s].returned]]
        BY <2>7 DEF ScanLocal, Put
      <3> HIDE DEF outcome
      <3>3. [NoSample EXCEPT !.stage = "end", !.outcome = outcome, !.own = sample[s].own,
                             !.returned = sample[s].returned] \in Samples
        BY <2>4, <3>1, Constants DEF NoSample, Samples
      <3> QED
        BY <3>2, <3>3 DEF TypeInv
    <2> QED
      BY <1>1, <2>5, <2>6, <2>7 DEF Sampling
  <1>3. ASSUME NEW p \in {"path", "mount"}, NEW d \in Directories, Move(p, d)
        PROVE  sample' \in [Samplers -> Samples]
    <2> DEFINE Seen(s) == sample[s].returned
                          \/ (sample[s].probe # None /\ ProbeSeen(place', sample[s].probe))
    <2>1. sample' = [s \in Samplers |-> [sample[s] EXCEPT !.returned = Seen(s)]]
      BY <1>3, Zenon DEF Move
    <2>2. ASSUME NEW s \in Samplers
          PROVE  Seen(s) \in BOOLEAN
      <3>1. sample[s].returned \in BOOLEAN
        BY DEF TypeInv, Samples
      <3> QED
        BY <3>1
    <2> HIDE DEF Seen
    <2>3. \A s \in Samplers : [sample[s] EXCEPT !.returned = Seen(s)] \in Samples
      BY <2>2 DEF TypeInv, Samples
    <2> QED
      BY <2>1, <2>3
  <1>2. CASE /\ sample' = [s \in Samplers |-> sample'[s]]
             /\ \A s \in Samplers : sample'[s] \in {sample[s], Start, NoSample}
    <2>1. \A s \in Samplers : sample'[s] \in Samples
      BY <1>2, FreshSamples DEF TypeInv
    <2> QED
      BY <1>2, <2>1
  <1> QED
    BY <1>1, <1>2, <1>3, SampleStep

LEMMA SampleKept ==
    ASSUME TypeInv, SampleInv, [Next]_vars
    PROVE  SampleInv'
  <1> USE DEF disk, command, monitor, history
  <1>1. ASSUME NEW s \in Samplers, Sampling(s)
        PROVE  SampleInv'
    <2>1. UNCHANGED place
      BY <1>1 DEF Sampling, ScanServer, Probe, Walk, Verify, ScanLocal, Rescan, ScanFails
    <2>2. \A t \in Samplers \ {s} : sample'[t] = sample[t]
      BY <1>1 DEF Sampling, ScanServer, Probe, Walk, Verify, ScanLocal, Rescan, ScanFails,
                  NotMeasured, Put, TypeInv
    <2>3. sample \in [Samplers -> Samples]
      BY DEF TypeInv
    <2>4. sample[s] \in Samples
      BY <2>3
    <2>5. CASE ScanServer(s) \/ Rescan(s)
      <3> DEFINE moved == [sample[s] EXCEPT !.stage = "local", !.server = server, !.tries = 0]
                 again == [sample[s] EXCEPT !.tries = @ + 1]
      <3>1. sample[s].stage \in {"server", "walk", "local"}
        BY <2>5 DEF ScanServer, Rescan, Scan
      <3>3. /\ moved.stage = "local" /\ moved.own = sample[s].own
            /\ moved.returned = sample[s].returned
        BY <2>4 DEF Samples
      <3>4. /\ again.stage = sample[s].stage /\ again.own = sample[s].own
            /\ again.returned = sample[s].returned /\ again.probe = sample[s].probe
        BY <2>4 DEF Samples
      <3>5. (sample'[s] = moved /\ sample[s].stage = "server") \/ sample'[s] = again
        BY <2>3, <2>5 DEF ScanServer, Rescan, Scan, Put
      <3> HIDE DEF moved, again
      <3>2. \/ sample'[s].stage = "local" /\ sample[s].stage = "server"
            \/ sample'[s].stage = sample[s].stage /\ sample'[s].probe = sample[s].probe
        BY <3>3, <3>4, <3>5
      <3>6. sample'[s].own = sample[s].own /\ sample'[s].returned = sample[s].returned
        BY <3>3, <3>4, <3>5
      <3> QED
        BY <2>1, <2>2, <3>1, <3>2, <3>6 DEF SampleInv
    <2>6. CASE NotMeasured(s)
      BY <2>1, <2>2, <2>6, FreshSamples DEF NotMeasured, NoSample, Put, TypeInv, SampleInv
    <2>7. CASE (Probe(s) \/ Verify(s) \/ ScanFails(s)) /\ ~NotMeasured(s)
      <3>1. CASE Probe(s)
        <4>1. /\ sample[s].stage = "server" /\ sample'[s].stage = "walk"
              /\ sample'[s].own = sample[s].own /\ sample'[s].probe = place.path
          <5> DEFINE walk == [sample[s] EXCEPT !.stage = "walk", !.probe = place.path]
          <5>1. walk.stage = "walk" /\ walk.own = sample[s].own /\ walk.probe = place.path
            BY <2>4 DEF Samples
          <5>2. sample[s].stage = "server" /\ sample' = [sample EXCEPT ![s] = walk]
            BY <2>7, <3>1 DEF Probe, Scan, Put
          <5> HIDE DEF walk
          <5> QED
            BY <2>3, <5>1, <5>2
        <4>2. place.path \in Nat
          BY DEF TypeInv
        <4> QED
          BY <2>1, <2>2, <4>1, <4>2 DEF SampleInv
      <3>2. CASE Verify(s)
        <4>1. ProbeSeen(place, sample[s].probe)
          BY <2>7, <3>2 DEF Verify, ProbedAfter
        <4>2. sample' = [sample EXCEPT ![s] = [sample[s] EXCEPT !.stage = "local", !.probe = None]]
          BY <2>7, <3>2 DEF Verify, Put
        <4>3. sample[s].stage = "verify" /\ sample'[s].stage = "local"
          BY <2>3, <2>4, <3>2, <4>2 DEF Verify, Scan, Samples
        <4>4. sample'[s].own = sample[s].own /\ sample'[s].returned = sample[s].returned
          BY <2>3, <2>4, <4>2 DEF Samples
        <4> QED
          BY <2>1, <2>2, <4>1, <4>3, <4>4 DEF SampleInv
      <3> QED
        BY <2>7, <3>1, <3>2 DEF ScanFails
    <2>8. CASE Walk(s)
      <3> DEFINE own == place.path = place.mount
      <3>1. /\ sample[s].stage = "walk" /\ sample'[s].stage = "verify"
            /\ sample'[s].own = own /\ sample'[s].probe = sample[s].probe
        BY <2>3, <2>4, <2>8 DEF Walk, Scan, Put, Samples
      <3>2. ~own => ~ProbeSeen(place, sample[s].probe)
        BY DEF ProbeSeen
      <3> HIDE DEF own
      <3> QED
        BY <2>1, <2>2, <3>1, <3>2 DEF SampleInv
    <2>9. CASE ScanLocal(s)
      <3> DEFINE used == sample[s].server + local
                 outcome == [used |-> used,
                             reasons |-> AdmissionReasons(used, Disk - server - local)]
      <3>1. outcome \in Outcomes
        BY ScannedOutcome
      <3>2. sample' = [sample EXCEPT ![s] = [NoSample EXCEPT !.stage = "end", !.outcome = outcome,
                                                             !.own = sample[s].own,
                                                             !.returned = sample[s].returned]]
        BY <2>9 DEF ScanLocal, Put
      <3>3. sample[s].own \/ sample[s].returned
        BY <2>9 DEF ScanLocal, Scan, SampleInv
      <3> HIDE DEF outcome
      <3> QED
        BY <2>1, <3>1, <3>2, <3>3 DEF NoSample, TypeInv, SampleInv
    <2> QED
      BY <1>1, <2>5, <2>6, <2>7, <2>8, <2>9 DEF Sampling
  <1>3. ASSUME NEW p \in {"path", "mount"}, NEW d \in Directories, Move(p, d)
        PROVE  SampleInv'
    <2> SUFFICES ASSUME NEW s \in Samplers
                 PROVE  SampleInv!(s)'
      BY DEF SampleInv
    <2> DEFINE back == sample[s].probe # None /\ ProbeSeen(place', sample[s].probe)
    <2>1. sample'[s] = [sample[s] EXCEPT !.returned = @ \/ back]
      BY <1>3 DEF Move
    <2>2. sample[s] \in Samples
      BY DEF TypeInv
    <2>3. /\ sample'[s].stage = sample[s].stage /\ sample'[s].own = sample[s].own
          /\ sample'[s].probe = sample[s].probe /\ sample'[s].outcome = sample[s].outcome
          /\ sample'[s].returned = (sample[s].returned \/ back)
      BY <2>1, <2>2 DEF Samples
    <2>4. sample[s].stage = "verify" => sample'[s].returned \/ ~ProbeSeen(place', sample[s].probe)
      BY <2>3, CapacityAssumption DEF SampleInv
    <2> HIDE DEF back
    <2> QED
      BY <2>3, <2>4 DEF SampleInv
  <1>2. CASE UNCHANGED place /\ \A s \in Samplers : sample'[s] \in {sample[s], Start, NoSample}
    BY <1>2 DEF SampleInv, Start, NoSample
  <1> QED
    BY <1>1, <1>2, <1>3, SampleStep

----------------------------------------------------------------------------
(* The command and its processes                                            *)

LEMMA ProcessKept ==
    ASSUME TypeInv, ProcessInv, [Next]_vars
    PROVE  ProcessInv'
  <1> USE DEF disk, command, monitor, history
  <1>1. CASE \E s \in Samplers : Sampling(s)
    BY <1>1 DEF Sampling, ScanServer, Probe, Walk, Verify, ScanLocal, Rescan, ScanFails, ProcessInv
  <1>2. CASE FirstSample \/ Decide
    BY <1>2 DEF FirstSample, Decide, ProcessInv, TypeInv, Codes
  <1>3. CASE Launch \/ Wait \/ MonitorError
    BY <1>3, CapacityAssumption DEF Launch, Wait, MonitorError, ProcessInv, TypeInv, Codes
  <1>4. CASE Terminate
    BY <1>4, CapacityAssumption DEF Terminate, ProcessInv, TypeInv, Codes
  <1>5. CASE Kill
    <2>1. /\ step = "kill" /\ leader \in Codes \cup {"run"} /\ (result # None => leader = result)
          /\ leader # "run" => op = "work"
      BY <1>5 DEF Kill, ProcessInv, TypeInv
    <2>2. /\ leader' \in Codes \cup {"run"} /\ (leader # "run" => leader' = leader)
          /\ op' = IF leader' = "run" THEN op ELSE "work"
      BY <1>5, <2>1 DEF Kill, Codes
    <2>3. \/ step' = "read" /\ children' = 0 /\ leader' # "run" /\ result' = leader'
          \/ unconfirmed' /\ step' = "drop" /\ result' = result
          \/ unconfirmed' /\ step' = "read" /\ result' = result
      BY <1>5, <2>1 DEF Kill, Survivors, Codes
    <2>4. leader # "run" /\ result # None => result = leader
      BY <2>1
    <2>5. result = None \/ leader # "run"
      BY <2>1, CapacityAssumption DEF ProcessInv, TypeInv, Codes
    <2> QED
      BY <2>1, <2>2, <2>3, <2>4, <2>5 DEF ProcessInv, Codes
  <1>9. CASE Drop
    BY <1>9 DEF Drop, ProcessInv
  <1>6. CASE Summarize \/ Interrupt \/ MonitorDies
    BY <1>6 DEF Summarize, Interrupt, MonitorDies, ProcessInv
  <1>7. CASE Execute
    BY <1>7, CapacityAssumption
       DEF Execute, Allocate, Fork, ChildExits, StartGuard, EndGuard, GuardUnwritten, Ignore, Exits,
           ProcessInv, TypeInv, Codes
  <1>8. CASE \/ \E d \in {-1, 1} : Merge(d)
             \/ \E p \in {"path", "mount"}, d \in Directories : Move(p, d)
             \/ UNCHANGED vars
    BY <1>8 DEF Merge, Move, vars, ProcessInv
  <1> QED
    BY <1>1, <1>2, <1>3, <1>4, <1>5, <1>6, <1>7, <1>8, <1>9 DEF Next, Supervise

----------------------------------------------------------------------------
(* Samples on record                                                        *)

\* The steps that put a sample on record.
LEMMA RecordFrame ==
    ASSUME [Next]_vars, ~FirstSample, ~Decide, ~EndGuard, ~MonitorDies
    PROVE  /\ UNCHANGED <<events, peak, rejected, highest>> /\ reasons \subseteq reasons'
           /\ step' = "first" => step = "first"
  <1> USE DEF disk, command, monitor, history
  <1>1. CASE \E s \in Samplers : Sampling(s)
    BY <1>1 DEF Sampling, ScanServer, Probe, Walk, Verify, ScanLocal, Rescan, ScanFails
  <1>2. CASE Supervise
    BY <1>2 DEF Supervise, Launch, Wait, MonitorError, Terminate, Kill, Drop, Summarize
  <1>3. CASE Execute
    BY <1>3 DEF Execute, Allocate, Fork, ChildExits, StartGuard, GuardUnwritten, Ignore, Exits
  <1>4. CASE \/ \E d \in {-1, 1} : Merge(d)
             \/ \E p \in {"path", "mount"}, d \in Directories : Move(p, d)
             \/ Interrupt \/ UNCHANGED vars
    BY <1>4 DEF Merge, Move, Interrupt, vars
  <1> QED
    BY <1>1, <1>2, <1>3, <1>4 DEF Next

LEMMA LargerIsUpper ==
    ASSUME NEW a \in Bytes, NEW b \in Bytes
    PROVE  Larger(a, b) \in Bytes /\ a <= Larger(a, b) /\ b <= Larger(a, b)
           /\ Larger(a, b) \in {a, b}
  BY Constants DEF Larger

LEMMA Recorded ==
    ASSUME TypeInv, SampleInv, NEW s \in Samplers, Scan(s, "end")
    PROVE  /\ sample[s].outcome \in Outcomes
           /\ sample[s].outcome.used \in Bytes \cup {None}
           /\ sample[s].outcome.reasons \subseteq Reasons
  <1>1. sample[s].outcome \in Outcomes
    BY DEF Scan, SampleInv
  <1> QED
    BY <1>1 DEF Outcomes

LEMMA RecordKept ==
    ASSUME TypeInv, SampleInv, ProcessInv, RecordInv, [Next]_vars
    PROVE  RecordInv'
  <1> USE DEF disk, command, monitor, history
  <1>1. CASE FirstSample \/ Decide
    <2> DEFINE outcome == sample["monitor"].outcome
    <2>1. outcome.used \in Bytes \cup {None}
      BY <1>1, Recorded DEF FirstSample, Decide, Samplers
    <2>2. /\ peak' = IF outcome.used = None THEN peak ELSE Larger(peak, outcome.used)
          /\ rejected' = (rejected \/ outcome.reasons # {})
          /\ highest' = IF outcome.used = None THEN highest ELSE Larger(highest, outcome.used)
          /\ events' = events /\ step' # "first"
      BY <1>1 DEF FirstSample, Decide, Record, Remember
    <2>3. rejected' => reasons' # {} \/ \E e \in events : e.reasons # {}
      BY <1>1, <2>2 DEF FirstSample, Decide, RecordInv
    <2> HIDE DEF outcome
    <2>4. highest' <= peak' \/ \E e \in events : e.used # None /\ highest' <= e.used
      <3>1. CASE outcome.used = None
        BY <2>2, <3>1 DEF RecordInv
      <3>2. CASE outcome.used # None /\ highest <= outcome.used
        <4>1. highest' \in {highest, outcome.used} /\ outcome.used <= peak' /\ peak' \in Bytes
          BY <2>1, <2>2, <3>2, LargerIsUpper DEF TypeInv
        <4> QED
          BY <2>1, <3>2, <4>1, Constants DEF TypeInv
      <3>3. CASE outcome.used # None /\ ~(highest <= outcome.used)
        <4>1. highest' = highest /\ peak <= peak' /\ peak' \in Bytes
          BY <2>1, <2>2, <3>3, LargerIsUpper, Constants DEF TypeInv, Larger
        <4> QED
          BY <4>1, Constants DEF TypeInv, RecordInv
      <3> QED
        BY <3>1, <3>2, <3>3
    <2> QED
      BY <2>2, <2>3, <2>4 DEF RecordInv
  <1>2. CASE EndGuard
    <2> DEFINE outcome == sample["guard"].outcome
    <2>1. outcome.used \in Bytes \cup {None}
      BY <1>2, Recorded DEF EndGuard, Samplers
    <2>2. /\ rejected' = (rejected \/ outcome.reasons # {})
          /\ highest' = IF outcome.used = None THEN highest ELSE Larger(highest, outcome.used)
          /\ events' = events \cup {outcome} /\ peak' = peak /\ reasons' = reasons /\ step' = step
      BY <1>2 DEF EndGuard, RecordEvent, Remember
    <2>3. step # "first"
      BY <1>2 DEF EndGuard, ProcessInv
    <2>4. rejected' => reasons' # {} \/ \E e \in events' : e.reasons # {}
      BY <2>2 DEF RecordInv
    <2> HIDE DEF outcome
    <2>5. highest' \in {highest, outcome.used} /\ (highest' # highest => outcome.used # None)
      BY <2>1, <2>2 DEF Larger
    <2>6. highest' <= peak' \/ \E e \in events' : e.used # None /\ highest' <= e.used
      <3>1. CASE highest' = highest
        BY <2>2, <3>1 DEF RecordInv
      <3>2. CASE highest' # highest
        <4>1. outcome \in events' /\ outcome.used # None /\ highest' = outcome.used
          BY <2>2, <2>5, <3>2
        <4>2. outcome.used \in Nat
          BY <2>1, <4>1, Constants
        <4>3. highest' <= outcome.used
          BY <4>1, <4>2
        <4> QED
          BY <4>1, <4>3
      <3> QED
        BY <3>1, <3>2
    <2> QED
      BY <2>2, <2>3, <2>4, <2>6 DEF RecordInv
  <1>3. CASE MonitorDies
    BY <1>3 DEF MonitorDies, RecordInv
  <1>4. CASE ~FirstSample /\ ~Decide /\ ~EndGuard /\ ~MonitorDies
    BY <1>4, RecordFrame DEF RecordInv
  <1> QED
    BY <1>1, <1>2, <1>3, <1>4

----------------------------------------------------------------------------
(* The summary                                                              *)

\* The numbers of bytes on record have a largest one.
LEMMA BytesHaveMax ==
    ASSUME NEW S \in SUBSET Bytes, S # {}
    PROVE  \E n \in S : \A m \in S : m <= n
  <1> DEFINE top == Disk + Disk
             gaps == {top - n : n \in S}
  <1>1. top \in Nat /\ S \subseteq 0..top
    BY Constants DEF Bytes
  <1> HIDE DEF top
  <1>2. gaps \in SUBSET Nat /\ gaps # {}
    <2>1. \A n \in S : n \in Nat /\ n <= top
      BY <1>1
    <2>2. \A n \in S : top - n \in Nat
      BY <1>1, <2>1
    <2> QED
      BY <2>2
  <1>3. \E x \in gaps : \A y \in gaps : <<y, x>> \notin OpToRel(<, Nat)
    <2>1. IsWellFoundedOn(OpToRel(<, Nat), Nat)
      BY NatLessThanWellFounded
    <2> HIDE DEF gaps
    <2> QED
      BY <1>2, <2>1, WFMin
  <1>4. PICK x \in gaps : \A y \in gaps : <<y, x>> \notin OpToRel(<, Nat)
    BY <1>3
  <1>5. ASSUME NEW i \in Nat, NEW j \in Nat, j < i
        PROVE  <<j, i>> \in OpToRel(<, Nat)
    BY <1>5 DEF OpToRel
  <1>6. \A y \in gaps : ~(y < x)
    <2> HIDE DEF gaps
    <2> QED
      BY <1>2, <1>4, <1>5, Zenon
  <1>7. PICK n \in S : x = top - n
    BY <1>4
  <1>8. ASSUME NEW m \in S
        PROVE  m <= n
    <2>1. ~(top - m < top - n)
      BY <1>6, <1>7
    <2> QED
      BY <1>1, <2>1
  <1> QED
    BY <1>8

\* The summary's peak is at least every number of bytes on record.
LEMMA PeakIsUpper ==
    ASSUME TypeInv
    PROVE  /\ GuardPeak \in Bytes /\ peak <= GuardPeak
           /\ \A e \in events : e.used # None => e.used <= GuardPeak
  <1> DEFINE used == {e.used : e \in {x \in events : x.used # None}} \cup {peak}
  <1>1. used \in SUBSET Bytes /\ used # {}
    BY DEF TypeInv, Outcomes
  <1>2. peak \in used /\ \A e \in events : e.used # None => e.used \in used
    OBVIOUS
  <1>3. GuardPeak = CHOOSE n \in used : \A m \in used : m <= n
    BY DEF GuardPeak
  <1> HIDE DEF used
  <1>4. \E n \in used : \A m \in used : m <= n
    BY <1>1, BytesHaveMax
  <1>5. GuardPeak \in used /\ \A m \in used : m <= GuardPeak
    BY <1>3, <1>4, Zenon
  <1> QED
    BY <1>1, <1>2, <1>5

\* After the report nothing is put on record unless a command that could not
\* be stopped goes on.
LEMMA SummaryFrame ==
    ASSUME TypeInv, ProcessInv, [Next]_vars, step = "done"
    PROVE  /\ step' = "done" /\ UNCHANGED <<summary, unconfirmed>>
           /\ leader # "run" => UNCHANGED <<leader, rejected, highest>>
  <1> USE DEF disk, command, monitor, history
  <1>1. CASE \E s \in Samplers : Sampling(s)
    BY <1>1 DEF Sampling, ScanServer, Probe, Walk, Verify, ScanLocal, Rescan, ScanFails
  <1>2. CASE Supervise
    BY <1>2 DEF Supervise, FirstSample, Launch, Wait, Decide, MonitorError, Terminate, Kill, Drop,
                Summarize
  <1>3. CASE Execute
    BY <1>3 DEF Execute, Allocate, Fork, ChildExits, StartGuard, EndGuard, GuardUnwritten, Ignore,
                Exits, ProcessInv
  <1>4. CASE \/ \E d \in {-1, 1} : Merge(d)
             \/ \E p \in {"path", "mount"}, d \in Directories : Move(p, d)
             \/ Interrupt \/ MonitorDies \/ UNCHANGED vars
    BY <1>4 DEF Merge, Move, Interrupt, MonitorDies, vars
  <1> QED
    BY <1>1, <1>2, <1>3, <1>4 DEF Next

LEMMA SummaryWritten ==
    ASSUME [Next]_vars, ~Summarize
    PROVE  UNCHANGED summary
  <1> USE DEF disk, command, monitor, history
  <1>1. CASE \E s \in Samplers : Sampling(s)
    BY <1>1 DEF Sampling, ScanServer, Probe, Walk, Verify, ScanLocal, Rescan, ScanFails
  <1>2. CASE Supervise
    BY <1>2 DEF Supervise, FirstSample, Launch, Wait, Decide, MonitorError, Terminate, Kill, Drop
  <1>3. CASE Execute
    BY <1>3 DEF Execute, Allocate, Fork, ChildExits, StartGuard, EndGuard, GuardUnwritten, Ignore,
                Exits
  <1>4. CASE \/ \E d \in {-1, 1} : Merge(d)
             \/ \E p \in {"path", "mount"}, d \in Directories : Move(p, d)
             \/ Interrupt \/ MonitorDies \/ UNCHANGED vars
    BY <1>4 DEF Merge, Move, Interrupt, MonitorDies, vars
  <1> QED
    BY <1>1, <1>2, <1>3, <1>4 DEF Next

LEMMA SummaryKept ==
    ASSUME TypeInv, ProcessInv, RecordInv, SummaryInv, [Next]_vars
    PROVE  SummaryInv'
  <1> USE DEF disk, command, monitor, history
  <1>1. CASE Summarize
    <2> DEFINE why == reasons \cup UNION {e.reasons : e \in events}
    <2>1. /\ summary' = [completed |-> result = "exit0" /\ why = {} /\ ~unconfirmed,
                         peak |-> GuardPeak, reasons |-> why]
          /\ step' = "done" /\ UNCHANGED <<rejected, leader, unconfirmed, highest>>
      BY <1>1 DEF Summarize
    <2>2. why = {} => ~rejected
      BY DEF RecordInv
    <2>3. result = "exit0" => leader = "exit0"
      BY CapacityAssumption DEF ProcessInv
    <2>4. GuardPeak >= highest
      <3> GuardPeak \in Nat /\ peak \in Nat /\ highest \in Nat
        BY PeakIsUpper, Constants DEF TypeInv
      <3>1. CASE highest <= peak
        BY <3>1, PeakIsUpper
      <3>2. CASE \E e \in events : e.used # None /\ highest <= e.used
        <4>1. PICK e \in events : e.used # None /\ highest <= e.used
          BY <3>2
        <4>2. e.used \in Bytes /\ e.used <= GuardPeak
          BY <4>1, PeakIsUpper DEF TypeInv, Outcomes
        <4>3. e.used \in Nat
          BY <4>2, Constants
        <4> QED
          BY <4>1, <4>2, <4>3
      <3> QED
        BY <3>1, <3>2 DEF RecordInv
    <2> HIDE DEF why
    <2>5. summary'.completed => ~rejected' /\ leader' = "exit0"
      BY <2>1, <2>2, <2>3
    <2>6. summary'.peak >= highest'
      BY <2>1, <2>4
    <2> QED
      BY <2>1, <2>5, <2>6 DEF SummaryInv
  <1>2. CASE step = "done"
    <2>1. CASE leader # "run"
      BY <1>2, <2>1, SummaryFrame DEF SummaryInv
    <2>2. CASE leader = "run"
      <3>1. unconfirmed /\ unconfirmed'
        BY <1>2, <2>2, SummaryFrame DEF ProcessInv, TypeInv
      <3> QED
        BY <1>2, <2>2, <3>1, SummaryFrame DEF SummaryInv
    <2> QED
      BY <2>1, <2>2
  <1>3. CASE step # "done" /\ ~Summarize
    BY <1>3, SummaryWritten DEF SummaryInv
  <1> QED
    BY <1>1, <1>2, <1>3

----------------------------------------------------------------------------
(* Types                                                                    *)

LEMMA DiskTypes ==
    ASSUME TypeInv, [Next]_vars
    PROVE  /\ server' \in Nat /\ local' \in Nat /\ server' + local' <= Disk
           /\ mode' \in {"container", "host_bind"} /\ place' \in [path : Nat, mount : Nat]
  <1> USE DEF disk, command, monitor, history
  <1>1. CASE \E s \in Samplers : Sampling(s)
    BY <1>1 DEF Sampling, ScanServer, Probe, Walk, Verify, ScanLocal, Rescan, ScanFails, TypeInv
  <1>2. CASE Supervise
    BY <1>2 DEF Supervise, FirstSample, Launch, Wait, Decide, MonitorError, Terminate, Kill, Drop,
                Summarize, TypeInv
  <1>3. CASE \E d, n \in {-1, 0, 1} : Allocate(d, n)
    BY <1>3, Constants DEF Allocate, TypeInv
  <1>4. CASE Execute /\ ~\E d, n \in {-1, 0, 1} : Allocate(d, n)
    BY <1>4 DEF Execute, Fork, ChildExits, StartGuard, EndGuard, GuardUnwritten, Ignore, Exits,
                TypeInv
  <1>5. CASE \E d \in {-1, 1} : Merge(d)
    BY <1>5, Constants DEF Merge, TypeInv
  <1>6. CASE \E p \in {"path", "mount"}, d \in Directories : Move(p, d)
    <2>1. PICK p \in {"path", "mount"}, d \in Directories : Move(p, d)
      BY <1>6
    <2>2. d \in Nat /\ place \in [path : Nat, mount : Nat]
      BY CapacityAssumption DEF TypeInv
    <2>3. place' = [place EXCEPT ![p] = d] /\ UNCHANGED <<server, local, mode>>
      BY <2>1 DEF Move
    <2>4. place' \in [path : Nat, mount : Nat]
      BY <2>2, <2>3
    <2> QED
      BY <2>3, <2>4 DEF TypeInv
  <1>7. CASE Interrupt \/ MonitorDies \/ UNCHANGED vars
    BY <1>7 DEF Interrupt, MonitorDies, vars, TypeInv
  <1> QED
    BY <1>1, <1>2, <1>3, <1>4, <1>5, <1>6, <1>7 DEF Next

LEMMA RecordTypes ==
    ASSUME TypeInv, SampleInv, [Next]_vars
    PROVE  /\ events' \subseteq Outcomes /\ peak' \in Bytes /\ highest' \in Bytes
           /\ rejected' \in BOOLEAN
  <1>1. CASE FirstSample \/ Decide
    <2> DEFINE outcome == sample["monitor"].outcome
    <2>1. outcome.used \in Bytes \cup {None}
      BY <1>1, Recorded DEF FirstSample, Decide, Samplers
    <2>2. /\ peak' = IF outcome.used = None THEN peak ELSE Larger(peak, outcome.used)
          /\ rejected' = (rejected \/ outcome.reasons # {})
          /\ highest' = IF outcome.used = None THEN highest ELSE Larger(highest, outcome.used)
          /\ events' = events
      BY <1>1 DEF FirstSample, Decide, Record, Remember, command
    <2> HIDE DEF outcome
    <2> QED
      BY <2>1, <2>2, LargerIsUpper DEF TypeInv
  <1>2. CASE EndGuard
    <2> DEFINE outcome == sample["guard"].outcome
    <2>1. outcome \in Outcomes /\ outcome.used \in Bytes \cup {None}
      BY <1>2, Recorded DEF EndGuard, Samplers
    <2>2. /\ rejected' = (rejected \/ outcome.reasons # {})
          /\ highest' = IF outcome.used = None THEN highest ELSE Larger(highest, outcome.used)
          /\ events' = events \cup {outcome} /\ peak' = peak
      BY <1>2 DEF EndGuard, RecordEvent, Remember, monitor
    <2> HIDE DEF outcome
    <2> QED
      BY <2>1, <2>2, LargerIsUpper DEF TypeInv
  <1>3. CASE MonitorDies
    BY <1>3, Constants DEF MonitorDies, TypeInv, command
  <1>4. CASE ~FirstSample /\ ~Decide /\ ~EndGuard /\ ~MonitorDies
    BY <1>4, RecordFrame DEF TypeInv
  <1> QED
    BY <1>1, <1>2, <1>3, <1>4

LEMMA ControlTypes ==
    ASSUME TypeInv, ProcessInv, [Next]_vars
    PROVE  /\ leader' \in Codes \cup {"none", "run"} /\ children' \in Nat
           /\ op' \in {"work", "guard", "failed"} /\ step' \in Steps
           /\ result' \in Codes \cup {None}
           /\ interrupted' \in BOOLEAN /\ unconfirmed' \in BOOLEAN
  <1> USE DEF disk, command, monitor, history
  <1>1. CASE \E s \in Samplers : Sampling(s)
    BY <1>1 DEF Sampling, ScanServer, Probe, Walk, Verify, ScanLocal, Rescan, ScanFails, TypeInv
  <1>2. CASE Supervise
    <2>1. CASE FirstSample \/ Launch \/ Decide \/ MonitorError \/ Summarize
      BY <2>1 DEF FirstSample, Launch, Decide, MonitorError, Summarize, TypeInv, Steps
    <2>2. CASE Wait
      BY <2>2 DEF Wait, TypeInv, Steps
    <2>3. CASE Terminate
      BY <2>3 DEF Terminate, TypeInv, Codes, Steps
    <2>4. CASE Kill
      <3>1. leader \in Codes \cup {"run"}
        BY <2>4 DEF Kill, ProcessInv, TypeInv
      <3>2. leader' \in Codes \cup {"run"} /\ result' \in {leader', result}
        BY <2>4, <3>1 DEF Kill, Codes
      <3>3. result' \in Codes \cup {None}
        BY <2>4, <3>1 DEF Kill, TypeInv, Codes
      <3>4. unconfirmed' \in BOOLEAN /\ interrupted' \in BOOLEAN
        BY <2>4 DEF Kill, TypeInv
      <3> QED
        BY <2>4, <3>2, <3>3, <3>4 DEF Kill, Survivors, TypeInv, Steps
    <2>5. CASE Drop
      BY <2>5 DEF Drop, TypeInv, Steps
    <2> QED
      BY <1>2, <2>1, <2>2, <2>3, <2>4, <2>5 DEF Supervise
  <1>3. CASE Execute
    BY <1>3 DEF Execute, Allocate, Fork, ChildExits, StartGuard, EndGuard, GuardUnwritten, Ignore,
                Exits, TypeInv, Codes
  <1>4. CASE \/ \E d \in {-1, 1} : Merge(d)
             \/ \E p \in {"path", "mount"}, d \in Directories : Move(p, d)
             \/ Interrupt \/ MonitorDies \/ UNCHANGED vars
    <2>1. UNCHANGED <<leader, children, op>> /\ result' \in {result, None}
      BY <1>4 DEF Merge, Move, Interrupt, MonitorDies, vars
    <2>2. \/ UNCHANGED <<step, interrupted, unconfirmed>>
          \/ step' = step /\ interrupted' = TRUE /\ UNCHANGED unconfirmed
          \/ step' = "dead" /\ interrupted' = FALSE /\ unconfirmed' = FALSE
      BY <1>4 DEF Merge, Move, Interrupt, MonitorDies, vars
    <2> QED
      BY <2>1, <2>2 DEF TypeInv, Steps
  <1> QED
    BY <1>1, <1>2, <1>3, <1>4 DEF Next

----------------------------------------------------------------------------
(* Theorems                                                                 *)

LEMMA MonitorInit == ASSUME Init PROVE MonitorInv
  <1>1. TypeInv
    <2>1. sample \in [Samplers -> Samples]
      BY FreshSamples DEF Init
    <2>2. mode \in {"container", "host_bind"} /\ place \in [path : Nat, mount : Nat]
      BY CapacityAssumption DEF Init
    <2>3. interrupted \in BOOLEAN /\ unconfirmed \in BOOLEAN /\ rejected \in BOOLEAN
      BY DEF Init
    <2>4. peak \in Bytes /\ highest \in Bytes /\ server + local <= Disk
      BY Constants DEF Init
    <2> QED
      BY <2>1, <2>2, <2>3, <2>4 DEF Init, TypeInv, Steps
  <1>2. SampleInv
    BY DEF Init, SampleInv, Start, NoSample, Samplers
  <1>3. ProcessInv /\ RecordInv /\ SummaryInv
    BY DEF Init, ProcessInv, RecordInv, SummaryInv
  <1> QED
    BY <1>1, <1>2, <1>3 DEF MonitorInv

LEMMA MonitorStep == ASSUME MonitorInv, [Next]_vars PROVE MonitorInv'
  <1> USE DEF MonitorInv
  <1>1. TypeInv'
    BY DiskTypes, SampleTypes, RecordTypes, ControlTypes DEF TypeInv
  <1> QED
    BY <1>1, SampleKept, ProcessKept, RecordKept, SummaryKept

\* MonitorInv is an invariant of the monitored command: it ties the step of
\* supervise to the processes that run, the samples on record to the summary,
\* and a walk of the host path to the place of the mount.
THEOREM MonitorInvariant == Spec => []MonitorInv
  BY MonitorInit, MonitorStep, PTL DEF Spec

\* No sample with a number of bytes counted a directory that is not the
\* container's, however often the path or the mount is replaced, unless one of
\* them was put back between the two probes (Probe::verify after data_usage).
THEOREM SamplesMeasureData == Spec => []MeasuresData
  <1>1. MonitorInv => MeasuresData
    BY DEF MonitorInv, SampleInv, MeasuresData
  <1> QED
    BY <1>1, MonitorInvariant, PTL

\* "completed" in summary.json implies exit status zero and no rejected sample,
\* of the monitor or of a guard, for any number of guard events.
THEOREM CompletedMeansClean == Spec => []CompletedIsClean
  <1>1. MonitorInv => CompletedIsClean
    BY DEF MonitorInv, SummaryInv, CompletedIsClean
  <1> QED
    BY <1>1, MonitorInvariant, PTL

\* The reported peak is at least every sample on record, unless supervise could
\* not confirm the end of the command.
THEOREM PeakCoversRecord == Spec => []PeakCovers
  <1>1. MonitorInv => PeakCovers
    BY DEF MonitorInv, SummaryInv, PeakCovers
  <1> QED
    BY <1>1, MonitorInvariant, PTL

\* A run that was stopped for a reason has no process left when the report is
\* written, and none comes back, unless termination_error says so.
THEOREM StoppedMeansDown == Spec => []StoppedIsDown
  <1>1. MonitorInv => StoppedIsDown
    BY DEF MonitorInv, TypeInv, ProcessInv, SummaryInv, StoppedIsDown, Alive
  <1> QED
    BY <1>1, MonitorInvariant, PTL
============================================================================
