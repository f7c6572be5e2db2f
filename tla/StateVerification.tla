-------------------------- MODULE StateVerification --------------------------
(***************************************************************************)
(* Commands that check local state against an RPC provider: capture-proofs *)
(* (rpc.rs, header.rs, proof.rs), postgres-verify (postgres.rs) and the    *)
(* lifecycle-updates and native-output diagnostics                         *)
(* (lifecycle_qualification.rs, output_qualification.rs).                  *)
(*                                                                         *)
(* A command asks the provider many questions by block NUMBER.  Between    *)
(* two answers the provider may reorganise or fail over to a node on       *)
(* another fork, the PostgreSQL sink may commit, and another command may   *)
(* write the same output.  Hashes and roots commit to what they hash: a    *)
(* block is its hash, a state root is the state, a storage root the        *)
(* nonzero slots.                                                          *)
(***************************************************************************)
EXTENDS Naturals, FiniteSets

CONSTANTS
    Clients,        \* processes that run one command each
    Accounts, Slots,
    Rank,           \* byte order of the slots
    Forks,
    Last,           \* bound: height of the forks
    Chain,          \* the blocks of each fork by number, from the genesis block 0
    StateOf,        \* meta (nonce, balance), code and slots of each account at each block
    Options,        \* the command lines of the clients
    SinkStart,      \* first block of the PostgreSQL sink
    Defects,        \* what a defective mapper may have stored: [cell -> value]
    Limit,          \* --limit of a sampled verification
    MaxSwitches,    \* bound: changes of the fork that the provider serves
    MaxReplays,     \* bound: old ranges replayed over the current tables
    None

Numbers == 0..Last
Blocks == DOMAIN StateOf
Keys == Accounts \X Slots
Cells == Keys \cup (Accounts \X {"meta", "code"})

Commands == [kind : {"capture", "postgres", "updates", "output"},
             accounts : (SUBSET Accounts) \ {{}}, block : Numbers \cup {None},
             pin : Blocks \cup {None}, selected : Accounts \cup {None}, complete : BOOLEAN]

\* Verified proofs and bytecode of some accounts, and the two output files.
AccountStates == {StateOf[b][a] : b \in Blocks, a \in Accounts}
Proofs == UNION {[S -> [proof : AccountStates, code : {s.code : s \in AccountStates} \cup {None}]] :
                    S \in SUBSET Accounts}
Bundles == [header : Blocks, accounts : Proofs, pin : Blocks \cup {None}]
Reports == [kind : {"updates", "output"}, header : Blocks]

\* A hash commits to the number of its block.
ASSUME VerificationAssumption ==
    /\ Accounts \subseteq Nat /\ Rank \in [Slots -> Nat] /\ {"meta", "code"} \cap Slots = {}
    /\ {Limit, MaxSwitches, MaxReplays} \subseteq Nat /\ Limit > 0
    /\ {Last, SinkStart} \subseteq Nat \ {0}
    /\ Chain \in [Forks -> [Numbers -> Blocks]]
    /\ \A b \in Blocks : \E f \in Forks, n \in Numbers : Chain[f][n] = b
    /\ \A f, g \in Forks : Chain[f][0] = Chain[g][0]
    /\ \A f, g \in Forks, m, n \in Numbers : Chain[f][m] = Chain[g][n] => m = n
    /\ \A c \in Clients : Options[c] \subseteq Commands
    /\ None \notin Numbers /\ None \notin Blocks /\ None \notin Bundles /\ None \notin Reports

VARIABLES
    view,           \* fork of the node that answers
    finalized,      \* the finalized height, which the nodes agree on
    switches,
    stream,         \* fork that the sinks follow
    tables,         \* PostgreSQL: head, and value and last block of every cell
    replays,
    defect,         \* wrong values among the native rows of the source
    job,            \* each client's command in progress
    bundle,         \* the proof bundle file, one path for all captures
    report          \* the diagnostics' output file, one path as well

provider == <<view, finalized, switches>>
local == <<stream, tables, replays, defect>>
vars == <<view, finalized, switches, stream, tables, replays, defect, job, bundle, report>>

Least(S) == CHOOSE x \in S : \A y \in S : x <= y

\* The value of a cell (a slot, or an account field) in the state of a block.
Value(b, cell) ==
    IF cell \in Keys THEN StateOf[b][cell[1]].slots[cell[2]] ELSE StateOf[b][cell[1]][cell[2]]

\* The cells that block n of a fork changes.
Touched == [f \in Forks |-> [n \in Numbers \ {0} |->
    {cell \in Cells : Value(Chain[f][n], cell) # Value(Chain[f][n - 1], cell)}]]

Idle == [pc |-> "idle", cmd |-> None, final |-> None, header |-> None, todo |-> {},
         got |-> <<>>, snap |-> None, ok |-> FALSE]

Init ==
    /\ view \in Forks /\ finalized = 1 /\ switches = 0
    /\ stream \in Forks /\ replays = 0
    /\ tables = [head |-> None, cell |-> [c \in Cells |-> None]]
    /\ defect \in Defects
    /\ job = [c \in Clients |-> Idle]
    /\ bundle = None /\ report = None

----------------------------------------------------------------------------
(* The provider and the PostgreSQL sink (external)                          *)

\* A reorganisation, or a failover to a node on another fork.
Switch(f) ==
    /\ f # view /\ switches < MaxSwitches
    /\ view' = f /\ switches' = switches + 1
    /\ UNCHANGED <<finalized, local, job, bundle, report>>

Finalize ==
    /\ finalized < Last
    /\ finalized' = finalized + 1
    /\ UNCHANGED <<view, switches, local, job, bundle, report>>

\* The rows of a block replace the current ones, whatever their block.
Upsert(n) ==
    [head |-> IF tables.head = None THEN n ELSE IF n < tables.head THEN tables.head ELSE n,
     cell |-> [c \in Cells |-> IF c \in Touched[stream][n]
                               THEN [value |-> Value(Chain[stream][n], c), last |-> n]
                               ELSE tables.cell[c]]]

\* The sink commits the next block in one transaction.
Commit ==
    LET n == IF tables.head = None THEN SinkStart ELSE tables.head + 1
    IN  /\ n \in Numbers
        /\ tables' = Upsert(n)
        /\ UNCHANGED <<provider, stream, replays, defect, job, bundle, report>>

\* A range that was already ingested is run again over the same tables.
Replay(n) ==
    /\ tables.head # None /\ n \in SinkStart..tables.head /\ replays < MaxReplays
    /\ tables' = Upsert(n) /\ replays' = replays + 1
    /\ UNCHANGED <<provider, stream, defect, job, bundle, report>>

----------------------------------------------------------------------------
(* Calls: each is answered by the current view, or fails the command        *)

At(c, pc) == job[c].pc = pc
Canonical(n) == Chain[view][n]
NumberOf == [b \in DOMAIN StateOf |-> CHOOSE n \in Numbers : \E f \in Forks : Chain[f][n] = b]

Put(c, j) == job' = [job EXCEPT ![c] = j]
Failed == [Idle EXCEPT !.pc = "done"]

Passed(c) == [job[c] EXCEPT !.pc = "done", !.ok = TRUE]
Check(c, cond, next) == Put(c, IF cond THEN next ELSE Failed)

Calls == {"finalized", "header", "proof", "code", "after", "sample", "same"}

\* A transport error, an HTTP error, an error or null result.
CallFails(c) ==
    /\ job[c].pc \in Calls
    /\ Put(c, Failed)
    /\ UNCHANGED <<provider, local, bundle, report>>

\* The checks on the header a command goes on with.
Headed(c, b) ==
    LET cmd == job[c].cmd
        next == [job[c] EXCEPT !.header = b, !.final = None,
                               !.pc = IF cmd.kind = "output" THEN "finish" ELSE "proof"]
    IN  Check(c, cmd.pin \in {None, b}, next)

\* finalized_header: the finalized block, which is also the header unless a
\* number was asked for.
CallFinalized(c) ==
    /\ At(c, "finalized")
    /\ IF job[c].cmd.block = None
       THEN Headed(c, Canonical(finalized))
       ELSE Put(c, [job[c] EXCEPT !.pc = "header", !.final = finalized])
    /\ UNCHANGED <<provider, local, bundle, report>>

CallHeader(c) ==
    /\ At(c, "header")
    /\ LET n == job[c].cmd.block
       IN  IF n <= job[c].final THEN Headed(c, Canonical(n)) ELSE Put(c, Failed)
    /\ UNCHANGED <<provider, local, bundle, report>>

\* Mutant of VerifyAccount: the proof is only checked against its own root.
VerifyAccountSelf(header, answer) == TRUE

\* verify_account: the nodes of the proof lead from the header's state root.
VerifyAccount(header, answer) == StateOf[header] = StateOf[answer]

\* The entry of an account in the bundle.
Entered(got, a, entry) == [x \in DOMAIN got \cup {a} |-> IF x = a THEN entry ELSE got[x]]

\* capture, for one account: eth_getProof ...
CallProof(c) ==
    /\ At(c, "proof")
    /\ LET a == Least(job[c].todo)
           b == Canonical(NumberOf[job[c].header])
       IN  Check(c, VerifyAccount(job[c].header, b),
                 [job[c] EXCEPT !.pc = "code",
                                !.got = Entered(@, a, [proof |-> StateOf[b][a], code |-> None])])
    /\ UNCHANGED <<provider, local, bundle, report>>

VerifyCode(proof, code) == code = proof.code

\* ... and eth_getCode.
CallCode(c) ==
    /\ At(c, "code")
    /\ LET a == Least(job[c].todo)
           code == StateOf[Canonical(NumberOf[job[c].header])][a].code
           rest == job[c].todo \ {a}
       IN  Check(c, VerifyCode(job[c].got[a].proof, code),
                 [job[c] EXCEPT !.got[a].code = code, !.todo = rest,
                                !.pc = IF rest = {} THEN "after" ELSE "proof"])
    /\ UNCHANGED <<provider, local, bundle, report>>

\* The block at the header's number must still be the header.
SameHeader(c) == Canonical(NumberOf[job[c].header]) = job[c].header

CallAfter(c) ==
    /\ At(c, "after")
    /\ Check(c, SameHeader(c), [job[c] EXCEPT !.pc = "finish"])
    /\ UNCHANGED <<provider, local, bundle, report>>

----------------------------------------------------------------------------
(* capture-proofs                                                           *)

StartCapture(c, cmd) ==
    /\ At(c, "idle") /\ cmd.kind = "capture"
    /\ Check(c, bundle = None,
             [Idle EXCEPT !.pc = "finalized", !.cmd = cmd, !.todo = cmd.accounts])
    /\ UNCHANGED <<provider, local, bundle, report>>

Bundle(c) == [header |-> job[c].header, accounts |-> job[c].got, pin |-> job[c].cmd.pin]

\* Mutant of HardLink: the file is renamed over whatever is there.
HardLinkOver(file) == TRUE

\* atomic_write without overwrite: a link never replaces a file.
HardLink(file) == file = None

WriteBundle(c) ==
    /\ At(c, "finish") /\ job[c].cmd.kind = "capture"
    /\ IF HardLink(bundle)
       THEN bundle' = Bundle(c) /\ Put(c, Passed(c))
       ELSE Put(c, Failed) /\ UNCHANGED bundle
    /\ UNCHANGED <<provider, local, report>>

----------------------------------------------------------------------------
(* postgres-verify                                                          *)

\* The rows of one account or of all, the storage rows up to a limit in order.
SnapshotAccounts(cmd) ==
    {a \in Accounts : /\ cmd.selected \in {None, a}
                      /\ \E f \in {"meta", "code"} : tables.cell[<<a, f>>] # None}

Before(k, l) == k[1] < l[1] \/ (k[1] = l[1] /\ Rank[k[2]] < Rank[l[2]])

SnapshotStorage(cmd) ==
    LET all == {k \in Keys : tables.cell[k] # None /\ cmd.selected \in {None, k[1]}}
    IN  IF cmd.complete THEN all ELSE {k \in all : Cardinality({l \in all : Before(l, k)}) < Limit}

\* snapshot: one statement, hence one committed state of all the tables.
Snapshot(cmd) ==
    [block |-> Chain[stream][tables.head], number |-> tables.head,
     accounts |-> SnapshotAccounts(cmd),
     cell |-> [k \in SnapshotStorage(cmd) \cup (SnapshotAccounts(cmd) \X {"meta", "code"}) |->
                  tables.cell[k]]]

\* validate_snapshot
ValidSnapshot(snap) ==
    /\ snap.accounts # {}
    /\ \A k \in DOMAIN snap.cell :
           /\ k[1] \in snap.accounts
           /\ snap.cell[k] # None /\ snap.cell[k].last <= snap.number

StartVerify(c, cmd) ==
    /\ At(c, "idle") /\ cmd.kind = "postgres"
    /\ LET snap == Snapshot(cmd)
           full == [cmd EXCEPT !.block = tables.head]
       IN  IF tables.head = None \/ (cmd.selected # None /\ SnapshotAccounts(cmd) = {})
           THEN Put(c, Failed)
           ELSE Check(c, ValidSnapshot(snap) /\ cmd.block \in {None, tables.head},
                      [Idle EXCEPT !.pc = "finalized", !.cmd = full, !.snap = snap,
                                   !.todo = snap.accounts])
    /\ UNCHANGED <<provider, local, bundle, report>>

Storage(snap) == DOMAIN snap.cell \cap Keys

\* Mutant of StorageRootMatches: every row is right, nothing else is asked.
StorageRootRows(snap, a, proof) ==
    \A k \in Storage(snap) : k[1] = a => snap.cell[k].value = proof.slots[k[2]]

\* verify_complete: the root over the nonzero rows is the proven storage root.
StorageRootMatches(snap, a, proof) ==
    {<<k[2], snap.cell[k].value>> : k \in {l \in Storage(snap) : l[1] = a /\ snap.cell[l].value # 0}}
        = {<<s, proof.slots[s]>> : s \in {t \in Slots : proof.slots[t] # 0}}

\* verify_metadata
MetadataMatches(snap, a, proof) ==
    \A f \in {"meta", "code"} : snap.cell[<<a, f>>].value = proof[f]

\* verify: the snapshot against the bundle; a sampled verification asks on.
Verify(c) ==
    /\ At(c, "finish") /\ job[c].cmd.kind = "postgres"
    /\ LET snap == job[c].snap
           proof(a) == job[c].got[a].proof
           agrees == /\ snap.block = job[c].header
                     /\ \A a \in snap.accounts :
                           /\ MetadataMatches(snap, a, proof(a))
                           /\ job[c].cmd.complete => StorageRootMatches(snap, a, proof(a))
           asked == [job[c] EXCEPT !.todo = Storage(snap),
                                   !.pc = IF Storage(snap) = {} THEN "same" ELSE "sample"]
       IN  Check(c, agrees, IF job[c].cmd.complete THEN Passed(c) ELSE asked)
    /\ UNCHANGED <<provider, local, bundle, report>>

----------------------------------------------------------------------------
(* Unproved answers: sampled rows, and the touched slots of the diagnostics *)

\* observed_fields, union_storage: the cells of the source's rows up to block n
\* and their last values.
Observed(n) == UNION {Touched[stream][m] : m \in 1..n}
Row(n, cell) ==
    IF cell \in DOMAIN defect THEN defect[cell] ELSE Value(Chain[stream][n], cell)

\* What a command claims about a slot.
Claimed(c, k) ==
    IF job[c].cmd.kind = "postgres" THEN job[c].snap.cell[k].value
    ELSE Row(NumberOf[job[c].header], k)

\* eth_getStorageAt, in the order of the rows.
CallSample(c) ==
    /\ At(c, "sample")
    /\ LET k == CHOOSE x \in job[c].todo : \A y \in job[c].todo \ {x} : Before(x, y)
           rest == job[c].todo \ {k}
       IN  Check(c, Value(Canonical(NumberOf[job[c].header]), k) = Claimed(c, k),
                 [job[c] EXCEPT !.todo = rest, !.pc = IF rest = {} THEN "same" ELSE "sample"])
    /\ UNCHANGED <<provider, local, bundle, report>>

\* Mutant of Recheck: the unproved answers are believed.
RecheckNever(c) == TRUE

\* The header is read again after the last unproved answer.
Recheck(c) == SameHeader(c)

CallSame(c) ==
    /\ At(c, "same")
    /\ Check(c, Recheck(c), IF job[c].cmd.kind = "postgres" THEN Passed(c)
                            ELSE [job[c] EXCEPT !.pc = "finish"])
    /\ UNCHANGED <<provider, local, bundle, report>>

----------------------------------------------------------------------------
(* lifecycle-updates and native-output, under the source's run.lock         *)

\* validate_interval: the source's block at the header's number is the header.
Interval(b) == b = Chain[stream][NumberOf[b]]

\* Another diagnostic holds run.lock; nobody waits for it.
Locked == \E c \in Clients : /\ job[c].pc \notin {"idle", "done"}
                             /\ job[c].cmd.kind \in {"updates", "output"}

\* matching_fields: the observed account fields against the proven ones.
FieldsMatch(saved) ==
    LET fields == Observed(NumberOf[saved.header]) \ Keys
    IN  /\ fields # {}
        /\ \A cell \in fields :
              Row(NumberOf[saved.header], cell) = saved.accounts[cell[1]].proof[cell[2]]

\* updates: a saved bundle, its accounts and header checked against the source.
StartUpdates(c, cmd) ==
    /\ At(c, "idle") /\ cmd.kind = "updates" /\ bundle # None
    /\ LET slots == Observed(NumberOf[bundle.header]) \cap Keys
           ready == /\ report = None /\ ~Locked /\ Interval(bundle.header)
                    /\ DOMAIN bundle.accounts = Accounts
                    /\ \A a \in Accounts :
                          /\ bundle.accounts[a].proof = StateOf[bundle.header][a]
                          /\ VerifyCode(bundle.accounts[a].proof, bundle.accounts[a].code)
                    /\ FieldsMatch(bundle)
       IN  Check(c, ready, [Idle EXCEPT !.cmd = cmd, !.header = bundle.header, !.todo = slots,
                                        !.pc = IF slots = {} THEN "same" ELSE "sample"])
    /\ UNCHANGED <<provider, local, bundle, report>>

\* measure: the finalized header at the durable cursor.
StartOutput(c, cmd) ==
    /\ At(c, "idle") /\ cmd.kind = "output"
    /\ Check(c, report = None /\ ~Locked,
             [Idle EXCEPT !.pc = "finalized", !.cmd = [cmd EXCEPT !.block = Last]])
    /\ UNCHANGED <<provider, local, bundle, report>>

WriteReport(c) ==
    /\ At(c, "finish") /\ job[c].cmd.kind \in {"updates", "output"}
    /\ IF HardLink(report) /\ (job[c].cmd.kind = "output" => Interval(job[c].header))
       THEN report' = [kind |-> job[c].cmd.kind, header |-> job[c].header] /\ Put(c, Passed(c))
       ELSE Put(c, Failed) /\ UNCHANGED report
    /\ UNCHANGED <<provider, local, bundle>>

----------------------------------------------------------------------------
Step(c) == \/ CallFails(c) \/ CallFinalized(c) \/ CallHeader(c) \/ CallProof(c) \/ CallCode(c)
           \/ CallAfter(c) \/ CallSample(c) \/ CallSame(c)
           \/ WriteBundle(c) \/ Verify(c) \/ WriteReport(c)

Launch(c) == \E cmd \in Options[c] : \/ StartCapture(c, cmd) \/ StartVerify(c, cmd)
                                     \/ StartUpdates(c, cmd) \/ StartOutput(c, cmd)

Next == \/ \E c \in Clients : Launch(c) \/ Step(c)
        \/ \E f \in Forks : Switch(f)
        \/ Finalize \/ Commit
        \/ \E n \in Numbers : Replay(n)

Spec == Init /\ [][Next]_vars

----------------------------------------------------------------------------
(* Properties                                                               *)

\* A bundle on disk is of one block, whatever the provider did between the
\* calls of its capture: every proof and every bytecode is that block's, and
\* the block is the pinned one.
BundleSound ==
    bundle # None =>
        /\ bundle.pin \in {None, bundle.header}
        /\ \A a \in DOMAIN bundle.accounts :
               /\ bundle.accounts[a].proof = StateOf[bundle.header][a]
               /\ bundle.accounts[a].code = StateOf[bundle.header][a].code

\* A command that reported success left its own output on disk, complete, even
\* when two of them checked for the same absent file at the same time.
SuccessIsOnDisk ==
    \A c \in Clients : job[c].ok =>
        CASE job[c].cmd.kind = "capture" ->
                bundle = Bundle(c) /\ DOMAIN bundle.accounts = job[c].cmd.accounts
          [] job[c].cmd.kind = "postgres" -> TRUE
          [] OTHER -> report = [kind |-> job[c].cmd.kind, header |-> job[c].header]

\* The provider has not gone back to a fork it had left.
OneWay == switches <= 1

\* A verdict of postgres-verify is true of the block it names although the
\* sink went on committing, an old range was replayed over the tables or the
\* provider left the fork: metadata and code are exact, "root-verified" means
\* exactly the nonzero slots.  A sampled row, whose answer nothing proves, is
\* the block's value if the provider does not return to a fork it left.
VerdictTrue ==
    \A c \in Clients : job[c].ok /\ job[c].cmd.kind = "postgres" =>
        LET snap == job[c].snap
        IN  /\ \A k \in DOMAIN snap.cell :
                   k \notin Keys \/ job[c].cmd.complete \/ OneWay =>
                       snap.cell[k].value = Value(snap.block, k)
            /\ job[c].cmd.complete =>
                   \A k \in Keys : k[1] \in snap.accounts /\ Value(snap.block, k) # 0 =>
                                     k \in Storage(snap)

\* A report of the diagnostics is about a block of the source, and with
\* lifecycle-updates everything the source observed up to it has its value
\* (the slots again if the provider does not return to a fork it left).
ReportTrue ==
    report # None =>
        LET n == NumberOf[report.header]
        IN  /\ report.header = Chain[stream][n]
            /\ report.kind = "updates" =>
                   \A cell \in Observed(n) :
                       cell \notin Keys \/ OneWay => Row(n, cell) = Value(report.header, cell)
============================================================================
