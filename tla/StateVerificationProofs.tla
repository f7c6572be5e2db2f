----------------------- MODULE StateVerificationProofs -----------------------
(***************************************************************************)
(* What a verifying command leaves behind is true of the block it names,   *)
(* for any chain of forks, any number of commands, accounts and slots, and *)
(* any number of failovers of the provider between two of its answers.     *)
(*                                                                         *)
(* VerifierInv is inductive.  JobInv says, step by step, what one command  *)
(* has established: the proofs it holds are of its header (ProofInv), its  *)
(* snapshot agrees with them (VerdictInv), its source with the bundle      *)
(* (SourceInv), and the unproved answers are right unless the provider is  *)
(* on another fork now or has changed forks twice (SampleInv), which needs *)
(* that a provider that never changed forks still serves every header      *)
(* (ViewInv).  DiskInv is about the two output files.                      *)
(***************************************************************************)
EXTENDS StateVerification, WellFoundedInduction, TLAPS

Values == {Value(b, cell) : b \in Blocks, cell \in Cells}
Rows == [value : Values, last : Numbers] \cup {None}
Snapshots == [block : Blocks, number : Numbers, accounts : SUBSET Accounts,
              cell : UNION {[S -> Rows] : S \in SUBSET Cells}]
Steps == Calls \cup {"idle", "finish", "done"}
Jobs == [pc : Steps, cmd : Commands \cup {None}, final : Numbers \cup {None},
         header : Blocks \cup {None}, todo : SUBSET (Accounts \cup Keys), got : Proofs,
         snap : Snapshots \cup {None}, ok : BOOLEAN]

TypeInv ==
    /\ view \in Forks /\ stream \in Forks
    /\ finalized \in Numbers /\ switches \in Nat
    /\ tables \in [head : Numbers \cup {None}, cell : [Cells -> Rows]]
    /\ job \in [Clients -> Jobs]
    /\ bundle \in Bundles \cup {None} /\ report \in Reports \cup {None}

\* The provider's fork has the block.
Served(b) == Chain[view][NumberOf[b]] = b

Capturing(j) == j.cmd.kind \in {"capture", "postgres"}

\* The command runs, or has reported success.
Started(j) == j.pc \notin {"idle", "done"} \/ j.ok

\* Steps with a header, and steps of a capture.
WithHeader(j) == j.pc \in {"proof", "code", "after", "finish", "sample", "same"} \/ j.ok
CaptureSteps == {"finalized", "header", "proof", "code", "after", "finish"}

ShapeInv(j) ==
    /\ j.ok => j.pc = "done"
    /\ Started(j) => j.cmd \in Commands
    /\ WithHeader(j) => j.header \in Blocks
    /\ j.pc = "header" => j.cmd.block # None /\ j.final # None
    /\ j.pc \in {"proof", "code", "after"} => Capturing(j)
    /\ j.pc \in {"finalized", "header"} => j.cmd.kind # "updates"
    /\ j.pc \in {"sample", "same"} => j.cmd.kind \in {"postgres", "updates"}

\* The accounts a capture is asked for.
Asked(j) == IF j.cmd.kind = "capture" THEN j.cmd.accounts ELSE j.snap.accounts

ProofInv(j) ==
    /\ j.pc \in CaptureSteps /\ Capturing(j) =>
          /\ j.pc \in {"finalized", "header"} => j.todo = Asked(j)
          /\ IF j.pc \in {"after", "finish"} THEN j.todo = {} ELSE j.todo # {} /\ j.todo \subseteq Asked(j)
          /\ DOMAIN j.got = (Asked(j) \ j.todo) \cup (IF j.pc = "code" THEN {Least(j.todo)} ELSE {})
          /\ \A a \in DOMAIN j.got :
                /\ j.got[a].proof = StateOf[j.header][a]
                /\ \/ j.got[a].code = StateOf[j.header][a].code
                   \/ j.pc = "code" /\ a = Least(j.todo)
          /\ j.pc \notin {"finalized", "header"} => j.cmd.pin \in {None, j.header}
    /\ j.ok /\ j.cmd.kind = "capture" => DOMAIN j.got = j.cmd.accounts

SnapshotInv(snap) ==
    /\ snap \in Snapshots /\ snap.accounts # {}
    /\ \A k \in DOMAIN snap.cell :
          k[1] \in snap.accounts /\ (k \notin Keys => k \in snap.accounts \X {"meta", "code"})

VerdictInv(j) ==
    Started(j) /\ j.cmd.kind = "postgres" =>
        /\ SnapshotInv(j.snap)
        /\ j.pc \in {"sample", "same"} => ~j.cmd.complete
        /\ j.pc \in {"sample", "same"} \/ j.ok =>
              /\ j.snap.block = j.header
              /\ \A k \in DOMAIN j.snap.cell \ Keys : j.snap.cell[k].value = Value(j.header, k)
        /\ j.ok /\ j.cmd.complete =>
              \A a \in j.snap.accounts : StorageRootMatches(j.snap, a, StateOf[j.header][a])

\* lifecycle-updates: the header is the source's, its observed fields are right.
SourceInv(j) ==
    j.pc \notin {"idle", "done"} /\ j.cmd.kind = "updates" =>
        /\ Interval(j.header)
        /\ \A cell \in Observed(NumberOf[j.header]) \ Keys :
              Row(NumberOf[j.header], cell) = Value(j.header, cell)

\* The slots to ask for, and whether what is claimed of some of them is right.
Target(j) == IF j.cmd.kind = "postgres" THEN Storage(j.snap)
             ELSE Observed(NumberOf[j.header]) \cap Keys
Right(j, S) ==
    \A k \in S : (IF j.cmd.kind = "postgres" THEN j.snap.cell[k].value
                  ELSE Row(NumberOf[j.header], k)) = Value(j.header, k)

SampleInv(j) ==
    /\ j.pc \in {"sample", "same"} =>
          Right(j, Target(j) \ j.todo) \/ switches > 1 \/ ~Served(j.header)
    /\ j.pc = "same" => j.todo = {}
    /\ \/ j.ok /\ j.cmd.kind = "postgres" /\ ~j.cmd.complete
       \/ j.pc = "finish" /\ j.cmd.kind = "updates"
       => Right(j, Target(j)) \/ switches > 1

ViewInv(j) == WithHeader(j) /\ switches = 0 => Served(j.header)

JobInv(j) == /\ ShapeInv(j) /\ ProofInv(j) /\ VerdictInv(j) /\ SourceInv(j)
             /\ SampleInv(j) /\ ViewInv(j)

DiskInv ==
    /\ BundleSound /\ SuccessIsOnDisk /\ ReportTrue
    /\ bundle # None /\ switches = 0 => Served(bundle.header)

VerifierInv == TypeInv /\ (\A c \in Clients : JobInv(job[c])) /\ DiskInv

----------------------------------------------------------------------------
(* Blocks, accounts and records                                             *)

\* A block of a fork is at its number and nowhere else.
LEMMA NumberOfBlock ==
    ASSUME NEW f \in Forks, NEW n \in Numbers
    PROVE  Chain[f][n] \in Blocks /\ NumberOf[Chain[f][n]] = n
  <1>1. Chain[f][n] \in Blocks
    BY VerificationAssumption
  <1>2. \A m \in Numbers : (\E g \in Forks : Chain[g][m] = Chain[f][n]) => m = n
    BY VerificationAssumption
  <1>3. NumberOf[Chain[f][n]] = CHOOSE m \in Numbers : \E g \in Forks : Chain[g][m] = Chain[f][n]
    BY <1>1 DEF NumberOf, Blocks
  <1> QED
    BY <1>1, <1>2, <1>3

\* The first of some accounts is one of them.
LEMMA LeastIn ==
    ASSUME NEW S \in SUBSET Accounts, S # {}
    PROVE  Least(S) \in S
  <1>1. S \in SUBSET Nat
    BY VerificationAssumption
  <1>2. IsWellFoundedOn(OpToRel(<, Nat), Nat)
    BY NatLessThanWellFounded
  <1>3. \E x \in S : \A y \in S : <<y, x>> \notin OpToRel(<, Nat)
    BY <1>1, <1>2, WFMin
  <1>4. PICK x \in S : \A y \in S : <<y, x>> \notin OpToRel(<, Nat)
    BY <1>3
  <1>5. ASSUME NEW i \in Nat, NEW j \in Nat, j < i
        PROVE  <<j, i>> \in OpToRel(<, Nat)
    BY <1>5 DEF OpToRel
  <1>6. \A y \in S : ~(y < x)
    BY <1>1, <1>4, <1>5, Zenon
  <1>7. \A y \in S : x <= y
    BY <1>1, <1>6
  <1> QED
    BY <1>7 DEF Least

LEMMA ProofsOf ==
    ASSUME NEW f, NEW S \in SUBSET Accounts,
           f \in [S -> [proof : AccountStates, code : {s.code : s \in AccountStates} \cup {None}]]
    PROVE  f \in Proofs
  BY DEF Proofs

LEMMA ProofsAre ==
    ASSUME NEW f \in Proofs
    PROVE  /\ DOMAIN f \subseteq Accounts
           /\ f \in [DOMAIN f -> [proof : AccountStates, code : {s.code : s \in AccountStates} \cup {None}]]
  <1>1. PICK S \in SUBSET Accounts :
           f \in [S -> [proof : AccountStates, code : {s.code : s \in AccountStates} \cup {None}]]
    BY DEF Proofs
  <1> QED
    BY <1>1

LEMMA NoProofs == <<>> \in Proofs /\ DOMAIN <<>> = {}
  <1>1. DOMAIN <<>> = {}
    OBVIOUS
  <1>2. <<>> = [a \in {} |-> a]
    OBVIOUS
  <1>3. [a \in {} |-> a] \in
          [{} -> [proof : AccountStates, code : {s.code : s \in AccountStates} \cup {None}]]
    OBVIOUS
  <1> QED
    BY <1>1, <1>2, <1>3, ProofsOf

LEMMA Distinct == None \notin Numbers /\ None \notin Blocks /\ None \notin Bundles /\ None \notin Reports
  BY VerificationAssumption

----------------------------------------------------------------------------
(* Jobs                                                                     *)

LEMMA IdleInv == Idle \in Jobs /\ JobInv(Idle) /\ Idle.pc = "idle" /\ ~Idle.ok
  <1>1. Idle \in Jobs
    BY NoProofs DEF Idle, Jobs, Steps
  <1>2. Idle.pc = "idle" /\ Idle.ok = FALSE
    BY DEF Idle
  <1> HIDE DEF Idle
  <1> QED
    BY <1>1, <1>2
       DEF JobInv, ShapeInv, ProofInv, VerdictInv, SourceInv, SampleInv, ViewInv, Started, WithHeader,
           CaptureSteps

LEMMA FailedInv == Failed \in Jobs /\ JobInv(Failed) /\ Failed.pc = "done" /\ ~Failed.ok
  <1>1. Idle \in Jobs /\ "done" \in Steps
    BY IdleInv DEF Steps
  <1>2. Failed.pc = "done" /\ Failed.ok = FALSE
    BY DEF Failed, Idle
  <1>3. Failed \in Jobs
    BY <1>1 DEF Failed, Jobs
  <1> HIDE DEF Failed
  <1> QED
    BY <1>2, <1>3
       DEF JobInv, ShapeInv, ProofInv, VerdictInv, SourceInv, SampleInv, ViewInv, Started, WithHeader,
           CaptureSteps

\* What JobInv says of a job depends on nothing that a command changes.
LEMMA JobFrame ==
    ASSUME NEW c \in Clients, JobInv(job[c]), UNCHANGED <<view, switches, stream, defect>>,
           job'[c] = job[c]
    PROVE  JobInv(job[c])'
  BY DEF JobInv, ShapeInv, ProofInv, VerdictInv, SourceInv, SampleInv, ViewInv, Started, WithHeader,
         Served, Interval, Observed, Row, Target, Right, Asked, Capturing, Storage

\* The next job of a command.
LEMMA JobPut ==
    ASSUME NEW c \in Clients, NEW j, JobInv(j), UNCHANGED <<view, switches, stream, defect>>,
           job'[c] = j
    PROVE  JobInv(job[c])'
  BY DEF JobInv, ShapeInv, ProofInv, VerdictInv, SourceInv, SampleInv, ViewInv, Started, WithHeader,
         Served, Interval, Observed, Row, Target, Right, Asked, Capturing, Storage

\* A step of a command that keeps the invariant of its job.
Moves(c) == \E j \in Jobs : JobInv(j) /\ job' = [job EXCEPT ![c] = j]

LEMMA FailMoves ==
    ASSUME NEW c \in Clients, Put(c, Failed)
    PROVE  Moves(c)
  BY FailedInv DEF Moves, Put

LEMMA CheckMoves ==
    ASSUME NEW c \in Clients, NEW cond, NEW next, Check(c, cond, next),
           cond => next \in Jobs /\ JobInv(next)
    PROVE  Moves(c)
  BY FailedInv DEF Moves, Check, Put

----------------------------------------------------------------------------
(* capture                                                                  *)

\* The header a command goes on with is a block of the provider's fork.
LEMMA HeadedMoves ==
    ASSUME TypeInv, NEW c \in Clients, JobInv(job[c]), job[c].pc \in {"finalized", "header"},
           NEW n \in Numbers, Headed(c, Canonical(n))
    PROVE  Moves(c)
  <1> DEFINE b == Canonical(n)
             j == job[c]
             next == [j EXCEPT !.header = b, !.final = None,
                               !.pc = IF j.cmd.kind = "output" THEN "finish" ELSE "proof"]
  <1>1. b \in Blocks /\ Served(b)
    BY NumberOfBlock DEF Canonical, Served, TypeInv
  <1>2. j \in Jobs
    BY DEF TypeInv
  <1> HIDE DEF b, j
  <1>3. next \in Jobs
    BY <1>1, <1>2 DEF Jobs, Steps, Calls
  <1>4. /\ next.pc = (IF j.cmd.kind = "output" THEN "finish" ELSE "proof")
        /\ next.header = b /\ next.cmd = j.cmd /\ next.todo = j.todo /\ next.got = j.got
        /\ next.snap = j.snap /\ next.ok = j.ok
    BY <1>2 DEF Jobs
  <1>5. j.pc \in {"finalized", "header"} /\ j.ok = FALSE /\ j.cmd \in Commands
        /\ j.cmd.kind # "updates"
    BY <1>2 DEF j, JobInv, ShapeInv, Started, Jobs
  <1>6. j.cmd.kind \in {"capture", "postgres", "output"}
    BY <1>5 DEF Commands
  <1> HIDE DEF next
  <1>7. ASSUME j.cmd.pin \in {None, b}
        PROVE  JobInv(next)
    <2>1. ShapeInv(next)
      BY <1>1, <1>4, <1>5, <1>6 DEF ShapeInv, Started, WithHeader, Capturing
    <2>2. ProofInv(next)
      <3>1. ProofInv(j)
        BY DEF j, JobInv
      <3>2. Asked(next) = Asked(j) /\ (Capturing(next) <=> Capturing(j))
        BY <1>4 DEF Asked, Capturing
      <3>3. CASE Capturing(j)
        <4>1. j.todo = Asked(j) /\ j.todo # {} /\ DOMAIN j.got = {}
          BY <1>5, <3>1, <3>3 DEF ProofInv, CaptureSteps
        <4>2. next.pc = "proof"
          BY <1>4, <3>3 DEF Capturing
        <4> QED
          BY <1>4, <1>5, <1>7, <3>2, <4>1, <4>2 DEF ProofInv
      <3>4. CASE ~Capturing(j)
        BY <1>4, <1>5, <3>2, <3>4 DEF ProofInv
      <3> QED
        BY <3>3, <3>4
    <2>3. VerdictInv(next)
      <3>1. VerdictInv(j)
        BY DEF j, JobInv
      <3> QED
        BY <1>4, <1>5, <3>1 DEF VerdictInv, Started
    <2>4. SourceInv(next) /\ SampleInv(next)
      BY <1>4, <1>5 DEF SourceInv, SampleInv
    <2>5. ViewInv(next)
      BY <1>1, <1>4 DEF ViewInv
    <2> QED
      BY <2>1, <2>2, <2>3, <2>4, <2>5 DEF JobInv
  <1>8. Check(c, j.cmd.pin \in {None, b}, next)
    BY DEF Headed, b, j, next
  <1> QED
    BY <1>3, <1>7, <1>8, CheckMoves

LEMMA FinalizedMoves ==
    ASSUME TypeInv, NEW c \in Clients, JobInv(job[c]), CallFinalized(c)
    PROVE  Moves(c)
  <1>1. CASE job[c].cmd.block = None
    BY <1>1, HeadedMoves DEF CallFinalized, At, TypeInv
  <1>2. CASE job[c].cmd.block # None
    <2> DEFINE j == job[c]
               next == [j EXCEPT !.pc = "header", !.final = finalized]
    <2>1. j \in Jobs /\ j.pc = "finalized" /\ finalized \in Numbers /\ JobInv(j)
      BY DEF TypeInv, CallFinalized, At
    <2>2. job' = [job EXCEPT ![c] = next] /\ j.cmd.block # None
      BY <1>2 DEF CallFinalized, Put
    <2> HIDE DEF j
    <2>3. next \in Jobs
      BY <2>1 DEF Jobs, Steps, Calls
    <2>4. /\ next.pc = "header" /\ next.final = finalized
          /\ next.header = j.header /\ next.cmd = j.cmd /\ next.todo = j.todo /\ next.got = j.got
          /\ next.snap = j.snap /\ next.ok = j.ok
      BY <2>1 DEF Jobs
    <2> HIDE DEF next
    <2>5. j.ok = FALSE
      BY <2>1 DEF Jobs, JobInv, ShapeInv
    <2>6. ShapeInv(next)
      BY <2>1, <2>2, <2>4, <2>5, Distinct DEF JobInv, ShapeInv, Started, WithHeader
    <2>7. ProofInv(next)
      BY <2>1, <2>4, <2>5 DEF JobInv, ProofInv, CaptureSteps, Capturing, Asked
    <2>8. VerdictInv(next) /\ SourceInv(next) /\ SampleInv(next) /\ ViewInv(next)
      BY <2>1, <2>4, <2>5
         DEF JobInv, ShapeInv, VerdictInv, SourceInv, SampleInv, ViewInv, Started, WithHeader
    <2> QED
      BY <2>2, <2>3, <2>6, <2>7, <2>8 DEF Moves, JobInv
  <1> QED
    BY <1>1, <1>2

LEMMA HeaderMoves ==
    ASSUME TypeInv, NEW c \in Clients, JobInv(job[c]), CallHeader(c)
    PROVE  Moves(c)
  <1>1. job[c].cmd \in Commands /\ job[c].cmd.block # None
    BY DEF CallHeader, At, JobInv, ShapeInv, Started
  <1>2. job[c].cmd.block \in Numbers
    BY <1>1 DEF Commands
  <1> QED
    BY <1>2, HeadedMoves, FailMoves DEF CallHeader, At

\* What a step from one proof to the next does not touch.
LEMMA CaptureFrame ==
    ASSUME NEW j, NEW next, JobInv(j), j.pc \in {"proof", "code", "after"},
           next.pc \in {"proof", "code", "after", "finish"},
           next.cmd = j.cmd, next.header = j.header, next.snap = j.snap, j.ok = FALSE, next.ok = FALSE
    PROVE  /\ ShapeInv(next) /\ VerdictInv(next) /\ SourceInv(next) /\ SampleInv(next) /\ ViewInv(next)
           /\ Capturing(j) /\ Capturing(next) /\ Asked(next) = Asked(j) /\ j.header \in Blocks
           /\ j.cmd.pin \in {None, j.header} /\ j.cmd \in Commands
  <1>1. Capturing(j) /\ Capturing(next) /\ Asked(next) = Asked(j)
    BY DEF JobInv, ShapeInv, Capturing, Asked
  <1>2. ShapeInv(next) /\ j.header \in Blocks /\ j.cmd \in Commands
    BY <1>1 DEF JobInv, ShapeInv, Started, WithHeader
  <1>3. VerdictInv(next) /\ SourceInv(next) /\ SampleInv(next) /\ ViewInv(next)
    BY <1>1 DEF JobInv, VerdictInv, SourceInv, SampleInv, ViewInv, Started, WithHeader, Capturing
  <1>4. j.cmd.pin \in {None, j.header}
    BY <1>1 DEF JobInv, ProofInv, CaptureSteps
  <1> QED
    BY <1>1, <1>2, <1>3, <1>4

\* The accounts asked for are accounts.
LEMMA AskedAccounts ==
    ASSUME NEW j \in Jobs, JobInv(j), j.pc \in {"proof", "code"}
    PROVE  /\ Asked(j) \subseteq Accounts /\ j.todo # {} /\ j.todo \subseteq Asked(j)
           /\ Least(j.todo) \in j.todo
  <1>1. Capturing(j) /\ j.cmd \in Commands
    BY DEF JobInv, ShapeInv, Started
  <1>2. Asked(j) \subseteq Accounts
    <2>1. CASE j.cmd.kind = "capture"
      BY <1>1, <2>1 DEF Asked, Commands
    <2>2. CASE j.cmd.kind # "capture"
      <3>1. j.snap \in Snapshots
        BY <1>1, <2>2 DEF JobInv, VerdictInv, SnapshotInv, Started, Capturing
      <3> QED
        BY <2>2, <3>1 DEF Asked, Snapshots
    <2> QED
      BY <2>1, <2>2
  <1>3. j.todo # {} /\ j.todo \subseteq Asked(j)
    BY <1>1 DEF JobInv, ProofInv, CaptureSteps
  <1> QED
    BY <1>2, <1>3, LeastIn

LEMMA ProofMoves ==
    ASSUME TypeInv, NEW c \in Clients, JobInv(job[c]), CallProof(c)
    PROVE  Moves(c)
  <1> DEFINE j == job[c]
             a == Least(j.todo)
             b == Canonical(NumberOf[j.header])
             answer == [proof |-> StateOf[b][a], code |-> None]
             got == Entered(j.got, a, answer)
             next == [j EXCEPT !.pc = "code", !.got = got]
  <1>1. j \in Jobs /\ JobInv(j) /\ j.pc = "proof" /\ j.ok = FALSE
    BY DEF TypeInv, CallProof, At, JobInv, ShapeInv, Jobs
  <1>2. Check(c, VerifyAccount(j.header, b), next)
    BY DEF CallProof
  <1>3. /\ Asked(j) \subseteq Accounts /\ j.todo # {} /\ j.todo \subseteq Asked(j)
        /\ a \in j.todo /\ a \in Accounts
    BY <1>1, AskedAccounts
  <1> HIDE DEF j, a, b
  <1>4. /\ DOMAIN got = DOMAIN j.got \cup {a} /\ got[a] = answer
        /\ \A x \in DOMAIN j.got \ {a} : got[x] = j.got[x]
    BY DEF Entered
  <1>5. /\ j.got \in Proofs /\ j.header \in Blocks /\ Capturing(j)
    BY <1>1 DEF Jobs, JobInv, ShapeInv, WithHeader
  <1>6. ASSUME VerifyAccount(j.header, b)
        PROVE  next \in Jobs /\ JobInv(next)
    <2>1. answer.proof = StateOf[j.header][a]
      BY <1>6 DEF VerifyAccount
    <2>2. answer \in [proof : AccountStates, code : {s.code : s \in AccountStates} \cup {None}]
      BY <1>3, <1>5, <2>1 DEF AccountStates
    <2> HIDE DEF answer
    <2>3. got \in Proofs
      <3>1. DOMAIN j.got \subseteq Accounts
            /\ \A x \in DOMAIN j.got : j.got[x] \in
                  [proof : AccountStates, code : {s.code : s \in AccountStates} \cup {None}]
        BY <1>5, ProofsAre
      <3>2. got = [x \in DOMAIN j.got \cup {a} |-> got[x]]
        BY DEF Entered
      <3>3. \A x \in DOMAIN j.got \cup {a} : got[x] \in
                  [proof : AccountStates, code : {s.code : s \in AccountStates} \cup {None}]
        BY <1>4, <2>2, <3>1
      <3> HIDE DEF got
      <3> QED
        BY <1>3, <3>1, <3>2, <3>3, ProofsOf
    <2> HIDE DEF got
    <2>4. next \in Jobs
      BY <1>1, <2>3 DEF Jobs, Steps, Calls
    <2>5. /\ next.pc = "code" /\ next.got = got
          /\ next.header = j.header /\ next.cmd = j.cmd /\ next.todo = j.todo
          /\ next.snap = j.snap /\ next.ok = FALSE
      BY <1>1 DEF Jobs
    <2> HIDE DEF next
    <2>6. ProofInv(j) /\ j.pc \in CaptureSteps
      BY <1>1 DEF JobInv, CaptureSteps
    <2>7. /\ DOMAIN j.got = Asked(j) \ j.todo
          /\ \A x \in DOMAIN j.got : /\ j.got[x].proof = StateOf[j.header][x]
                                     /\ j.got[x].code = StateOf[j.header][x].code
      BY <1>1, <1>5, <2>6 DEF ProofInv
    <2>8. Asked(next) = Asked(j) /\ next.cmd.pin \in {None, next.header}
      BY <1>1, <2>5, CaptureFrame
    <2>9. \A x \in DOMAIN next.got :
              /\ next.got[x].proof = StateOf[next.header][x]
              /\ next.got[x].code = StateOf[next.header][x].code \/ x = Least(next.todo)
      BY <1>4, <2>1, <2>5, <2>7 DEF a
    <2>10. ProofInv(next)
      BY <1>3, <1>4, <2>5, <2>7, <2>8, <2>9 DEF ProofInv, a
    <2> QED
      BY <1>1, <2>4, <2>5, <2>10, CaptureFrame DEF JobInv
  <1> HIDE DEF next
  <1> QED
    BY <1>2, <1>6, CheckMoves

LEMMA CodeMoves ==
    ASSUME TypeInv, NEW c \in Clients, JobInv(job[c]), CallCode(c)
    PROVE  Moves(c)
  <1> DEFINE j == job[c]
             a == Least(j.todo)
             code == StateOf[Canonical(NumberOf[j.header])][a].code
             rest == j.todo \ {a}
             got == [j.got EXCEPT ![a].code = code]
             next == [j EXCEPT !.got = got, !.todo = rest,
                               !.pc = IF rest = {} THEN "after" ELSE "proof"]
  <1>1. j \in Jobs /\ JobInv(j) /\ j.pc = "code" /\ j.ok = FALSE
    BY DEF TypeInv, CallCode, At, JobInv, ShapeInv, Jobs
  <1>2. Check(c, VerifyCode(j.got[a].proof, code), next)
    BY DEF CallCode
  <1>3. /\ Asked(j) \subseteq Accounts /\ j.todo # {} /\ j.todo \subseteq Asked(j)
        /\ a \in j.todo /\ a \in Accounts
    BY <1>1, AskedAccounts
  <1> HIDE DEF j, a, code
  <1>4. /\ j.got \in Proofs /\ j.header \in Blocks /\ Capturing(j) /\ ProofInv(j)
        /\ j.pc \in CaptureSteps
    BY <1>1 DEF Jobs, JobInv, ShapeInv, WithHeader, CaptureSteps
  <1>5. /\ DOMAIN j.got = (Asked(j) \ j.todo) \cup {a}
        /\ \A x \in DOMAIN j.got : /\ j.got[x].proof = StateOf[j.header][x]
                                   /\ j.got[x].code = StateOf[j.header][x].code \/ x = a
    BY <1>1, <1>4 DEF ProofInv, a
  <1>6. /\ DOMAIN j.got \subseteq Accounts
        /\ j.got \in [DOMAIN j.got ->
              [proof : AccountStates, code : {s.code : s \in AccountStates} \cup {None}]]
    BY <1>4, ProofsAre
  <1>7. ASSUME VerifyCode(j.got[a].proof, code)
        PROVE  next \in Jobs /\ JobInv(next)
    <2>1. code = StateOf[j.header][a].code
      BY <1>5, <1>7 DEF VerifyCode
    <2>2. code \in {s.code : s \in AccountStates}
      BY <1>3, <1>4, <2>1 DEF AccountStates
    <2>3. /\ got \in [DOMAIN j.got ->
                [proof : AccountStates, code : {s.code : s \in AccountStates} \cup {None}]]
          /\ got[a].code = code /\ \A x \in DOMAIN j.got : got[x].proof = j.got[x].proof
          /\ \A x \in DOMAIN j.got \ {a} : got[x].code = j.got[x].code
      <3> DEFINE P == AccountStates
                 C == {s.code : s \in AccountStates} \cup {None}
      <3>1. a \in DOMAIN j.got /\ code \in C
        BY <1>5, <2>2
      <3>2. j.got \in [DOMAIN j.got -> [proof : P, code : C]]
        BY <1>6
      <3> HIDE DEF P, C
      <3>3. /\ got \in [DOMAIN j.got -> [proof : P, code : C]]
            /\ got[a].code = code /\ \A x \in DOMAIN j.got : got[x].proof = j.got[x].proof
            /\ \A x \in DOMAIN j.got \ {a} : got[x].code = j.got[x].code
        BY <3>1, <3>2
      <3> QED
        BY <3>3 DEF P, C
    <2>4. got \in Proofs /\ DOMAIN got = DOMAIN j.got
      BY <1>6, <2>3, ProofsOf
    <2> HIDE DEF got
    <2>5. rest \in SUBSET (Accounts \cup Keys)
      BY <1>1 DEF Jobs
    <2>6. next \in Jobs
      BY <1>1, <2>4, <2>5 DEF Jobs, Steps, Calls
    <2>7. /\ next.pc = (IF rest = {} THEN "after" ELSE "proof") /\ next.got = got /\ next.todo = rest
          /\ next.header = j.header /\ next.cmd = j.cmd
          /\ next.snap = j.snap /\ next.ok = FALSE
      BY <1>1 DEF Jobs
    <2> HIDE DEF next
    <2>8. Asked(next) = Asked(j) /\ next.cmd.pin \in {None, next.header}
      BY <1>1, <2>7, CaptureFrame
    <2>9. \A x \in DOMAIN next.got : /\ next.got[x].proof = StateOf[next.header][x]
                                     /\ next.got[x].code = StateOf[next.header][x].code
      BY <1>5, <2>1, <2>3, <2>4, <2>7
    <2>10. ProofInv(next)
      BY <1>3, <1>5, <2>4, <2>7, <2>8, <2>9 DEF ProofInv
    <2> QED
      BY <1>1, <2>6, <2>7, <2>10, CaptureFrame DEF JobInv
  <1> HIDE DEF next
  <1> QED
    BY <1>2, <1>7, CheckMoves

LEMMA AfterMoves ==
    ASSUME TypeInv, NEW c \in Clients, JobInv(job[c]), CallAfter(c)
    PROVE  Moves(c)
  <1> DEFINE j == job[c]
             next == [j EXCEPT !.pc = "finish"]
  <1>1. j \in Jobs /\ JobInv(j) /\ j.pc = "after" /\ j.ok = FALSE
    BY DEF TypeInv, CallAfter, At, JobInv, ShapeInv, Jobs
  <1>2. Check(c, SameHeader(c), next)
    BY DEF CallAfter
  <1> HIDE DEF j
  <1>3. next \in Jobs
    BY <1>1 DEF Jobs, Steps, Calls
  <1>4. /\ next.pc = "finish" /\ next.got = j.got /\ next.todo = j.todo
        /\ next.header = j.header /\ next.cmd = j.cmd /\ next.snap = j.snap /\ next.ok = FALSE
    BY <1>1 DEF Jobs
  <1> HIDE DEF next
  <1>5. ProofInv(next)
    <2>1. Asked(next) = Asked(j) /\ Capturing(j)
      BY <1>1, <1>4, CaptureFrame
    <2> QED
      BY <1>1, <1>4, <2>1 DEF JobInv, ProofInv, CaptureSteps
  <1>6. JobInv(next)
    BY <1>1, <1>4, <1>5, CaptureFrame DEF JobInv
  <1> QED
    BY <1>2, <1>3, <1>6, CheckMoves

----------------------------------------------------------------------------
(* postgres-verify                                                          *)

LEMMA NumberOfIn ==
    ASSUME NEW b \in Blocks
    PROVE  NumberOf[b] \in Numbers
  <1>1. PICK f \in Forks, n \in Numbers : Chain[f][n] = b
    BY VerificationAssumption
  <1> QED
    BY <1>1, NumberOfBlock

\* The fields of the next job of a command that succeeds.
LEMMA PassedFields ==
    ASSUME NEW c \in Clients, job[c] \in Jobs
    PROVE  /\ Passed(c) \in Jobs /\ Passed(c).pc = "done" /\ Passed(c).ok = TRUE
           /\ Passed(c).cmd = job[c].cmd /\ Passed(c).header = job[c].header
           /\ Passed(c).got = job[c].got /\ Passed(c).snap = job[c].snap
           /\ Passed(c).todo = job[c].todo
  <1> DEFINE j == job[c]
  <1>1. j \in Jobs
    OBVIOUS
  <1>2. Passed(c) = [j EXCEPT !.pc = "done", !.ok = TRUE]
    BY DEF Passed
  <1> HIDE DEF j
  <1>3. Passed(c) \in Jobs
    BY <1>1, <1>2 DEF Jobs, Steps
  <1> QED
    BY <1>1, <1>2, <1>3 DEF Jobs, j

LEMMA SnapshotTyped ==
    ASSUME TypeInv, tables.head # None, NEW cmd
    PROVE  /\ Snapshot(cmd) \in Snapshots
           /\ DOMAIN Snapshot(cmd).cell \subseteq Keys \cup (Snapshot(cmd).accounts \X {"meta", "code"})
  <1> DEFINE accounts == SnapshotAccounts(cmd)
             storage == SnapshotStorage(cmd)
             cell == [k \in storage \cup (accounts \X {"meta", "code"}) |-> tables.cell[k]]
  <1>1. accounts \subseteq Accounts /\ storage \subseteq Keys
    BY DEF SnapshotAccounts, SnapshotStorage
  <1>2. tables.head \in Numbers /\ tables.cell \in [Cells -> Rows] /\ stream \in Forks
    BY DEF TypeInv
  <1>3. Chain[stream][tables.head] \in Blocks
    BY <1>2, NumberOfBlock
  <1>4. Snapshot(cmd) = [block |-> Chain[stream][tables.head], number |-> tables.head,
                         accounts |-> accounts, cell |-> cell]
    BY DEF Snapshot
  <1> HIDE DEF accounts, storage
  <1>5. storage \cup (accounts \X {"meta", "code"}) \subseteq Cells
    BY <1>1 DEF Cells
  <1>6. cell \in [storage \cup (accounts \X {"meta", "code"}) -> Rows]
    BY <1>2, <1>5
  <1>7. DOMAIN cell = storage \cup (accounts \X {"meta", "code"})
    OBVIOUS
  <1> HIDE DEF cell
  <1>8. cell \in UNION {[S -> Rows] : S \in SUBSET Cells}
    BY <1>5, <1>6
  <1> QED
    BY <1>1, <1>2, <1>3, <1>4, <1>7, <1>8 DEF Snapshots

LEMMA StartVerifyMoves ==
    ASSUME TypeInv, NEW c \in Clients, NEW cmd \in Commands, StartVerify(c, cmd)
    PROVE  Moves(c)
  <1> DEFINE snap == Snapshot(cmd)
             full == [cmd EXCEPT !.block = tables.head]
             next == [Idle EXCEPT !.pc = "finalized", !.cmd = full, !.snap = snap,
                                  !.todo = snap.accounts]
  <1>1. CASE tables.head = None \/ (cmd.selected # None /\ SnapshotAccounts(cmd) = {})
    BY <1>1, FailMoves DEF StartVerify
  <1>2. CASE ~(tables.head = None \/ (cmd.selected # None /\ SnapshotAccounts(cmd) = {}))
    <2>1. Check(c, ValidSnapshot(snap) /\ cmd.block \in {None, tables.head}, next)
      BY <1>2 DEF StartVerify
    <2>2. /\ snap \in Snapshots /\ snap.accounts \subseteq Accounts
          /\ DOMAIN snap.cell \subseteq Keys \cup (snap.accounts \X {"meta", "code"})
      <3>1. snap \in Snapshots
            /\ DOMAIN snap.cell \subseteq Keys \cup (snap.accounts \X {"meta", "code"})
        BY <1>2, SnapshotTyped
      <3> HIDE DEF snap
      <3> QED
        BY <3>1 DEF Snapshots
    <2>3. full \in Commands /\ full.kind = "postgres"
      <3>1. tables.head \in Numbers /\ cmd.kind = "postgres"
        BY <1>2 DEF TypeInv, StartVerify
      <3> QED
        BY <3>1 DEF Commands
    <2> HIDE DEF snap, full
    <2>4. next \in Jobs
      BY <2>2, <2>3, IdleInv DEF Jobs, Steps, Calls
    <2>5. /\ next.pc = "finalized" /\ next.cmd = full /\ next.snap = snap /\ next.todo = snap.accounts
          /\ next.got = <<>> /\ next.ok = FALSE
      BY DEF Idle
    <2> HIDE DEF next
    <2>6. ASSUME ValidSnapshot(snap)
          PROVE  JobInv(next)
      <3>1. SnapshotInv(snap)
        BY <2>2, <2>6 DEF SnapshotInv, ValidSnapshot
      <3>2. ShapeInv(next)
        BY <2>3, <2>5 DEF ShapeInv, Started, WithHeader
      <3>3. ProofInv(next)
        BY <2>3, <2>5, <3>1, NoProofs DEF ProofInv, Asked, SnapshotInv, CaptureSteps
      <3>4. VerdictInv(next) /\ SourceInv(next) /\ SampleInv(next) /\ ViewInv(next)
        BY <2>3, <2>5, <3>1 DEF VerdictInv, SourceInv, SampleInv, ViewInv, Started, WithHeader
      <3> QED
        BY <3>2, <3>3, <3>4 DEF JobInv
    <2> QED
      BY <2>1, <2>4, <2>6, CheckMoves
  <1> QED
    BY <1>1, <1>2

\* What verify concludes from the metadata and, of a complete snapshot, from
\* the roots.
LEMMA VerifyMoves ==
    ASSUME TypeInv, NEW c \in Clients, JobInv(job[c]), Verify(c)
    PROVE  Moves(c)
  <1> DEFINE j == job[c]
             snap == j.snap
             agrees == /\ snap.block = j.header
                       /\ \A a \in snap.accounts :
                             /\ MetadataMatches(snap, a, j.got[a].proof)
                             /\ j.cmd.complete => StorageRootMatches(snap, a, j.got[a].proof)
             asked == [j EXCEPT !.todo = Storage(snap),
                                !.pc = IF Storage(snap) = {} THEN "same" ELSE "sample"]
             next == IF j.cmd.complete THEN Passed(c) ELSE asked
  <1>1. j \in Jobs /\ JobInv(j) /\ j.pc = "finish" /\ j.cmd.kind = "postgres" /\ j.ok = FALSE
    BY DEF TypeInv, Verify, At, JobInv, ShapeInv, Jobs
  <1>2. Check(c, agrees, next)
    BY DEF Verify
  <1>3. /\ Passed(c) \in Jobs /\ Passed(c).pc = "done" /\ Passed(c).ok = TRUE
        /\ Passed(c).cmd = j.cmd /\ Passed(c).header = j.header /\ Passed(c).snap = j.snap
    BY <1>1, PassedFields
  <1> HIDE DEF j
  <1>4. /\ SnapshotInv(snap) /\ j.header \in Blocks /\ j.cmd \in Commands
        /\ \A a \in snap.accounts : j.got[a].proof = StateOf[j.header][a]
    BY <1>1 DEF JobInv, ShapeInv, VerdictInv, ProofInv, Started, WithHeader, CaptureSteps, Capturing,
                Asked
  <1>5. Storage(snap) \in SUBSET (Accounts \cup Keys)
    BY DEF Storage
  <1>6. /\ asked \in Jobs /\ asked.pc = (IF Storage(snap) = {} THEN "same" ELSE "sample")
        /\ asked.todo = Storage(snap) /\ asked.cmd = j.cmd /\ asked.header = j.header
        /\ asked.snap = snap /\ asked.ok = FALSE
    BY <1>1, <1>5 DEF Jobs, Steps, Calls
  <1> HIDE DEF asked
  <1>7. ASSUME agrees
        PROVE  JobInv(next)
    <2>1. \A k \in DOMAIN snap.cell \ Keys : snap.cell[k].value = Value(j.header, k)
      <3> SUFFICES ASSUME NEW k \in DOMAIN snap.cell \ Keys
                   PROVE  snap.cell[k].value = Value(j.header, k)
        OBVIOUS
      <3>1. k \in snap.accounts \X {"meta", "code"}
        BY <1>4 DEF SnapshotInv
      <3>2. PICK a \in snap.accounts, f \in {"meta", "code"} : k = <<a, f>>
        BY <3>1
      <3>3. snap.cell[<<a, f>>].value = StateOf[j.header][a][f]
        BY <1>4, <1>7 DEF MetadataMatches
      <3> QED
        BY <3>2, <3>3 DEF Value
    <2>2. CASE j.cmd.complete
      <3>1. next = Passed(c)
        BY <2>2
      <3> HIDE DEF next
      <3>2. ShapeInv(next) /\ ProofInv(next)
        BY <1>1, <1>3, <1>4, <3>1 DEF ShapeInv, ProofInv, Started, WithHeader, CaptureSteps
      <3>3. VerdictInv(next)
        BY <1>3, <1>4, <1>7, <2>1, <3>1 DEF VerdictInv
      <3>4. SourceInv(next) /\ SampleInv(next)
        BY <1>1, <1>3, <2>2, <3>1 DEF SourceInv, SampleInv
      <3>5. ViewInv(next)
        BY <1>1, <1>3, <3>1 DEF JobInv, ViewInv, WithHeader
      <3> QED
        BY <3>2, <3>3, <3>4, <3>5 DEF JobInv
    <2>3. CASE ~j.cmd.complete
      <3>1. next = asked
        BY <2>3
      <3> HIDE DEF next
      <3>2. ShapeInv(next) /\ ProofInv(next)
        BY <1>1, <1>4, <1>6, <3>1 DEF ShapeInv, ProofInv, Started, WithHeader, CaptureSteps
      <3>3. VerdictInv(next)
        BY <1>4, <1>6, <1>7, <2>1, <2>3, <3>1 DEF VerdictInv
      <3>4. SourceInv(next) /\ SampleInv(next)
        BY <1>1, <1>6, <3>1 DEF SourceInv, SampleInv, Right, Target
      <3>5. ViewInv(next)
        BY <1>1, <1>6, <3>1 DEF JobInv, ViewInv, WithHeader
      <3> QED
        BY <3>2, <3>3, <3>4, <3>5 DEF JobInv
    <2> QED
      BY <2>2, <2>3
  <1>8. next \in Jobs
    BY <1>3, <1>6
  <1> HIDE DEF next, agrees
  <1> QED
    BY <1>2, <1>7, <1>8, CheckMoves

----------------------------------------------------------------------------
(* Unproved answers                                                         *)

\* An answer of the header's own block is right; an answer of another block is
\* one after a change of forks.
LEMMA SampleMoves ==
    ASSUME TypeInv, NEW c \in Clients, JobInv(job[c]), CallSample(c)
    PROVE  Moves(c)
  <1> DEFINE j == job[c]
             k == CHOOSE x \in j.todo : \A y \in j.todo \ {x} : Before(x, y)
             rest == j.todo \ {k}
             answered == Value(Canonical(NumberOf[j.header]), k) = Claimed(c, k)
             next == [j EXCEPT !.todo = rest, !.pc = IF rest = {} THEN "same" ELSE "sample"]
  <1>1. j \in Jobs /\ JobInv(j) /\ j.pc = "sample" /\ j.ok = FALSE
    BY DEF TypeInv, CallSample, At, JobInv, ShapeInv, Jobs
  <1>2. Check(c, answered, next)
    BY DEF CallSample
  <1>3. Claimed(c, k) = IF j.cmd.kind = "postgres" THEN j.snap.cell[k].value
                        ELSE Row(NumberOf[j.header], k)
    BY DEF Claimed
  <1> HIDE DEF j, k
  <1>4. rest \in SUBSET (Accounts \cup Keys)
    BY <1>1 DEF Jobs
  <1>5. next \in Jobs
    BY <1>1, <1>4 DEF Jobs, Steps, Calls
  <1>6. /\ next.pc = (IF rest = {} THEN "same" ELSE "sample") /\ next.todo = rest
        /\ next.cmd = j.cmd /\ next.header = j.header /\ next.snap = j.snap /\ next.ok = FALSE
    BY <1>1 DEF Jobs
  <1> HIDE DEF next
  <1>7. ASSUME answered
        PROVE  JobInv(next)
    <2>1. ShapeInv(next) /\ ProofInv(next)
      BY <1>1, <1>6 DEF JobInv, ShapeInv, ProofInv, Started, WithHeader, CaptureSteps
    <2>2. VerdictInv(next) /\ SourceInv(next) /\ ViewInv(next)
      BY <1>1, <1>6 DEF JobInv, VerdictInv, SourceInv, ViewInv, Started, WithHeader
    <2>3. Target(next) = Target(j) /\ \A S : Right(next, S) <=> Right(j, S)
      BY <1>6 DEF Target, Right
    <2>4. Served(j.header) => Right(j, {k})
      BY <1>3, <1>7 DEF Served, Canonical, Right
    <2>5. Right(j, Target(j) \ j.todo) /\ Right(j, {k}) => Right(j, Target(j) \ rest)
      BY DEF Right
    <2>6. Right(j, Target(j) \ j.todo) \/ switches > 1 \/ ~Served(j.header)
      BY <1>1 DEF JobInv, SampleInv
    <2>7. Right(next, Target(next) \ rest) \/ switches > 1 \/ ~Served(j.header)
      BY <2>3, <2>4, <2>5, <2>6
    <2>8. SampleInv(next)
      BY <1>6, <2>7 DEF SampleInv
    <2> QED
      BY <2>1, <2>2, <2>8 DEF JobInv
  <1> HIDE DEF answered
  <1> QED
    BY <1>2, <1>5, <1>7, CheckMoves

\* The header read after the last answer.
LEMMA SameMoves ==
    ASSUME TypeInv, NEW c \in Clients, JobInv(job[c]), CallSame(c)
    PROVE  Moves(c)
  <1> DEFINE j == job[c]
             finish == [j EXCEPT !.pc = "finish"]
             next == IF j.cmd.kind = "postgres" THEN Passed(c) ELSE finish
  <1>1. j \in Jobs /\ JobInv(j) /\ j.pc = "same" /\ j.ok = FALSE
    BY DEF TypeInv, CallSame, At, JobInv, ShapeInv, Jobs
  <1>2. Check(c, Recheck(c), next)
    BY DEF CallSame
  <1>3. /\ Passed(c) \in Jobs /\ Passed(c).pc = "done" /\ Passed(c).ok = TRUE
        /\ Passed(c).cmd = j.cmd /\ Passed(c).header = j.header /\ Passed(c).snap = j.snap
    BY <1>1, PassedFields
  <1>4. Recheck(c) => Served(j.header)
    BY DEF Recheck, SameHeader, Canonical, Served
  <1> HIDE DEF j
  <1>5. /\ finish \in Jobs /\ finish.pc = "finish" /\ finish.cmd = j.cmd /\ finish.header = j.header
        /\ finish.snap = j.snap /\ finish.ok = FALSE
    BY <1>1 DEF Jobs, Steps
  <1> HIDE DEF finish
  <1>6. j.cmd.kind \in {"postgres", "updates"} /\ j.todo = {} /\ j.cmd \in Commands
        /\ j.header \in Blocks
    BY <1>1 DEF JobInv, ShapeInv, SampleInv, Started, WithHeader
  <1>7. ASSUME Recheck(c)
        PROVE  JobInv(next)
    <2>1. Right(j, Target(j)) \/ switches > 1
      BY <1>1, <1>4, <1>6, <1>7 DEF JobInv, SampleInv, Right
    <2>2. CASE j.cmd.kind = "postgres"
      <3>1. next = Passed(c)
        BY <2>2
      <3> HIDE DEF next
      <3>2. ShapeInv(next) /\ ProofInv(next)
        BY <1>3, <1>6, <2>2, <3>1 DEF ShapeInv, ProofInv, Started, WithHeader, CaptureSteps
      <3>3. VerdictInv(next) /\ SourceInv(next)
        BY <1>1, <1>3, <2>2, <3>1 DEF JobInv, VerdictInv, SourceInv, Started
      <3>4. Right(next, Target(next)) <=> Right(j, Target(j))
        BY <1>3, <3>1 DEF Right, Target
      <3>5. SampleInv(next) /\ ViewInv(next)
        BY <1>1, <1>3, <2>1, <3>1, <3>4 DEF JobInv, SampleInv, ViewInv, WithHeader
      <3> QED
        BY <3>2, <3>3, <3>5 DEF JobInv
    <2>3. CASE j.cmd.kind # "postgres"
      <3>1. next = finish /\ j.cmd.kind = "updates"
        BY <1>6, <2>3
      <3> HIDE DEF next
      <3>2. ShapeInv(next) /\ ProofInv(next)
        BY <1>5, <1>6, <3>1 DEF ShapeInv, ProofInv, Started, WithHeader, Capturing
      <3>3. VerdictInv(next) /\ SourceInv(next)
        BY <1>1, <1>5, <3>1 DEF JobInv, VerdictInv, SourceInv
      <3>4. Right(next, Target(next)) <=> Right(j, Target(j))
        BY <1>5, <3>1 DEF Right, Target
      <3>5. SampleInv(next) /\ ViewInv(next)
        BY <1>1, <1>5, <2>1, <3>1, <3>4 DEF JobInv, SampleInv, ViewInv, WithHeader
      <3> QED
        BY <3>2, <3>3, <3>5 DEF JobInv
    <2> QED
      BY <2>2, <2>3
  <1>8. next \in Jobs
    BY <1>3, <1>5
  <1> HIDE DEF next
  <1> QED
    BY <1>2, <1>7, <1>8, CheckMoves

----------------------------------------------------------------------------
(* Commands that start, and outputs                                         *)

\* Cells that the source observed up to a block.
LEMMA ObservedCells ==
    ASSUME TypeInv, NEW n \in Numbers
    PROVE  Observed(n) \subseteq Cells
  <1>1. \A m \in 1..n : m \in Numbers \ {0}
    BY VerificationAssumption DEF Numbers
  <1>2. \A m \in 1..n : Touched[stream][m] \subseteq Cells
    BY <1>1 DEF Touched, TypeInv
  <1> QED
    BY <1>2 DEF Observed

LEMMA StartUpdatesMoves ==
    ASSUME TypeInv, DiskInv, NEW c \in Clients, NEW cmd \in Commands, StartUpdates(c, cmd)
    PROVE  Moves(c)
  <1> DEFINE h == bundle.header
             slots == Observed(NumberOf[h]) \cap Keys
             ready == /\ report = None /\ ~Locked /\ Interval(h)
                      /\ DOMAIN bundle.accounts = Accounts
                      /\ \A a \in Accounts :
                            /\ bundle.accounts[a].proof = StateOf[h][a]
                            /\ VerifyCode(bundle.accounts[a].proof, bundle.accounts[a].code)
                      /\ FieldsMatch(bundle)
             next == [Idle EXCEPT !.cmd = cmd, !.header = h, !.todo = slots,
                                  !.pc = IF slots = {} THEN "same" ELSE "sample"]
  <1>1. Check(c, ready, next) /\ cmd.kind = "updates" /\ bundle # None
    BY DEF StartUpdates
  <1>2. h \in Blocks
    BY <1>1 DEF TypeInv, Bundles
  <1>3. Observed(NumberOf[h]) \subseteq Cells
    BY <1>2, NumberOfIn, ObservedCells
  <1>4. switches = 0 => Served(h)
    BY <1>1 DEF DiskInv
  <1>5. ASSUME ready, NEW cell \in Observed(NumberOf[h]) \ Keys
        PROVE  Row(NumberOf[h], cell) = Value(h, cell)
    <2>1. Row(NumberOf[h], cell) = bundle.accounts[cell[1]].proof[cell[2]]
      BY <1>5 DEF FieldsMatch
    <2>2. cell[1] \in Accounts
      BY <1>3 DEF Cells
    <2>3. bundle.accounts[cell[1]].proof = StateOf[h][cell[1]]
      BY <1>5, <2>2
    <2> QED
      BY <2>1, <2>3 DEF Value
  <1>6. slots \in SUBSET (Accounts \cup Keys)
    OBVIOUS
  <1>7. ready => Interval(h)
    OBVIOUS
  <1> HIDE DEF h, ready
  <1>8. next \in Jobs
    BY <1>2, <1>6, IdleInv DEF Jobs, Steps, Calls
  <1>9. /\ next.pc = (IF slots = {} THEN "same" ELSE "sample") /\ next.cmd = cmd /\ next.header = h
        /\ next.todo = slots /\ next.ok = FALSE
    BY DEF Idle
  <1> HIDE DEF next
  <1>10. ASSUME ready
         PROVE  JobInv(next)
    <2>1. ShapeInv(next) /\ ProofInv(next)
      BY <1>1, <1>2, <1>9 DEF ShapeInv, ProofInv, Started, WithHeader, CaptureSteps
    <2>2. VerdictInv(next) /\ SourceInv(next)
      BY <1>1, <1>5, <1>7, <1>9, <1>10 DEF VerdictInv, SourceInv
    <2>3. SampleInv(next)
      BY <1>1, <1>9 DEF SampleInv, Right, Target
    <2>4. ViewInv(next)
      BY <1>4, <1>9 DEF ViewInv
    <2> QED
      BY <2>1, <2>2, <2>3, <2>4 DEF JobInv
  <1> QED
    BY <1>1, <1>8, <1>10, CheckMoves

LEMMA StartCaptureMoves ==
    ASSUME TypeInv, NEW c \in Clients, NEW cmd \in Commands, StartCapture(c, cmd)
    PROVE  Moves(c)
  <1> DEFINE next == [Idle EXCEPT !.pc = "finalized", !.cmd = cmd, !.todo = cmd.accounts]
  <1>1. Check(c, bundle = None, next) /\ cmd.kind = "capture"
    BY DEF StartCapture
  <1>2. cmd.accounts \in SUBSET Accounts /\ cmd.accounts # {}
    BY DEF Commands
  <1>3. next \in Jobs
    BY <1>2, IdleInv DEF Jobs, Steps, Calls
  <1>4. /\ next.pc = "finalized" /\ next.cmd = cmd /\ next.todo = cmd.accounts /\ next.got = <<>>
        /\ next.ok = FALSE
    BY DEF Idle
  <1> HIDE DEF next
  <1>5. ShapeInv(next)
    BY <1>1, <1>4 DEF ShapeInv, Started, WithHeader
  <1>6. ProofInv(next)
    BY <1>1, <1>2, <1>4, NoProofs DEF ProofInv, Asked
  <1>7. VerdictInv(next) /\ SourceInv(next) /\ SampleInv(next) /\ ViewInv(next)
    BY <1>1, <1>4 DEF VerdictInv, SourceInv, SampleInv, ViewInv, WithHeader
  <1> QED
    BY <1>1, <1>3, <1>5, <1>6, <1>7, CheckMoves DEF JobInv

LEMMA StartOutputMoves ==
    ASSUME TypeInv, NEW c \in Clients, NEW cmd \in Commands, StartOutput(c, cmd)
    PROVE  Moves(c)
  <1> DEFINE full == [cmd EXCEPT !.block = Last]
             next == [Idle EXCEPT !.pc = "finalized", !.cmd = full]
  <1>1. Check(c, report = None /\ ~Locked, next) /\ cmd.kind = "output"
    BY DEF StartOutput
  <1>2. full \in Commands /\ full.kind = "output"
    <2>1. Last \in Numbers
      BY VerificationAssumption DEF Numbers
    <2> QED
      BY <1>1, <2>1 DEF Commands
  <1> HIDE DEF full
  <1>3. next \in Jobs
    BY <1>2, IdleInv DEF Jobs, Steps, Calls
  <1>4. next.pc = "finalized" /\ next.cmd = full /\ next.ok = FALSE
    BY DEF Idle
  <1> HIDE DEF next
  <1>5. JobInv(next)
    BY <1>2, <1>4 DEF JobInv, ShapeInv, ProofInv, VerdictInv, SourceInv, SampleInv, ViewInv, Started,
                      WithHeader, Capturing
  <1> QED
    BY <1>1, <1>3, <1>5, CheckMoves

\* A command whose output is linked.
LEMMA WriteMoves ==
    ASSUME TypeInv, NEW c \in Clients, JobInv(job[c]), WriteBundle(c) \/ WriteReport(c)
    PROVE  Moves(c)
  <1> DEFINE j == job[c]
  <1>1. j \in Jobs /\ JobInv(j) /\ j.pc = "finish" /\ j.ok = FALSE
        /\ j.cmd.kind \in {"capture", "updates", "output"}
    BY DEF TypeInv, WriteBundle, WriteReport, At, JobInv, ShapeInv, Jobs
  <1>2. Put(c, Failed) \/ Put(c, Passed(c))
    BY DEF WriteBundle, WriteReport
  <1>3. /\ Passed(c) \in Jobs /\ Passed(c).pc = "done" /\ Passed(c).ok = TRUE
        /\ Passed(c).cmd = j.cmd /\ Passed(c).header = j.header /\ Passed(c).got = j.got
    BY <1>1, PassedFields
  <1> DEFINE next == Passed(c)
  <1> HIDE DEF j, next
  <1>4. ShapeInv(next)
    BY <1>1, <1>3 DEF JobInv, ShapeInv, Started, WithHeader, next
  <1>5. ProofInv(next)
    BY <1>1, <1>3 DEF JobInv, ProofInv, CaptureSteps, Capturing, Asked, next
  <1>6. VerdictInv(next) /\ SourceInv(next) /\ SampleInv(next) /\ ViewInv(next)
    BY <1>1, <1>3 DEF JobInv, VerdictInv, SourceInv, SampleInv, ViewInv, WithHeader, next
  <1>7. JobInv(Passed(c))
    BY <1>4, <1>5, <1>6 DEF JobInv, next
  <1> QED
    BY <1>2, <1>3, <1>7, FailMoves DEF Moves, Put

----------------------------------------------------------------------------
(* All steps                                                                *)

\* A command changes its own job, and besides only an output.
LEMMA ClientMoves ==
    ASSUME TypeInv, DiskInv, NEW c \in Clients, JobInv(job[c]), Launch(c) \/ Step(c)
    PROVE  Moves(c) /\ UNCHANGED <<view, finalized, switches, stream, tables, defect>>
  <1> USE DEF provider, local
  <1>1. CASE Launch(c)
    <2>1. PICK cmd \in Options[c] : \/ StartCapture(c, cmd) \/ StartVerify(c, cmd)
                                    \/ StartUpdates(c, cmd) \/ StartOutput(c, cmd)
      BY <1>1 DEF Launch
    <2>2. cmd \in Commands
      BY VerificationAssumption
    <2>3. Moves(c)
      BY <2>1, <2>2, StartCaptureMoves, StartVerifyMoves, StartUpdatesMoves, StartOutputMoves
    <2> QED
      BY <2>1, <2>3 DEF StartCapture, StartVerify, StartUpdates, StartOutput
  <1>2. CASE Step(c)
    <2>1. UNCHANGED <<view, finalized, switches, stream, tables, defect>>
      BY <1>2 DEF Step, CallFails, CallFinalized, CallHeader, CallProof, CallCode, CallAfter,
                  CallSample, CallSame, WriteBundle, Verify, WriteReport
    <2>2. CASE CallFails(c)
      BY <2>1, <2>2, FailMoves DEF CallFails
    <2> QED
      BY <1>2, <2>1, <2>2, FinalizedMoves, HeaderMoves, ProofMoves, CodeMoves, AfterMoves,
         SampleMoves, SameMoves, WriteMoves, VerifyMoves DEF Step
  <1> QED
    BY <1>1, <1>2

\* The provider changes forks: the first time every sampled slot was right.
LEMMA SwitchKeeps ==
    ASSUME TypeInv, NEW c \in Clients, JobInv(job[c]), NEW f \in Forks, Switch(f)
    PROVE  JobInv(job[c])'
  <1> DEFINE j == job[c]
  <1>1. /\ job' = job /\ stream' = stream /\ defect' = defect
        /\ switches \in Nat /\ switches' = switches + 1
    BY DEF Switch, local, TypeInv
  <1>2. ShapeInv(job[c])' /\ ProofInv(job[c])' /\ VerdictInv(job[c])' /\ SourceInv(job[c])'
    BY <1>1 DEF JobInv, ShapeInv, ProofInv, VerdictInv, SourceInv, Started, WithHeader, Interval,
                Observed, Row, Asked, Capturing
  <1>3. switches' # 0 /\ (switches > 1 => switches' > 1) /\ (switches # 0 => switches' > 1)
    BY <1>1
  <1>4. ViewInv(job[c])'
    BY <1>3 DEF ViewInv
  <1>5. ASSUME j.pc \in {"sample", "same"}
        PROVE  Right(j, Target(j) \ j.todo) \/ switches' > 1
    <2>1. switches = 0 => Served(j.header)
      BY <1>5 DEF JobInv, ViewInv, WithHeader
    <2>2. Right(j, Target(j) \ j.todo) \/ switches > 1 \/ ~Served(j.header)
      BY <1>5 DEF JobInv, SampleInv
    <2> QED
      BY <1>3, <2>1, <2>2
  <1>6. ASSUME \/ j.ok /\ j.cmd.kind = "postgres" /\ ~j.cmd.complete
               \/ j.pc = "finish" /\ j.cmd.kind = "updates"
        PROVE  Right(j, Target(j)) \/ switches' > 1
    BY <1>3, <1>6 DEF JobInv, SampleInv
  <1>7. SampleInv(job[c])'
    <2>1. j.pc = "same" => j.todo = {}
      BY DEF JobInv, SampleInv
    <2> QED
      BY <1>1, <1>5, <1>6, <2>1 DEF SampleInv, Right, Target, Storage, Observed, Row
  <1> QED
    BY <1>2, <1>4, <1>7 DEF JobInv

\* The other steps of the provider, and those of the sink.
LEMMA TablesTyped ==
    ASSUME TypeInv, NEW n \in Numbers, n # 0
    PROVE  Upsert(n) \in [head : Numbers \cup {None}, cell : [Cells -> Rows]]
  <1>1. tables.head \in Numbers \cup {None} /\ tables.cell \in [Cells -> Rows] /\ stream \in Forks
    BY DEF TypeInv
  <1>2. Chain[stream][n] \in Blocks
    BY <1>1, NumberOfBlock
  <1>3. ASSUME NEW cell \in Cells
        PROVE  [value |-> Value(Chain[stream][n], cell), last |-> n] \in Rows
    BY <1>2 DEF Rows, Values
  <1>4. (IF tables.head = None THEN n ELSE IF n < tables.head THEN tables.head ELSE n)
            \in Numbers \cup {None}
    BY <1>1
  <1> DEFINE cells == [x \in Cells |-> IF x \in Touched[stream][n]
                                       THEN [value |-> Value(Chain[stream][n], x), last |-> n]
                                       ELSE tables.cell[x]]
  <1>5. cells \in [Cells -> Rows]
    BY <1>1, <1>3
  <1> HIDE DEF cells
  <1> QED
    BY <1>4, <1>5 DEF Upsert, cells

LEMMA EnvironmentTypes ==
    ASSUME TypeInv,
           \/ \E f \in Forks : Switch(f)
           \/ Finalize \/ Commit
           \/ \E n \in Numbers : Replay(n)
    PROVE  TypeInv' /\ UNCHANGED <<job, bundle, report, stream, defect>>
  <1> USE DEF provider, local
  <1>1. CASE \E f \in Forks : Switch(f)
    BY <1>1 DEF Switch, TypeInv
  <1>2. CASE Finalize
    <2>1. finalized' \in Numbers
      BY <1>2, VerificationAssumption DEF Finalize, TypeInv, Numbers
    <2> QED
      BY <1>2, <2>1 DEF Finalize, TypeInv
  <1>3. CASE Commit \/ \E n \in Numbers : Replay(n)
    <2>1. \E n \in Numbers : n # 0 /\ tables' = Upsert(n)
      <3>1. CASE Commit
        <4>1. SinkStart \in Nat \ {0} /\ \A m \in Numbers : m + 1 # 0
          BY VerificationAssumption DEF Numbers
        <4> DEFINE n == IF tables.head = None THEN SinkStart ELSE tables.head + 1
        <4>2. n # 0
          BY <4>1 DEF TypeInv
        <4> QED
          BY <3>1, <4>2 DEF Commit
      <3>2. CASE \E n \in Numbers : Replay(n)
        BY <3>2, VerificationAssumption DEF Replay
      <3> QED
        BY <1>3, <3>1, <3>2
    <2>2. tables' \in [head : Numbers \cup {None}, cell : [Cells -> Rows]]
      BY <2>1, TablesTyped
    <2> QED
      BY <1>3, <2>2 DEF Commit, Replay, TypeInv
  <1> QED
    BY <1>1, <1>2, <1>3

----------------------------------------------------------------------------
(* The outputs                                                              *)

\* What a client that reported success left.
Left(c) ==
    job[c].ok =>
        /\ job[c].cmd.kind = "capture" =>
              bundle = Bundle(c) /\ DOMAIN bundle.accounts = job[c].cmd.accounts
        /\ job[c].cmd.kind \notin {"capture", "postgres"} =>
              report = [kind |-> job[c].cmd.kind, header |-> job[c].header]

LEMMA SuccessIsLeft == SuccessIsOnDisk <=> \A c \in Clients : Left(c)
  BY DEF SuccessIsOnDisk, Left

\* A client's step writes no output, the bundle or the report; only a
\* postgres-verify succeeds without writing one.
LEMMA OutputStep ==
    ASSUME TypeInv, NEW c \in Clients, JobInv(job[c]), Launch(c) \/ Step(c)
    PROVE  /\ job[c].ok = FALSE
           /\ \/ /\ UNCHANGED <<bundle, report>>
                 /\ job'[c].ok => job'[c].cmd.kind = "postgres"
              \/ /\ job[c].pc = "finish" /\ job[c].cmd.kind = "capture" /\ bundle = None
                 /\ bundle' = Bundle(c) /\ job'[c] = Passed(c) /\ UNCHANGED report
              \/ /\ job[c].pc = "finish" /\ job[c].cmd.kind \in {"updates", "output"} /\ report = None
                 /\ job[c].cmd.kind = "output" => Interval(job[c].header)
                 /\ report' = [kind |-> job[c].cmd.kind, header |-> job[c].header]
                 /\ job'[c] = Passed(c) /\ UNCHANGED bundle
  <1>1. job \in [Clients -> Jobs] /\ job[c] \in Jobs /\ (job[c].ok => job[c].pc = "done")
    BY DEF TypeInv, JobInv, ShapeInv
  <1>2. job[c].pc # "done"
    BY DEF Launch, StartCapture, StartVerify, StartUpdates, StartOutput, Step, CallFails,
           CallFinalized, CallHeader, CallProof, CallCode, CallAfter, CallSample, CallSame,
           WriteBundle, Verify, WriteReport, At, Calls
  <1>3. job[c].ok = FALSE
    BY <1>1, <1>2 DEF Jobs
  <1>4. \A j : Put(c, j) => job'[c] = j
    BY <1>1 DEF Put
  <1>5. Failed.ok = FALSE /\ Idle.ok = FALSE
    BY DEF Failed, Idle
  <1>6. CASE WriteBundle(c)
    BY <1>3, <1>4, <1>5, <1>6 DEF WriteBundle, HardLink, At
  <1>7. CASE WriteReport(c)
    BY <1>3, <1>4, <1>5, <1>7 DEF WriteReport, HardLink, At
  <1>8. CASE Launch(c)
    <2>1. UNCHANGED <<bundle, report>>
      BY <1>8 DEF Launch, StartCapture, StartVerify, StartUpdates, StartOutput
    <2>2. job'[c].ok = FALSE
      BY <1>4, <1>5, <1>8 DEF Launch, StartCapture, StartVerify, StartUpdates, StartOutput, Check, Idle
    <2> QED
      BY <1>3, <2>1, <2>2
  <1>9. CASE Step(c) /\ ~WriteBundle(c) /\ ~WriteReport(c)
    <2>1. UNCHANGED <<bundle, report>>
      BY <1>9 DEF Step, CallFails, CallFinalized, CallHeader, CallProof, CallCode, CallAfter,
                  CallSample, CallSame, Verify
    <2>2. Passed(c).cmd = job[c].cmd
      BY <1>1, PassedFields
    <2>3. CASE CallFails(c) \/ CallFinalized(c) \/ CallHeader(c)
      BY <1>1, <1>3, <1>4, <1>5, <2>1, <2>3
         DEF CallFails, CallFinalized, CallHeader, Headed, Check, Jobs
    <2>4. CASE CallProof(c) \/ CallCode(c) \/ CallAfter(c) \/ CallSample(c)
      BY <1>1, <1>3, <1>4, <1>5, <2>1, <2>4
         DEF CallProof, CallCode, CallAfter, CallSample, Check, Jobs
    <2>5. CASE CallSame(c)
      BY <1>1, <1>3, <1>4, <1>5, <2>1, <2>2, <2>5 DEF CallSame, Check, Jobs
    <2>6. CASE Verify(c)
      BY <1>1, <1>3, <1>4, <1>5, <2>1, <2>2, <2>6 DEF Verify, Check, Jobs
    <2> QED
      BY <1>9, <2>3, <2>4, <2>5, <2>6 DEF Step
  <1> QED
    BY <1>6, <1>7, <1>8, <1>9

\* The bundle that a finished capture holds.
LEMMA BundleTyped ==
    ASSUME TypeInv, NEW c \in Clients, JobInv(job[c]), job[c].pc = "finish" \/ job[c].ok
    PROVE  Bundle(c) \in Bundles /\ Bundle(c) # None
  <1>1. job[c] \in Jobs
    BY DEF TypeInv
  <1>2. job[c].header \in Blocks /\ job[c].cmd \in Commands /\ job[c].got \in Proofs
    BY <1>1 DEF JobInv, ShapeInv, Started, WithHeader, Jobs
  <1>3. Bundle(c) \in Bundles
    BY <1>2 DEF Bundle, Bundles, Commands
  <1> QED
    BY <1>3, Distinct

LEMMA ReportTyped ==
    ASSUME TypeInv, NEW c \in Clients, JobInv(job[c]), job[c].pc = "finish" \/ job[c].ok,
           job[c].cmd.kind \notin {"capture", "postgres"}
    PROVE  /\ [kind |-> job[c].cmd.kind, header |-> job[c].header] \in Reports
           /\ [kind |-> job[c].cmd.kind, header |-> job[c].header] # None
  <1>1. job[c].header \in Blocks /\ job[c].cmd \in Commands
    BY DEF JobInv, ShapeInv, Started, WithHeader
  <1>2. [kind |-> job[c].cmd.kind, header |-> job[c].header] \in Reports
    BY <1>1 DEF Reports, Commands
  <1> QED
    BY <1>2, Distinct

LEMMA ClientDisk ==
    ASSUME VerifierInv, NEW c \in Clients, Launch(c) \/ Step(c)
    PROVE  DiskInv' /\ bundle' \in Bundles \cup {None} /\ report' \in Reports \cup {None}
  <1>1. TypeInv /\ DiskInv /\ \A d \in Clients : JobInv(job[d])
    BY DEF VerifierInv
  <1>2. Moves(c) /\ UNCHANGED <<view, finalized, switches, stream, tables, defect>>
    BY <1>1, ClientMoves
  <1>3. \A d \in Clients \ {c} : job'[d] = job[d]
    BY <1>1, <1>2 DEF Moves, TypeInv
  <1>4. job[c].ok = FALSE /\ JobInv(job[c]) /\ job[c] \in Jobs
    BY <1>1, OutputStep DEF TypeInv
  <1>5. \A d \in Clients : Left(d)
    BY <1>1, SuccessIsLeft DEF DiskInv
  <1>6. CASE UNCHANGED <<bundle, report>> /\ (job'[c].ok => job'[c].cmd.kind = "postgres")
    <2>1. \A d \in Clients : Left(d)'
      BY <1>3, <1>5, <1>6 DEF Left, Bundle
    <2>2. SuccessIsOnDisk'
      BY <2>1, SuccessIsLeft DEF SuccessIsOnDisk, Left, Bundle
    <2>3. BundleSound' /\ (bundle' # None /\ switches' = 0 => Served(bundle.header)')
      BY <1>1, <1>2, <1>6 DEF DiskInv, BundleSound, Served
    <2>4. ReportTrue'
      BY <1>1, <1>2, <1>6 DEF DiskInv, ReportTrue, OneWay, Observed, Row
    <2> QED
      BY <1>1, <1>6, <2>2, <2>3, <2>4 DEF DiskInv, TypeInv
  <1>7. CASE /\ job[c].pc = "finish" /\ job[c].cmd.kind = "capture" /\ bundle = None
             /\ bundle' = Bundle(c) /\ job'[c] = Passed(c) /\ UNCHANGED report
    <2>1. bundle' \in Bundles
      BY <1>1, <1>7, BundleTyped
    <2>2. /\ bundle'.header = job[c].header /\ bundle'.accounts = job[c].got
          /\ bundle'.pin = job[c].cmd.pin
      BY <1>7 DEF Bundle
    <2>3. /\ job[c].cmd.pin \in {None, job[c].header} /\ DOMAIN job[c].got = job[c].cmd.accounts
          /\ \A a \in DOMAIN job[c].got : /\ job[c].got[a].proof = StateOf[job[c].header][a]
                                          /\ job[c].got[a].code = StateOf[job[c].header][a].code
      BY <1>4, <1>7 DEF JobInv, ProofInv, CaptureSteps, Capturing, Asked
    <2>4. BundleSound'
      BY <2>2, <2>3 DEF BundleSound
    <2>5. switches' = 0 => Served(bundle.header)'
      BY <1>2, <1>4, <1>7, <2>2 DEF JobInv, ViewInv, WithHeader, Served
    <2>6. ASSUME NEW d \in Clients \ {c}
          PROVE  Left(d)'
      <3>1. job[d].ok => job[d].cmd.kind # "capture"
        BY <1>1, <1>5, <1>7, BundleTyped DEF Left
      <3> QED
        BY <1>3, <1>5, <1>7, <3>1 DEF Left
    <2>7. Left(c)'
      <3>1. /\ job'[c].cmd = job[c].cmd /\ job'[c].header = job[c].header
            /\ job'[c].got = job[c].got
        BY <1>4, <1>7, PassedFields
      <3>2. bundle' = [header |-> job'[c].header, accounts |-> job'[c].got, pin |-> job'[c].cmd.pin]
        BY <1>7, <3>1 DEF Bundle
      <3> QED
        BY <1>7, <2>2, <2>3, <3>1, <3>2 DEF Left, Bundle
    <2>8. SuccessIsOnDisk'
      BY <2>6, <2>7 DEF SuccessIsOnDisk, Left
    <2>9. ReportTrue'
      BY <1>1, <1>2, <1>7 DEF DiskInv, ReportTrue, OneWay, Observed, Row
    <2> QED
      BY <1>1, <1>7, <2>1, <2>4, <2>5, <2>8, <2>9 DEF DiskInv, TypeInv
  <1>8. CASE /\ job[c].pc = "finish" /\ job[c].cmd.kind \in {"updates", "output"} /\ report = None
             /\ job[c].cmd.kind = "output" => Interval(job[c].header)
             /\ report' = [kind |-> job[c].cmd.kind, header |-> job[c].header]
             /\ job'[c] = Passed(c) /\ UNCHANGED bundle
    <2> DEFINE h == job[c].header
    <2>1. report' \in Reports
      BY <1>1, <1>8, ReportTyped
    <2>2. report'.kind = job[c].cmd.kind /\ report'.header = h
      BY <1>8
    <2>3. ASSUME NEW d \in Clients \ {c}
          PROVE  Left(d)'
      <3>1. job[d].ok => job[d].cmd.kind \in {"capture", "postgres"}
        BY <1>1, <1>5, <1>8, ReportTyped DEF Left
      <3> QED
        BY <1>3, <1>5, <1>8, <3>1 DEF Left, Bundle
    <2>4. Left(c)'
      <3>1. job'[c].cmd = job[c].cmd /\ job'[c].header = job[c].header
        BY <1>4, <1>8, PassedFields
      <3> QED
        BY <1>8, <3>1 DEF Left
    <2>5. SuccessIsOnDisk'
      BY <2>3, <2>4 DEF SuccessIsOnDisk, Left
    <2>6. BundleSound' /\ (bundle' # None /\ switches' = 0 => Served(bundle.header)')
      BY <1>1, <1>2, <1>8 DEF DiskInv, BundleSound, Served
    <2>7. h = Chain[stream][NumberOf[h]]
      BY <1>4, <1>8 DEF JobInv, SourceInv, Interval
    <2>8. ASSUME job[c].cmd.kind = "updates", NEW cell \in Observed(NumberOf[h]),
                 cell \notin Keys \/ OneWay
          PROVE  Row(NumberOf[h], cell) = Value(h, cell)
      <3>1. CASE cell \notin Keys
        BY <1>4, <1>8, <2>8, <3>1 DEF JobInv, SourceInv
      <3>2. CASE cell \in Keys
        <4>1. ~(switches > 1)
          BY <1>1, <2>8, <3>2 DEF OneWay, TypeInv
        <4>2. Right(job[c], Target(job[c]))
          BY <1>4, <1>8, <2>8, <4>1 DEF JobInv, SampleInv
        <4> QED
          BY <2>8, <3>2, <4>2 DEF Right, Target
      <3> QED
        BY <3>1, <3>2
    <2>9. ReportTrue'
      <3> HIDE DEF h
      <3> QED
        BY <1>2, <2>2, <2>7, <2>8 DEF ReportTrue, OneWay, Observed, Row
    <2> QED
      BY <1>1, <1>8, <2>1, <2>5, <2>6, <2>9 DEF DiskInv, TypeInv
  <1> QED
    BY <1>1, <1>6, <1>7, <1>8, OutputStep

----------------------------------------------------------------------------
(* Theorems                                                                 *)

LEMMA VerifierInit == ASSUME Init PROVE VerifierInv
  <1>1. TypeInv
    <2>1. tables \in [head : Numbers \cup {None}, cell : [Cells -> Rows]]
      BY DEF Init, Rows
    <2>2. finalized \in Numbers
      BY VerificationAssumption DEF Init, Numbers
    <2>3. job \in [Clients -> Jobs]
      BY IdleInv DEF Init
    <2> QED
      BY <2>1, <2>2, <2>3 DEF Init, TypeInv
  <1>2. \A c \in Clients : job[c] = Idle
    BY DEF Init
  <1>3. \A c \in Clients : JobInv(job[c])
    BY <1>2, IdleInv
  <1>4. \A c \in Clients : ~job[c].ok
    BY <1>2, IdleInv
  <1>5. DiskInv
    BY <1>4 DEF Init, DiskInv, BundleSound, SuccessIsOnDisk, ReportTrue
  <1> QED
    BY <1>1, <1>3, <1>5 DEF VerifierInv

LEMMA VerifierStep == ASSUME VerifierInv, [Next]_vars PROVE VerifierInv'
  <1>1. TypeInv /\ DiskInv /\ \A d \in Clients : JobInv(job[d])
    BY DEF VerifierInv
  <1>2. ASSUME NEW c \in Clients, Launch(c) \/ Step(c)
        PROVE  VerifierInv'
    <2>1. Moves(c) /\ UNCHANGED <<view, finalized, switches, stream, tables, defect>>
      BY <1>1, <1>2, ClientMoves
    <2>2. PICK j \in Jobs : JobInv(j) /\ job' = [job EXCEPT ![c] = j]
      BY <2>1 DEF Moves
    <2>3. job' \in [Clients -> Jobs]
      BY <1>1, <2>2 DEF TypeInv
    <2>4. job'[c] = j /\ \A d \in Clients \ {c} : job'[d] = job[d]
      BY <1>1, <2>2 DEF TypeInv
    <2>5. \A d \in Clients : JobInv(job[d])'
      BY <1>1, <2>1, <2>2, <2>4, JobPut, JobFrame
    <2>6. DiskInv' /\ bundle' \in Bundles \cup {None} /\ report' \in Reports \cup {None}
      BY <1>2, ClientDisk
    <2> QED
      BY <1>1, <2>1, <2>3, <2>5, <2>6 DEF VerifierInv, TypeInv
  <1>3. ASSUME \/ \E f \in Forks : Switch(f)
               \/ Finalize \/ Commit
               \/ \E n \in Numbers : Replay(n)
        PROVE  VerifierInv'
    <2>1. TypeInv' /\ UNCHANGED <<job, bundle, report, stream, defect>>
      BY <1>1, <1>3, EnvironmentTypes
    <2>2. CASE \E f \in Forks : Switch(f)
      <3>1. \A d \in Clients : JobInv(job[d])'
        BY <1>1, <2>2, SwitchKeeps
      <3>2. switches' = switches + 1 /\ switches \in Nat
        BY <1>1, <2>2 DEF Switch, TypeInv
      <3>3. switches' # 0 /\ (OneWay' => OneWay)
        BY <3>2 DEF OneWay
      <3>4. ReportTrue'
        BY <1>1, <2>1, <3>3 DEF DiskInv, ReportTrue, Observed, Row
      <3>5. BundleSound' /\ SuccessIsOnDisk'
        BY <1>1, <2>1 DEF DiskInv, BundleSound, SuccessIsOnDisk, Bundle
      <3> QED
        BY <2>1, <3>1, <3>3, <3>4, <3>5 DEF VerifierInv, DiskInv
    <2>3. CASE ~\E f \in Forks : Switch(f)
      <3>1. UNCHANGED <<view, switches>>
        BY <1>3, <2>3 DEF Finalize, Commit, Replay, provider
      <3>2. \A d \in Clients : JobInv(job[d])'
        BY <1>1, <2>1, <3>1, JobFrame
      <3>3. DiskInv'
        BY <1>1, <2>1, <3>1
           DEF DiskInv, BundleSound, SuccessIsOnDisk, ReportTrue, OneWay, Observed, Row, Bundle, Served
      <3> QED
        BY <2>1, <3>2, <3>3 DEF VerifierInv
    <2> QED
      BY <2>2, <2>3
  <1>4. CASE UNCHANGED vars
    <2>1. \A d \in Clients : JobInv(job[d])'
      BY <1>1, <1>4, JobFrame DEF vars
    <2>2. DiskInv' /\ TypeInv'
      BY <1>1, <1>4
         DEF vars, TypeInv, DiskInv, BundleSound, SuccessIsOnDisk, ReportTrue, OneWay, Observed, Row,
             Bundle, Served
    <2> QED
      BY <2>1, <2>2 DEF VerifierInv
  <1> QED
    BY <1>2, <1>3, <1>4 DEF Next

\* VerifierInv is an invariant of the verifying commands: what each of them has
\* established at each step, and what the two output files hold.
THEOREM VerifierInvariant == Spec => []VerifierInv
  BY VerifierInit, VerifierStep, PTL DEF Spec

\* The proofs and bytecode of a bundle that capture linked are those of its one
\* header, whatever forks the provider served between eth_getBlockByNumber,
\* eth_getProof and eth_getCode.
THEOREM BundlesAreSound == Spec => []BundleSound
  <1>1. VerifierInv => BundleSound
    BY DEF VerifierInv, DiskInv
  <1> QED
    BY <1>1, VerifierInvariant, PTL

\* Of any number of commands that write the same path, those that report
\* success find their own complete output there (atomic_write links).
THEOREM SuccessStaysOnDisk == Spec => []SuccessIsOnDisk
  <1>1. VerifierInv => SuccessIsOnDisk
    BY DEF VerifierInv, DiskInv
  <1> QED
    BY <1>1, VerifierInvariant, PTL

\* A report of lifecycle-updates or native-output is about a block of the
\* source, and of lifecycle-updates all that the source observed is right.
THEOREM ReportsAreTrue == Spec => []ReportTrue
  <1>1. VerifierInv => ReportTrue
    BY DEF VerifierInv, DiskInv
  <1> QED
    BY <1>1, VerifierInvariant, PTL

\* Rows whose root is the proven storage root are exactly the nonzero slots
\* (storage_root, verify_complete).
LEMMA RootIsExact ==
    ASSUME NEW snap, NEW a, NEW proof, StorageRootMatches(snap, a, proof),
           NEW s \in Slots, <<a, s>> \in Keys
    PROVE  /\ <<a, s>> \in Storage(snap) => snap.cell[<<a, s>>].value = proof.slots[s]
           /\ proof.slots[s] # 0 => <<a, s>> \in Storage(snap)
  <1> DEFINE stored == {l \in Storage(snap) : l[1] = a /\ snap.cell[l].value # 0}
             proven == {t \in Slots : proof.slots[t] # 0}
  <1>1. {<<k[2], snap.cell[k].value>> : k \in stored} = {<<t, proof.slots[t]>> : t \in proven}
    BY DEF StorageRootMatches
  <1>2. ASSUME s \in proven
        PROVE  <<a, s>> \in stored /\ snap.cell[<<a, s>>].value = proof.slots[s]
    <2>1. <<s, proof.slots[s]>> \in {<<k[2], snap.cell[k].value>> : k \in stored}
      BY <1>1, <1>2
    <2>2. PICK k \in stored : <<k[2], snap.cell[k].value>> = <<s, proof.slots[s]>>
      BY <2>1
    <2>3. k \in Keys /\ k[1] = a /\ k[2] = s /\ snap.cell[k].value = proof.slots[s]
      BY <2>2 DEF Storage
    <2>4. k = <<a, s>>
      BY <2>3 DEF Keys
    <2> QED
      BY <2>3, <2>4
  <1>3. ASSUME <<a, s>> \in stored
        PROVE  s \in proven
    <2>1. <<s, snap.cell[<<a, s>>].value>> \in {<<t, proof.slots[t]>> : t \in proven}
      BY <1>1, <1>3
    <2>2. PICK t \in proven : <<s, snap.cell[<<a, s>>].value>> = <<t, proof.slots[t]>>
      BY <2>1
    <2> QED
      BY <2>2
  <1>4. <<a, s>> \in Storage(snap) => <<a, s>> \in stored \/ snap.cell[<<a, s>>].value = 0
    OBVIOUS
  <1> QED
    BY <1>2, <1>3, <1>4

\* A verdict of postgres-verify is true of the block it names, for any number
\* of commits and replays around its one snapshot: metadata, code and complete
\* storage whatever the provider does, sampled rows unless it changes forks
\* twice.
THEOREM VerdictsAreTrue == Spec => []VerdictTrue
  <1>1. ASSUME VerifierInv, NEW c \in Clients, job[c].ok, job[c].cmd.kind = "postgres"
        PROVE  LET snap == job[c].snap
               IN  /\ \A k \in DOMAIN snap.cell :
                         k \notin Keys \/ job[c].cmd.complete \/ OneWay =>
                             snap.cell[k].value = Value(snap.block, k)
                   /\ job[c].cmd.complete =>
                         \A k \in Keys : k[1] \in snap.accounts /\ Value(snap.block, k) # 0 =>
                                            k \in Storage(snap)
    <2> DEFINE j == job[c]
               snap == j.snap
               h == j.header
    <2>1. TypeInv /\ JobInv(j)
      BY <1>1 DEF VerifierInv
    <2>2. /\ SnapshotInv(snap) /\ snap.block = h
          /\ \A k \in DOMAIN snap.cell \ Keys : snap.cell[k].value = Value(h, k)
          /\ j.cmd.complete =>
                \A a \in snap.accounts : StorageRootMatches(snap, a, StateOf[h][a])
      BY <1>1, <2>1 DEF JobInv, VerdictInv, Started
    <2>3. ASSUME NEW k \in DOMAIN snap.cell, k \in Keys, ~j.cmd.complete, OneWay
          PROVE  snap.cell[k].value = Value(h, k)
      <3>1. ~(switches > 1)
        BY <2>1, <2>3 DEF OneWay, TypeInv
      <3>2. Right(j, Target(j))
        BY <1>1, <2>1, <2>3, <3>1 DEF JobInv, SampleInv
      <3> QED
        BY <1>1, <2>3, <3>2 DEF Right, Target, Storage
    <2>4. ASSUME NEW k \in Keys, k[1] \in snap.accounts, j.cmd.complete
          PROVE  /\ k \in DOMAIN snap.cell => snap.cell[k].value = Value(h, k)
                 /\ Value(h, k) # 0 => k \in Storage(snap)
      <3>1. PICK a \in Accounts, s \in Slots : k = <<a, s>>
        BY DEF Keys
      <3>2. StorageRootMatches(snap, a, StateOf[h][a])
        BY <2>2, <2>4, <3>1
      <3>3. Value(h, k) = StateOf[h][a].slots[s]
        BY <3>1 DEF Value
      <3> HIDE DEF snap, h, j
      <3>4. /\ <<a, s>> \in Storage(snap) => snap.cell[<<a, s>>].value = StateOf[h][a].slots[s]
            /\ StateOf[h][a].slots[s] # 0 => <<a, s>> \in Storage(snap)
        BY <3>1, <3>2, RootIsExact
      <3> QED
        BY <3>1, <3>3, <3>4 DEF Storage
    <2>5. \A k \in DOMAIN snap.cell : k[1] \in snap.accounts
      BY <2>2 DEF SnapshotInv
    <2> QED
      BY <2>2, <2>3, <2>4, <2>5
  <1>2. VerifierInv => VerdictTrue
    BY <1>1 DEF VerdictTrue
  <1> QED
    BY <1>2, VerifierInvariant, PTL
============================================================================
