----------------------- MODULE CheckpointStoreProofs -----------------------
(* Invariants of CheckpointStore, proved for every value of its constants,  *)
(* and that it implements PublishedCheckpoints, what a consumer of the      *)
(* published checkpoints sees.                                              *)
EXTENDS CheckpointStore, TLAPS, WellFoundedInduction, FiniteSetTheorems

\* What a command knows at each step: the fields of its job that the step uses
\* have been filled in.
JobOK ==
    \A p \in Procs :
        /\ pc[p] \in {"publisher"} \cup PublisherSteps =>
              /\ job[p].op \in {"build", "import"}
              /\ job[p].number \in Blocks
              /\ job[p].accounts # {}
        /\ pc[p] \in PublisherSteps \ {"admit"} => job[p].id \in Ids
        /\ pc[p] \in {"readPin", "unlink"} => job[p].pin \in PinIds
        /\ pc[p] = "reader" => IF job[p].op \in {"unpin", "page"}
                               THEN job[p].pin \in PinIds ELSE job[p].id \in Ids
        /\ pc[p] \in {"load", "link", "account", "rows", "save"} => job[p].id \in Ids
        /\ pc[p] \in {"reader", "readPin", "load"} /\ job[p].op \in {"page", "read"} =>
              job[p].accounts # {}
        /\ pc[p] \in {"reader", "readPin", "load"} =>
              job[p].op \in {"pin", "unpin", "page", "read", "export"}
        /\ pc[p] = "readPin" => job[p].op \in {"unpin", "page"}
        /\ pc[p] = "load" => job[p].op # "unpin"
        /\ pc[p] \in {"account", "rows", "save"} =>
              job[p].number \in Blocks /\ job[p].accounts # {}
        /\ pc[p] \in {"dropAccounts", "dropStorage"} => job[p].id \in Ids

TypeInv == TypeOK /\ JobOK

\* A statement of the right type leaves the tables well typed.
LEMMA ExecuteType ==
    ASSUME TypeOK, NEW s \in Statements, Execute(s)
    PROVE  /\ checkpoints' \in [Ids -> Manifests \cup {None}]
           /\ accountRows' \in [Ids -> SUBSET Accounts]
           /\ storageRows' \in [Ids -> SUBSET Accounts]
  BY DEF TypeOK, Execute, RowsAfter, Statements

\* Returning leaves locks, steps and jobs well typed, whoever returns.
LEMMA ReturnType ==
    ASSUME TypeInv, NEW p \in Procs, Return(p)
    PROVE  /\ writer' \in Procs \cup {None}
           /\ shared' \subseteq Procs
           /\ exclusive' \in Procs \cup {None}
           /\ pc' \in [Procs -> Steps]
           /\ job' \in [Procs -> Jobs]
           /\ JobOK'
  <1>1. NoJob \in Jobs
    BY DEF NoJob, Jobs
  <1>2. pc' \in [Procs -> Steps] /\ job' \in [Procs -> Jobs]
    BY <1>1 DEF TypeInv, TypeOK, Return, Goto, Steps
  <1>3. \A q \in Procs : q # p => pc'[q] = pc[q] /\ job'[q] = job[q]
    BY DEF TypeInv, TypeOK, Return, Goto
  <1>4. pc'[p] = "idle"
    BY DEF TypeInv, TypeOK, Return, Goto
  <1>5. JobOK'
    BY <1>3, <1>4 DEF TypeInv, JobOK, PublisherSteps
  <1> QED
    BY <1>2, <1>5 DEF TypeInv, TypeOK, Return

LEMMA TypeInit == Init => TypeInv
  <1> SUFFICES ASSUME Init PROVE TypeInv
    OBVIOUS
  <1>1. NoJob \in Jobs
    BY DEF NoJob, Jobs
  <1>2. TypeOK
    BY <1>1, ConstantsAssumption DEF Init, TypeOK, Steps
  <1>3. JobOK
    BY DEF Init, JobOK, PublisherSteps
  <1> QED
    BY <1>2, <1>3 DEF TypeInv

\* Entering through writer.lock or through readers.lock keeps the types when the
\* job is filled in as the operation requires.
LEMMA TryWriterType ==
    ASSUME TypeInv, NEW p \in Procs, NEW step \in {"publisher", "retention"},
           NEW j \in Jobs, TryWriter(p, step, j),
           step = "publisher" =>
              j.op \in {"build", "import"} /\ j.number \in Blocks /\ j.accounts # {}
    PROVE  TypeInv'
  <1>1. TypeOK'
    BY DEF TypeInv, TypeOK, TryWriter, Goto, Steps, store, files
  <1>2. JobOK'
    BY DEF TypeInv, TypeOK, JobOK, TryWriter, Goto, PublisherSteps
  <1> QED
    BY <1>1, <1>2 DEF TypeInv

LEMMA WaitReaderType ==
    ASSUME TypeInv, NEW p \in Procs, NEW j \in Jobs, WaitReader(p, j),
           j.op \in {"pin", "unpin", "page", "read", "export"},
           IF j.op \in {"unpin", "page"} THEN j.pin \in PinIds ELSE j.id \in Ids,
           j.op \in {"page", "read"} => j.accounts # {}
    PROVE  TypeInv'
  <1>1. TypeOK'
    BY DEF TypeInv, TypeOK, WaitReader, Goto, Steps, store, files, locks
  <1>2. JobOK'
    BY DEF TypeInv, TypeOK, JobOK, WaitReader, Goto, PublisherSteps
  <1> QED
    BY <1>1, <1>2 DEF TypeInv

LEMMA StartType ==
    ASSUME TypeInv, NEW p \in Procs, Start(p)
    PROVE  TypeInv'
  <1> USE DEF NoJob, Jobs, AllOps
  <1>1. CASE Build(p)
    <2>1. PICK base \in used \cup {None}, number \in Blocks, accounts \in (SUBSET Accounts) \ {{}} :
            TryWriter(p, "publisher", [NoJob EXCEPT !.op = "build", !.base = base,
                                       !.number = number, !.accounts = accounts])
      BY <1>1 DEF Build
    <2> DEFINE j == [NoJob EXCEPT !.op = "build", !.base = base,
                                  !.number = number, !.accounts = accounts]
    <2>2. j \in Jobs /\ j.op = "build" /\ j.number \in Blocks /\ j.accounts # {}
      BY DEF TypeInv, TypeOK
    <2> QED
      BY <2>1, <2>2, TryWriterType
  <1>2. CASE Import(p)
    <2>1. PICK e \in exports :
            TryWriter(p, "publisher", [NoJob EXCEPT !.op = "import",
                                       !.number = e.number, !.accounts = e.accounts])
      BY <1>2 DEF Import
    <2> DEFINE j == [NoJob EXCEPT !.op = "import",
                                  !.number = e.number, !.accounts = e.accounts]
    <2>2. j \in Jobs /\ j.op = "import" /\ j.number \in Blocks /\ j.accounts # {}
      BY DEF TypeInv, TypeOK, Contents
    <2> QED
      BY <2>1, <2>2, TryWriterType
  <1>3. CASE Pin(p)
    <2>1. PICK i \in used : WaitReader(p, [NoJob EXCEPT !.op = "pin", !.id = i])
      BY <1>3 DEF Pin
    <2> DEFINE j == [NoJob EXCEPT !.op = "pin", !.id = i]
    <2>2. j \in Jobs /\ j.op = "pin" /\ j.id \in Ids
      BY DEF TypeInv, TypeOK
    <2> QED
      BY <2>1, <2>2, WaitReaderType
  <1>4. CASE Unpin(p)
    <2>1. PICK k \in PinIds : WaitReader(p, [NoJob EXCEPT !.op = "unpin", !.pin = k])
      BY <1>4 DEF Unpin
    <2> DEFINE j == [NoJob EXCEPT !.op = "unpin", !.pin = k]
    <2>2. j \in Jobs /\ j.op = "unpin" /\ j.pin \in PinIds
      OBVIOUS
    <2> QED
      BY <2>1, <2>2, WaitReaderType
  <1>5. CASE Page(p)
    <2>1. PICK k \in PinIds, a \in Accounts :
            WaitReader(p, [NoJob EXCEPT !.op = "page", !.pin = k, !.accounts = {a}])
      BY <1>5 DEF Page
    <2> DEFINE j == [NoJob EXCEPT !.op = "page", !.pin = k, !.accounts = {a}]
    <2>2. j \in Jobs /\ j.op = "page" /\ j.pin \in PinIds /\ j.accounts # {}
      OBVIOUS
    <2> QED
      BY <2>1, <2>2, WaitReaderType
  <1>6. CASE Read(p)
    <2>1. PICK i \in used, a \in Accounts :
            WaitReader(p, [NoJob EXCEPT !.op = "read", !.id = i, !.accounts = {a}])
      BY <1>6 DEF Read
    <2> DEFINE j == [NoJob EXCEPT !.op = "read", !.id = i, !.accounts = {a}]
    <2>2. j \in Jobs /\ j.op = "read" /\ j.id \in Ids /\ j.accounts # {}
      BY DEF TypeInv, TypeOK
    <2> QED
      BY <2>1, <2>2, WaitReaderType
  <1>7. CASE Export(p)
    <2>1. PICK i \in used : WaitReader(p, [NoJob EXCEPT !.op = "export", !.id = i])
      BY <1>7 DEF Export
    <2> DEFINE j == [NoJob EXCEPT !.op = "export", !.id = i]
    <2>2. j \in Jobs /\ j.op = "export" /\ j.id \in Ids
      BY DEF TypeInv, TypeOK
    <2> QED
      BY <2>1, <2>2, WaitReaderType
  <1>8. CASE Prune(p)
    <2>1. PICK keep \in KeepCounts :
            TryWriter(p, "retention", [NoJob EXCEPT !.op = "prune", !.keep = keep])
      BY <1>8 DEF Prune
    <2> DEFINE j == [NoJob EXCEPT !.op = "prune", !.keep = keep]
    <2>2. j \in Jobs
      OBVIOUS
    <2> QED
      BY <2>1, <2>2, TryWriterType
  <1> QED
    BY <1>1, <1>2, <1>3, <1>4, <1>5, <1>6, <1>7, <1>8 DEF Start

LEMMA LockType ==
    ASSUME TypeInv, NEW p \in Procs, TakeShared(p) \/ TakeExclusive(p) \/ RetentionBusy(p)
    PROVE  TypeInv'
  <1>1. CASE TakeShared(p)
    <2>1. TypeOK'
      BY <1>1 DEF TypeInv, TypeOK, TakeShared, Goto, Steps, PublisherSteps, ReaderSteps, store, files
    <2>2. JobOK'
      BY <1>1 DEF TypeInv, TypeOK, JobOK, TakeShared, Goto, PublisherSteps
    <2> QED
      BY <2>1, <2>2 DEF TypeInv
  <1>2. CASE TakeExclusive(p)
    <2>1. TypeOK'
      BY <1>2 DEF TypeInv, TypeOK, TakeExclusive, Goto, Steps, RetentionSteps, store, files
    <2>2. JobOK'
      BY <1>2 DEF TypeInv, TypeOK, JobOK, TakeExclusive, Goto, PublisherSteps
    <2> QED
      BY <2>1, <2>2 DEF TypeInv
  <1>3. CASE RetentionBusy(p)
    BY <1>3, ReturnType DEF RetentionBusy, TypeInv, TypeOK, store, files
  <1> QED
    BY <1>1, <1>2, <1>3

\* The statements a publisher and a prune send are well typed.
LEMMA StatementType ==
    ASSUME NEW table \in Tables, NEW i \in Ids, NEW rows \in SUBSET Accounts
    PROVE  /\ InsertRows(table, i, rows) \in Statements
           /\ DropPartition(table, i) \in Statements
  BY DEF InsertRows, DropPartition, Statements

LEMMA ManifestType ==
    ASSUME TypeInv, NEW p \in Procs, pc[p] = "manifest", NEW created \in Times
    PROVE  NewManifest(p, created) \in Statements
  <1>1. job[p] \in Jobs /\ job[p].id \in Ids /\ job[p].number \in Blocks
        /\ job[p].accounts \in (SUBSET Accounts) \ {{}}
    BY DEF TypeInv, TypeOK, JobOK, PublisherSteps, Jobs
  <1> QED
    BY <1>1 DEF NewManifest, InsertManifest, Statements, Manifests, Tables

LEMMA PublishingType ==
    ASSUME TypeInv, NEW p \in Procs, Publishing(p)
    PROVE  TypeInv'
  <1>0. job[p] \in Jobs
    BY DEF TypeInv, TypeOK
  <1>1. CASE Admit(p)
    <2>1. PICK i \in Ids \ used :
            /\ used' = used \cup {i}
            /\ job' = [job EXCEPT ![p].id = i,
                         ![p].inherited = IF job[p].base = None THEN {}
                                          ELSE checkpoints[job[p].base].accounts]
      BY <1>1 DEF Admit
    <2>2. job[p].base # None => checkpoints[job[p].base] \in Manifests
      BY <1>0, <1>1 DEF Admit, TypeInv, TypeOK, Jobs
    <2>3. job' \in [Procs -> Jobs]
      BY <2>1, <2>2, <1>0 DEF TypeInv, TypeOK, Jobs, Manifests
    <2>4. TypeOK'
      BY <1>1, <2>1, <2>3 DEF Admit, TypeInv, TypeOK, Goto, Steps, PublisherSteps, store, files, locks
    <2>5. /\ job'[p].id = i /\ job'[p].op = job[p].op /\ job'[p].number = job[p].number
          /\ job'[p].accounts = job[p].accounts /\ pc'[p] = "storage" /\ pc[p] = "admit"
          /\ \A q \in Procs : q # p => pc'[q] = pc[q] /\ job'[q] = job[q]
      BY <1>1, <2>1, <1>0 DEF Admit, TypeInv, TypeOK, Goto, Jobs
    <2>6. JobOK'
      BY <2>5 DEF JobOK, TypeInv, PublisherSteps
    <2> QED
      BY <2>4, <2>6 DEF TypeInv
  <1>2. CASE InsertStorage(p)
    <2>1. PICK a \in Available(p) \ storageRows[job[p].id] :
            Execute(InsertRows("checkpoint_storage", job[p].id, {a}))
      BY <1>2 DEF InsertStorage
    <2>2. job[p].id \in Ids /\ a \in Accounts
      BY <1>0, <1>2 DEF InsertStorage, Available, TypeInv, JobOK, PublisherSteps, Jobs
    <2>3. InsertRows("checkpoint_storage", job[p].id, {a}) \in Statements
      BY <2>2, StatementType DEF Tables
    <2>4. TypeOK'
      BY <2>1, <2>3, <1>2, ExecuteType DEF InsertStorage, TypeInv, TypeOK, files, locks
    <2>5. JobOK'
      BY <1>2 DEF InsertStorage, TypeInv, JobOK
    <2> QED
      BY <2>4, <2>5 DEF TypeInv
  <1>3. CASE StorageInserted(p)
    <2>1. TypeOK'
      BY <1>3 DEF StorageInserted, TypeInv, TypeOK, Goto, Steps, PublisherSteps, store, files, locks
    <2>2. JobOK'
      BY <1>3 DEF StorageInserted, TypeInv, TypeOK, JobOK, Goto, PublisherSteps
    <2> QED
      BY <2>1, <2>2 DEF TypeInv
  <1>4. CASE Verify(p)
    <2>1. TypeOK'
      BY <1>4 DEF Verify, TypeInv, TypeOK, Goto, Steps, PublisherSteps, store, files, locks
    <2>2. JobOK'
      BY <1>4 DEF Verify, TypeInv, TypeOK, JobOK, Goto, PublisherSteps
    <2> QED
      BY <2>1, <2>2 DEF TypeInv
  <1>5. CASE InsertAccounts(p)
    <2>1. job[p].id \in Ids /\ job[p].accounts \in SUBSET Accounts
      BY <1>0, <1>5 DEF InsertAccounts, TypeInv, JobOK, PublisherSteps, Jobs
    <2>2. InsertRows("checkpoint_accounts", job[p].id, job[p].accounts) \in Statements
      BY <2>1, StatementType DEF Tables
    <2>3. TypeOK'
      BY <1>5, <2>2, ExecuteType
         DEF InsertAccounts, TypeInv, TypeOK, Goto, Steps, PublisherSteps, files, locks
    <2>4. JobOK'
      BY <1>5 DEF InsertAccounts, TypeInv, TypeOK, JobOK, Goto, PublisherSteps
    <2> QED
      BY <2>3, <2>4 DEF TypeInv
  <1>6. CASE Publish(p)
    <2>1. PICK created \in Times : Execute(NewManifest(p, created))
      BY <1>6 DEF Publish
    <2>2. NewManifest(p, created) \in Statements
      BY <1>6, ManifestType DEF Publish
    <2> QED
      BY <1>6, <2>1, <2>2, ExecuteType, ReturnType DEF Publish, TypeInv, TypeOK, files
  <1> QED
    BY <1>1, <1>2, <1>3, <1>4, <1>5, <1>6 DEF Publishing

LEMMA ReadingType ==
    ASSUME TypeInv, NEW p \in Procs, Reading(p)
    PROVE  TypeInv'
  <1>0. job[p] \in Jobs
    BY DEF TypeInv, TypeOK
  <1>1. CASE ReadPin(p)
    <2>1. /\ pins[job[p].pin] \in Ids
          /\ job' = [job EXCEPT ![p].id = pins[job[p].pin]]
      BY <1>1 DEF ReadPin
    <2>2. TypeOK'
      BY <1>0, <1>1, <2>1, SMTT(30)
         DEF ReadPin, TypeInv, TypeOK, Goto, Steps, ReaderSteps, Jobs, store, files, locks
    <2>3. /\ job'[p].id \in Ids /\ job'[p].op = job[p].op /\ job'[p].pin = job[p].pin
          /\ job'[p].accounts = job[p].accounts
          /\ pc[p] = "readPin" /\ pc'[p] = IF job[p].op = "unpin" THEN "unlink" ELSE "load"
          /\ \A q \in Procs : q # p => pc'[q] = pc[q] /\ job'[q] = job[q]
      BY <1>0, <1>1, <2>1 DEF ReadPin, TypeInv, TypeOK, Goto, Jobs
    <2>4. JobOK'
      BY <2>3 DEF JobOK, TypeInv, PublisherSteps
    <2> QED
      BY <2>2, <2>4 DEF TypeInv
  <1>2. CASE Load(p)
    <2> DEFINE m == checkpoints[job[p].id]
               accounts == IF job[p].op = "export" THEN m.accounts ELSE job[p].accounts
    <2>1. job[p].id \in Ids /\ m \in Manifests /\ accounts \subseteq m.accounts
      BY <1>2 DEF Load, TypeInv, TypeOK, JobOK
    <2>2. job' = [job EXCEPT ![p].number = m.number, ![p].accounts = accounts,
                             ![p].todo = accounts]
      BY <1>2 DEF Load
    <2>3. m.number \in Blocks /\ m.accounts \subseteq Accounts /\ m.accounts # {}
      BY <2>1 DEF Manifests
    <2>4. accounts \subseteq Accounts /\ (job[p].op # "pin" => accounts # {})
      BY <1>2, <2>1, <2>3 DEF Load, TypeInv, JobOK
    <2> HIDE DEF m, accounts
    <2>5. TypeOK'
      <3>1. job' \in [Procs -> Jobs]
        BY <1>0, <2>2, <2>3, <2>4 DEF TypeInv, TypeOK, Jobs
      <3>2. pc' \in [Procs -> Steps] /\ UNCHANGED <<store, files, locks, used, stray>>
        BY <1>2 DEF Load, TypeInv, TypeOK, Goto, Steps, ReaderSteps
      <3> QED
        BY <3>1, <3>2 DEF TypeInv, TypeOK, store, files, locks
    <2>6. /\ job'[p].id = job[p].id /\ job'[p].number \in Blocks
          /\ job[p].op # "pin" => job'[p].accounts # {}
          /\ pc'[p] = IF job[p].op = "pin" THEN "link" ELSE "account"
          /\ \A q \in Procs : q # p => pc'[q] = pc[q] /\ job'[q] = job[q]
      BY <1>0, <1>2, <2>2, <2>3, <2>4 DEF Load, TypeInv, TypeOK, Goto, Jobs
    <2>7. JobOK'
      BY <2>1, <2>6 DEF JobOK, TypeInv, PublisherSteps
    <2> QED
      BY <2>5, <2>7 DEF TypeInv
  <1>3. CASE LinkPin(p)
    <2>1. job[p].id \in Ids
      BY <1>3 DEF LinkPin, TypeInv, JobOK
    <2>2. pins' \in [PinIds -> Ids \cup {None, "released"}]
      BY <1>3, <2>1 DEF LinkPin, TypeInv, TypeOK
    <2> QED
      BY <1>3, <2>2, ReturnType DEF LinkPin, TypeInv, TypeOK, store
  <1>4. CASE UnlinkPin(p)
    <2>1. pins' \in [PinIds -> Ids \cup {None, "released"}]
      BY <1>4 DEF UnlinkPin, TypeInv, TypeOK
    <2> QED
      BY <1>4, <2>1, ReturnType DEF UnlinkPin, TypeInv, TypeOK, store
  <1>5. CASE ReadAccount(p)
    <2>1. CASE job[p].op = "read"
      BY <1>5, <2>1, ReturnType DEF ReadAccount, TypeInv, TypeOK, store, files
    <2>2. CASE job[p].op # "read"
      <3>1. TypeOK'
        BY <1>5, <2>2
           DEF ReadAccount, TypeInv, TypeOK, Goto, Steps, ReaderSteps, store, files, locks
      <3>2. JobOK'
        BY <1>5, <2>2 DEF ReadAccount, TypeInv, TypeOK, JobOK, Goto, PublisherSteps
      <3> QED
        BY <3>1, <3>2 DEF TypeInv
    <2> QED
      BY <2>1, <2>2
  <1>6. CASE ReadRows(p)
    <2>1. PICK a \in job[p].todo :
            IF job[p].op = "page" THEN Return(p)
            ELSE /\ job' = [job EXCEPT ![p].todo = @ \ {a},
                                       ![p].rows = @ \cup ({a} \cap storageRows[job[p].id])]
                 /\ Goto(p, IF job[p].todo = {a} THEN "save" ELSE "rows")
                 /\ UNCHANGED locks
      BY <1>6 DEF ReadRows
    <2>2. CASE job[p].op = "page"
      BY <1>6, <2>1, <2>2, ReturnType DEF ReadRows, TypeInv, TypeOK, store, files
    <2>3. CASE job[p].op # "page"
      <3>1. TypeOK'
        BY <1>0, <1>6, <2>1, <2>3
           DEF ReadRows, TypeInv, TypeOK, Goto, Steps, ReaderSteps, Jobs, store, files, locks
      <3>2. /\ job'[p].id = job[p].id /\ job'[p].number = job[p].number
            /\ job'[p].accounts = job[p].accounts
            /\ pc[p] = "rows" /\ pc'[p] \in {"save", "rows"}
            /\ \A q \in Procs : q # p => pc'[q] = pc[q] /\ job'[q] = job[q]
        BY <1>0, <1>6, <2>1, <2>3 DEF ReadRows, TypeInv, TypeOK, Goto, Jobs
      <3>3. JobOK'
        BY <3>2 DEF JobOK, TypeInv, PublisherSteps
      <3> QED
        BY <3>1, <3>3 DEF TypeInv
    <2> QED
      BY <2>2, <2>3
  <1>7. CASE SaveExport(p)
    <2>1. exports' \subseteq Contents
      BY <1>0, <1>7 DEF SaveExport, TypeInv, TypeOK, JobOK, Contents, Jobs
    <2> QED
      BY <1>7, <2>1, ReturnType DEF SaveExport, TypeInv, TypeOK, store
  <1> QED
    BY <1>1, <1>2, <1>3, <1>4, <1>5, <1>6, <1>7 DEF Reading

LEMMA PruningType ==
    ASSUME TypeInv, NEW p \in Procs, Pruning(p)
    PROVE  TypeInv'
  <1>0. job[p] \in Jobs
    BY DEF TypeInv, TypeOK
  <1>1. CASE Plan(p)
    <2>1. PICK rank \in Orders :
            job' = [job EXCEPT ![p].remove = Partitions \ Kept(rank, job[p].keep)]
      BY <1>1 DEF Plan
    <2>2. Partitions \ Kept(rank, job[p].keep) \subseteq Ids
      BY DEF Partitions, ready
    <2> DEFINE r == Partitions \ Kept(rank, job[p].keep)
    <2> HIDE DEF r
    <2>3. job' = [job EXCEPT ![p].remove = r] /\ r \subseteq Ids
      BY <2>1, <2>2 DEF r
    <2>4. TypeOK'
      BY <1>0, <1>1, <2>3
         DEF Plan, TypeInv, TypeOK, Goto, Steps, RetentionSteps, Jobs, store, files, locks
    <2>5. pc'[p] = "drop" /\ \A q \in Procs : q # p => pc'[q] = pc[q] /\ job'[q] = job[q]
      BY <1>0, <1>1, <2>3 DEF Plan, TypeInv, TypeOK, Goto, Jobs
    <2>6. JobOK'
      BY <2>5 DEF JobOK, TypeInv, PublisherSteps
    <2> QED
      BY <2>4, <2>6 DEF TypeInv
  <1>2. CASE DropManifest(p)
    <2>1. PICK i \in job[p].remove :
            /\ Execute(DropPartition("checkpoints", i))
            /\ job' = [job EXCEPT ![p].id = i, ![p].remove = @ \ {i}]
      BY <1>2 DEF DropManifest
    <2>2. i \in Ids /\ DropPartition("checkpoints", i) \in Statements
      BY <1>0, StatementType DEF Tables, Jobs
    <2>3. TypeOK'
      BY <1>0, <1>2, <2>1, <2>2, ExecuteType
         DEF DropManifest, TypeInv, TypeOK, Goto, Steps, RetentionSteps, Jobs, files, locks
    <2>4. /\ pc'[p] = "dropAccounts" /\ job'[p].id = i
          /\ \A q \in Procs : q # p => pc'[q] = pc[q] /\ job'[q] = job[q]
      BY <1>0, <1>2, <2>1 DEF DropManifest, TypeInv, TypeOK, Goto, Jobs
    <2>5. JobOK'
      BY <2>2, <2>4 DEF JobOK, TypeInv, PublisherSteps
    <2> QED
      BY <2>3, <2>5 DEF TypeInv
  <1>3. CASE DropAccounts(p)
    <2>1. job[p].id \in Ids /\ DropPartition("checkpoint_accounts", job[p].id) \in Statements
      BY <1>3, StatementType DEF DropAccounts, TypeInv, JobOK, Tables
    <2>2. TypeOK'
      BY <1>3, <2>1, ExecuteType
         DEF DropAccounts, TypeInv, TypeOK, Goto, Steps, RetentionSteps, files, locks
    <2>3. JobOK'
      BY <1>3 DEF DropAccounts, TypeInv, TypeOK, JobOK, Goto, PublisherSteps
    <2> QED
      BY <2>2, <2>3 DEF TypeInv
  <1>4. CASE DropStorage(p)
    <2>1. job[p].id \in Ids /\ DropPartition("checkpoint_storage", job[p].id) \in Statements
      BY <1>4, StatementType DEF DropStorage, TypeInv, JobOK, Tables
    <2>2. TypeOK'
      BY <1>4, <2>1, ExecuteType
         DEF DropStorage, TypeInv, TypeOK, Goto, Steps, RetentionSteps, files, locks
    <2>3. JobOK'
      BY <1>4 DEF DropStorage, TypeInv, TypeOK, JobOK, Goto, PublisherSteps
    <2> QED
      BY <2>2, <2>3 DEF TypeInv
  <1>5. CASE PruneDone(p)
    BY <1>5, ReturnType DEF PruneDone, TypeInv, TypeOK, store, files
  <1> QED
    BY <1>1, <1>2, <1>3, <1>4, <1>5 DEF Pruning

\* What a command leaves in flight is a statement.
LEMMA InFlightType ==
    ASSUME TypeInv, NEW p \in Procs
    PROVE  InFlight(p) \subseteq Statements
  <1>0. job[p] \in Jobs
    BY DEF TypeInv, TypeOK
  <1>1. CASE pc[p] = "storage"
    <2>1. job[p].id \in Ids /\ Available(p) \in SUBSET Accounts
      BY <1>0, <1>1 DEF TypeInv, JobOK, PublisherSteps, Available, Jobs
    <2> QED
      BY <1>1, <2>1, StatementType DEF InFlight, Tables
  <1>2. CASE pc[p] = "accounts"
    <2>1. job[p].id \in Ids /\ job[p].accounts \in SUBSET Accounts
      BY <1>0, <1>2 DEF TypeInv, JobOK, PublisherSteps, Jobs
    <2> QED
      BY <1>2, <2>1, StatementType DEF InFlight, Tables
  <1>3. CASE pc[p] = "manifest"
    BY <1>3, ManifestType DEF InFlight
  <1>4. CASE pc[p] = "drop"
    BY <1>0, <1>4, StatementType DEF InFlight, Tables, Jobs
  <1>5. CASE pc[p] = "dropAccounts"
    BY <1>5, StatementType DEF InFlight, Tables, TypeInv, JobOK
  <1>6. CASE pc[p] = "dropStorage"
    BY <1>6, StatementType DEF InFlight, Tables, TypeInv, JobOK
  <1>7. CASE pc[p] \notin {"storage", "accounts", "manifest", "drop", "dropAccounts", "dropStorage"}
    BY <1>7 DEF InFlight
  <1> QED
    BY <1>1, <1>2, <1>3, <1>4, <1>5, <1>6, <1>7

LEMMA TypeStep == TypeInv /\ [Next]_vars => TypeInv'
  <1> SUFFICES ASSUME TypeInv, [Next]_vars PROVE TypeInv'
    OBVIOUS
  <1>1. ASSUME NEW p \in Procs, Start(p) PROVE TypeInv'
    BY <1>1, StartType
  <1>2. ASSUME NEW p \in Procs, Advance(p) PROVE TypeInv'
    BY <1>2, LockType, PublishingType, ReadingType, PruningType DEF Advance
  <1>3. ASSUME NEW p \in Procs, Fail(p) PROVE TypeInv'
    BY <1>3, ReturnType DEF Fail, TypeInv, TypeOK, store, files
  <1>4. ASSUME NEW p \in Procs, Abandon(p) PROVE TypeInv'
    <2>1. stray' \subseteq Statements
      BY <1>4, InFlightType DEF Abandon, TypeInv, TypeOK
    <2> QED
      BY <1>4, <2>1, ReturnType DEF Abandon, TypeInv, TypeOK, store, files
  <1>5. CASE ExecuteStray
    <2>1. PICK s \in stray : Execute(s) /\ stray' = stray \ {s}
      BY <1>5 DEF ExecuteStray
    <2>2. s \in Statements
      BY DEF TypeInv, TypeOK
    <2>3. TypeOK'
      BY <1>5, <2>1, <2>2, ExecuteType DEF ExecuteStray, TypeInv, TypeOK, files, locks
    <2>4. JobOK'
      BY <1>5 DEF ExecuteStray, TypeInv, JobOK
    <2> QED
      BY <2>3, <2>4 DEF TypeInv
  <1>6. CASE UNCHANGED vars
    BY <1>6 DEF vars, TypeInv, TypeOK, JobOK
  <1> QED
    BY <1>1, <1>2, <1>3, <1>4, <1>5, <1>6 DEF Next

\* Every variable keeps its type in every behaviour, late writes included.
THEOREM TypeCorrect == Spec => []TypeOK
  <1>1. TypeInv => TypeOK
    BY DEF TypeInv
  <1> QED
    BY <1>1, TypeInit, TypeStep, PTL DEF Spec

----------------------------------------------------------------------------
(* Locks                                                                    *)

WriterSteps == {"publisher", "retention"} \cup PublisherSteps \cup RetentionSteps
SharedSteps == PublisherSteps \cup ReaderSteps

\* A command holds the locks its step needs, and a retention command that holds
\* readers.lock is alone: no reader and no publisher is past its own lock.
LockInv ==
    /\ \A p \in Procs : /\ pc[p] \in WriterSteps => writer = p
                        /\ pc[p] \in SharedSteps => p \in shared
                        /\ pc[p] \in RetentionSteps => exclusive = p
    /\ exclusive # None => shared = {}

LEMMA LockInit == Init => LockInv
  BY DEF Init, LockInv, WriterSteps, SharedSteps, PublisherSteps, ReaderSteps, RetentionSteps

\* Moving from one step to another that needs no further lock.
LEMMA LockMove ==
    ASSUME TypeInv, LockInv, NEW p \in Procs, NEW step \in Steps, Goto(p, step), UNCHANGED locks,
           step \in WriterSteps => pc[p] \in WriterSteps,
           step \in SharedSteps => pc[p] \in SharedSteps,
           step \in RetentionSteps => pc[p] \in RetentionSteps
    PROVE  LockInv'
  BY DEF TypeInv, TypeOK, LockInv, Goto, locks

LEMMA LockReturn ==
    ASSUME TypeInv, LockInv, NEW p \in Procs, Return(p)
    PROVE  LockInv'
  BY DEF TypeInv, TypeOK, LockInv, Return, Goto, WriterSteps, SharedSteps,
         PublisherSteps, ReaderSteps, RetentionSteps

LEMMA LockStep == TypeInv /\ LockInv /\ [Next]_vars => LockInv'
  <1> SUFFICES ASSUME TypeInv, LockInv, [Next]_vars PROVE LockInv'
    OBVIOUS
  <1> USE DEF WriterSteps, SharedSteps, PublisherSteps, ReaderSteps, RetentionSteps, Steps
  <1>1. ASSUME NEW p \in Procs, Start(p) PROVE LockInv'
    <2>1. ASSUME NEW step \in {"publisher", "retention"}, NEW j, TryWriter(p, step, j)
          PROVE  LockInv'
      BY <2>1, ConstantsAssumption DEF TryWriter, TypeInv, TypeOK, LockInv, Goto
    <2>2. ASSUME NEW j, WaitReader(p, j) PROVE LockInv'
      BY <2>2, LockMove DEF WaitReader
    <2> QED
      BY <1>1, <2>1, <2>2 DEF Start, Build, Import, Pin, Unpin, Page, Read, Export, Prune
  <1>2. ASSUME NEW p \in Procs, Advance(p) PROVE LockInv'
    <2>1. CASE TakeShared(p)
      BY <2>1 DEF TakeShared, TypeInv, TypeOK, LockInv, Goto
    <2>2. CASE TakeExclusive(p)
      BY <2>2 DEF TakeExclusive, TypeInv, TypeOK, LockInv, Goto
    <2>3. CASE RetentionBusy(p)
      BY <2>3, LockReturn DEF RetentionBusy
    <2>4. CASE Publishing(p)
      <3>1. CASE Admit(p)
        BY <3>1, LockMove DEF Admit
      <3>2. CASE InsertStorage(p)
        BY <3>2 DEF InsertStorage, LockInv, locks
      <3>3. CASE StorageInserted(p)
        BY <3>3, LockMove DEF StorageInserted
      <3>4. CASE Verify(p)
        BY <3>4, LockMove DEF Verify
      <3>5. CASE InsertAccounts(p)
        BY <3>5, LockMove DEF InsertAccounts
      <3>6. CASE Publish(p)
        BY <3>6, LockReturn DEF Publish
      <3> QED
        BY <2>4, <3>1, <3>2, <3>3, <3>4, <3>5, <3>6 DEF Publishing
    <2>5. CASE Reading(p)
      <3>1. CASE ReadPin(p)
        BY <3>1, LockMove DEF ReadPin
      <3>2. CASE Load(p)
        BY <3>2, LockMove DEF Load
      <3>3. CASE ReadAccount(p) /\ job[p].op # "read"
        BY <3>3, LockMove DEF ReadAccount
      <3>4. CASE ReadRows(p) /\ job[p].op # "page"
        BY <3>4, LockMove DEF ReadRows
      <3>5. CASE Return(p)
        BY <3>5, LockReturn
      <3> QED
        BY <2>5, <3>1, <3>2, <3>3, <3>4, <3>5
           DEF Reading, LinkPin, UnlinkPin, ReadAccount, ReadRows, SaveExport
    <2>6. CASE Pruning(p)
      <3>1. CASE Plan(p)
        BY <3>1, LockMove DEF Plan
      <3>2. CASE DropManifest(p)
        BY <3>2, LockMove DEF DropManifest
      <3>3. CASE DropAccounts(p)
        BY <3>3, LockMove DEF DropAccounts
      <3>4. CASE DropStorage(p)
        BY <3>4, LockMove DEF DropStorage
      <3>5. CASE PruneDone(p)
        BY <3>5, LockReturn DEF PruneDone
      <3> QED
        BY <2>6, <3>1, <3>2, <3>3, <3>4, <3>5 DEF Pruning
    <2> QED
      BY <1>2, <2>1, <2>2, <2>3, <2>4, <2>5, <2>6 DEF Advance
  <1>3. ASSUME NEW p \in Procs, Fail(p) \/ Abandon(p) PROVE LockInv'
    BY <1>3, LockReturn DEF Fail, Abandon
  <1>4. CASE ExecuteStray
    BY <1>4 DEF ExecuteStray, LockInv, locks
  <1>5. CASE UNCHANGED vars
    BY <1>5 DEF vars, LockInv
  <1> QED
    BY <1>1, <1>2, <1>3, <1>4, <1>5 DEF Next

----------------------------------------------------------------------------
(* Data, when the database applies no write after its client has gone        *)

BuildSteps == PublisherSteps \ {"admit"}
DropSteps == {"drop", "dropAccounts", "dropStorage"}

\* What each command has established about the tables at its step.
CandidateInv(p) ==
    /\ pc[p] \in BuildSteps => /\ job[p].id \in used
                               /\ checkpoints[job[p].id] = None
                               /\ storageRows[job[p].id] \subseteq job[p].accounts
    /\ pc[p] \in {"storage", "accounts"} => accountRows[job[p].id] = {}
    /\ pc[p] = "verify" /\ job[p].op = "build" => accountRows[job[p].id] = {}
    /\ pc[p] = "accounts" /\ job[p].op = "build" =>
          storageRows[job[p].id] = job[p].accounts
    /\ pc[p] = "manifest" => /\ accountRows[job[p].id] = job[p].accounts
                             /\ storageRows[job[p].id] = job[p].accounts
    /\ pc[p] = "storage" /\ job[p].base # None => checkpoints[job[p].base] # None

ReaderInv(p) ==
    pc[p] \in {"link", "account", "rows", "save"} => checkpoints[job[p].id] # None

RetentionInv(p) ==
    /\ pc[p] \in DropSteps => \A k \in PinIds : pins[k] \notin job[p].remove
    /\ pc[p] \in {"dropAccounts", "dropStorage"} => checkpoints[job[p].id] = None

ProcInv(p) == CandidateInv(p) /\ ReaderInv(p) /\ RetentionInv(p)

FreshInv == \A i \in Ids \ used : /\ checkpoints[i] = None
                                  /\ accountRows[i] = {} /\ storageRows[i] = {}

PinInv == \A k \in PinIds : pins[k] \in Ids => checkpoints[pins[k]] # None

CompleteInv == \A i \in Ids : checkpoints[i] # None => Complete(i)

DataInv == /\ stray = {}
           /\ FreshInv /\ PinInv /\ CompleteInv
           /\ \A p \in Procs : ProcInv(p)

StoreInv == TypeInv /\ LockInv /\ DataInv

LEMMA DataInit == Init => DataInv
  BY ConstantsAssumption
     DEF Init, DataInv, FreshInv, PinInv, CompleteInv, ProcInv, CandidateInv, ReaderInv,
         RetentionInv, BuildSteps, DropSteps, PublisherSteps

\* A step of p that touches no table, pin or id leaves only p's part to check.
LEMMA DataFrame ==
    ASSUME TypeInv, DataInv, NEW p \in Procs,
           UNCHANGED <<store, pins, used, stray>>,
           \A q \in Procs : q # p => pc'[q] = pc[q] /\ job'[q] = job[q],
           ProcInv(p)'
    PROVE  DataInv'
  <1>1. ASSUME NEW q \in Procs, q # p PROVE ProcInv(q)'
    <2>1. ProcInv(q) /\ pc'[q] = pc[q] /\ job'[q] = job[q]
      BY <1>1 DEF DataInv
    <2> QED
      BY <2>1 DEF ProcInv, CandidateInv, ReaderInv, RetentionInv, store
  <1>2. (stray = {} /\ FreshInv /\ PinInv /\ CompleteInv)'
    BY DEF DataInv, FreshInv, PinInv, CompleteInv, Complete, store
  <1> QED
    BY <1>1, <1>2 DEF DataInv

\* A command that has returned has nothing left to establish.
LEMMA ReturnProc ==
    ASSUME TypeInv, NEW p \in Procs, Return(p)
    PROVE  /\ ProcInv(p)'
           /\ \A q \in Procs : q # p => pc'[q] = pc[q] /\ job'[q] = job[q]
  BY DEF TypeInv, TypeOK, Return, Goto, ProcInv, CandidateInv, ReaderInv, RetentionInv,
         BuildSteps, DropSteps, PublisherSteps

LEMMA DataReturn ==
    ASSUME TypeInv, DataInv, NEW p \in Procs, Return(p), UNCHANGED <<store, pins, used, stray>>
    PROVE  DataInv'
  BY ReturnProc, DataFrame

\* Beside a publisher there are only readers; beside a prune nobody holds a lock.
LEMMA BesidePublisher ==
    ASSUME TypeInv, LockInv, NEW p \in Procs, NEW q \in Procs, q # p, pc[p] \in PublisherSteps
    PROVE  pc[q] \notin WriterSteps
  BY DEF LockInv, WriterSteps

LEMMA BesidePrune ==
    ASSUME TypeInv, LockInv, NEW p \in Procs, NEW q \in Procs, q # p, pc[p] \in RetentionSteps
    PROVE  pc[q] \notin WriterSteps \cup SharedSteps
  BY ConstantsAssumption DEF TypeInv, TypeOK, LockInv, WriterSteps

\* Readers, waiting and idle commands only need their checkpoint to stay ready.
LEMMA ReaderProc ==
    ASSUME NEW q \in Procs, ProcInv(q), pc[q] \notin WriterSteps, pc'[q] = pc[q], job'[q] = job[q],
           checkpoints[job[q].id] # None => checkpoints'[job[q].id] # None
    PROVE  ProcInv(q)'
  BY DEF ProcInv, CandidateInv, ReaderInv, RetentionInv, WriterSteps, RetentionSteps,
         BuildSteps, DropSteps, PublisherSteps

LEMMA PublishingData ==
    ASSUME StoreInv, NEW p \in Procs, Publishing(p)
    PROVE  DataInv'
  <1> USE DEF StoreInv
  <1>0. job[p] \in Jobs
    BY DEF TypeInv, TypeOK
  <1>a. ASSUME NEW q \in Procs, q # p PROVE pc[q] \notin WriterSteps
    BY <1>a, BesidePublisher
       DEF Publishing, Admit, InsertStorage, StorageInserted, Verify, InsertAccounts, Publish,
           PublisherSteps
  <1>b. ProcInv(p)
    BY DEF DataInv
  <1>1. CASE Admit(p)
    <2>1. PICK i \in Ids \ used :
            /\ used' = used \cup {i}
            /\ job' = [job EXCEPT ![p].id = i,
                         ![p].inherited = IF job[p].base = None THEN {}
                                          ELSE checkpoints[job[p].base].accounts]
      BY <1>1 DEF Admit
    <2>2. /\ checkpoints[i] = None /\ accountRows[i] = {} /\ storageRows[i] = {}
      BY DEF DataInv, FreshInv
    <2>3. /\ job'[p].id = i /\ job'[p].base = job[p].base /\ pc'[p] = "storage"
          /\ \A q \in Procs : q # p => pc'[q] = pc[q] /\ job'[q] = job[q]
      BY <1>0, <1>1, <2>1 DEF Admit, TypeInv, TypeOK, Goto, Jobs
    <2>4. UNCHANGED <<checkpoints, accountRows, storageRows, pins, stray>>
      BY <1>1 DEF Admit, store, files
    <2>5. job[p].base # None => checkpoints[job[p].base] # None
      BY <1>1 DEF Admit
    <2>a. i \in used'
      BY <2>1
    <2>6. ProcInv(p)'
      BY <2>a, <2>2, <2>3, <2>4, <2>5
         DEF ProcInv, CandidateInv, ReaderInv, RetentionInv, BuildSteps, DropSteps, PublisherSteps
    <2>7. ASSUME NEW q \in Procs, q # p PROVE ProcInv(q)'
      BY <1>a, <2>3, <2>4, <2>7, ReaderProc DEF DataInv
    <2>8. (stray = {} /\ FreshInv /\ PinInv /\ CompleteInv)'
      BY <2>1, <2>4 DEF DataInv, FreshInv, PinInv, CompleteInv, Complete
    <2> QED
      BY <2>6, <2>7, <2>8 DEF DataInv
  <1>2. CASE InsertStorage(p)
    <2>1. PICK a \in Available(p) \ storageRows[job[p].id] :
            Execute(InsertRows("checkpoint_storage", job[p].id, {a}))
      BY <1>2 DEF InsertStorage
    <2>2. /\ job[p].id \in Ids \cap used /\ checkpoints[job[p].id] = None
          /\ storageRows[job[p].id] \subseteq job[p].accounts /\ a \in job[p].accounts
          /\ pc[p] = "storage"
      BY <1>2, <1>b DEF InsertStorage, Available, ProcInv, CandidateInv, BuildSteps,
                        PublisherSteps, TypeInv, JobOK
    <2>3. /\ UNCHANGED <<checkpoints, accountRows, pins, used, stray, pc, job>>
          /\ storageRows' = [storageRows EXCEPT ![job[p].id] = @ \cup {a}]
      BY <1>2, <2>1 DEF InsertStorage, Execute, InsertRows, RowsAfter, files
    <2>4. ProcInv(p)'
      BY <1>b, <2>2, <2>3 DEF ProcInv, CandidateInv, ReaderInv, RetentionInv, BuildSteps,
                              DropSteps, PublisherSteps, TypeInv, TypeOK
    <2>5. ASSUME NEW q \in Procs, q # p PROVE ProcInv(q)'
      BY <1>a, <2>3, <2>5, ReaderProc DEF DataInv
    <2>6. (stray = {} /\ FreshInv /\ PinInv /\ CompleteInv)'
      BY <2>2, <2>3 DEF DataInv, FreshInv, PinInv, CompleteInv, Complete, TypeInv, TypeOK
    <2> QED
      BY <2>4, <2>5, <2>6 DEF DataInv
  <1>3. CASE StorageInserted(p)
    <2>1. /\ pc[p] = "storage" /\ UNCHANGED <<store, pins, used, stray>> /\ job' = job
          /\ pc'[p] = IF job[p].op = "build" THEN "verify" ELSE "accounts"
          /\ \A q \in Procs : q # p => pc'[q] = pc[q] /\ job'[q] = job[q]
      BY <1>3 DEF StorageInserted, Goto, TypeInv, TypeOK, files
    <2>2. ProcInv(p)'
      BY <1>b, <2>1 DEF ProcInv, CandidateInv, ReaderInv, RetentionInv, BuildSteps,
                        DropSteps, PublisherSteps, store
    <2> QED
      BY <2>1, <2>2, DataFrame
  <1>4. CASE Verify(p)
    <2>1. /\ pc[p] = "verify" /\ UNCHANGED <<store, pins, used, stray>> /\ job' = job
          /\ pc'[p] = IF job[p].op = "build" THEN "accounts" ELSE "manifest"
          /\ \A q \in Procs : q # p => pc'[q] = pc[q] /\ job'[q] = job[q]
      BY <1>4 DEF Verify, Goto, TypeInv, TypeOK, files
    <2>2. /\ storageRows[job[p].id] = job[p].accounts
          /\ job[p].op = "import" => accountRows[job[p].id] = job[p].accounts
          /\ job[p].op \in {"build", "import"}
      BY <1>4 DEF Verify, TypeInv, JobOK, PublisherSteps
    <2>3. ProcInv(p)'
      BY <1>b, <2>1, <2>2 DEF ProcInv, CandidateInv, ReaderInv, RetentionInv, BuildSteps,
                              DropSteps, PublisherSteps, store
    <2> QED
      BY <2>1, <2>3, DataFrame
  <1>5. CASE InsertAccounts(p)
    <2>1. /\ job[p].id \in Ids \cap used /\ checkpoints[job[p].id] = None
          /\ accountRows[job[p].id] = {} /\ pc[p] = "accounts"
      BY <1>5, <1>b DEF InsertAccounts, ProcInv, CandidateInv, BuildSteps, PublisherSteps,
                        TypeInv, JobOK
    <2>2. /\ UNCHANGED <<checkpoints, storageRows, pins, used, stray, job>>
          /\ accountRows' = [accountRows EXCEPT ![job[p].id] = @ \cup job[p].accounts]
          /\ pc'[p] = IF job[p].op = "build" THEN "manifest" ELSE "verify"
          /\ \A q \in Procs : q # p => pc'[q] = pc[q] /\ job'[q] = job[q]
      BY <1>5 DEF InsertAccounts, Execute, InsertRows, RowsAfter, Goto, TypeInv, TypeOK, files
    <2>3. ProcInv(p)'
      BY <1>b, <2>1, <2>2 DEF ProcInv, CandidateInv, ReaderInv, RetentionInv, BuildSteps,
                              DropSteps, PublisherSteps, TypeInv, TypeOK
    <2>4. ASSUME NEW q \in Procs, q # p PROVE ProcInv(q)'
      BY <1>a, <2>2, <2>4, ReaderProc DEF DataInv
    <2>5. (stray = {} /\ FreshInv /\ PinInv /\ CompleteInv)'
      BY <2>1, <2>2 DEF DataInv, FreshInv, PinInv, CompleteInv, Complete, TypeInv, TypeOK
    <2> QED
      BY <2>3, <2>4, <2>5 DEF DataInv
  <1>6. CASE Publish(p)
    <2>1. PICK created \in Times : Execute(NewManifest(p, created))
      BY <1>6 DEF Publish
    <2> DEFINE m == [number |-> job[p].number, created |-> created, accounts |-> job[p].accounts]
    <2>2. /\ job[p].id \in Ids \cap used /\ checkpoints[job[p].id] = None
          /\ accountRows[job[p].id] = job[p].accounts /\ storageRows[job[p].id] = job[p].accounts
      BY <1>6, <1>b DEF Publish, ProcInv, CandidateInv, BuildSteps, PublisherSteps,
                        TypeInv, JobOK
    <2>3. m \in Manifests /\ m # None /\ m.accounts = job[p].accounts
      BY <1>0, <1>6, ConstantsAssumption DEF Publish, TypeInv, JobOK, PublisherSteps, Manifests, Jobs
    <2> HIDE DEF m
    <2>4. /\ UNCHANGED <<accountRows, storageRows, pins, used, stray>>
          /\ checkpoints' = [checkpoints EXCEPT ![job[p].id] = m]
      BY <1>6, <2>1 DEF Publish, Execute, NewManifest, InsertManifest, RowsAfter, files, m
    <2>5. ProcInv(p)' /\ \A q \in Procs : q # p => pc'[q] = pc[q] /\ job'[q] = job[q]
      BY <1>6, ReturnProc DEF Publish
    <2>6. ASSUME NEW q \in Procs, q # p PROVE ProcInv(q)'
      <3>1. checkpoints[job[q].id] # None => checkpoints'[job[q].id] # None
        BY <2>2, <2>3, <2>4 DEF TypeInv, TypeOK
      <3> QED
        BY <1>a, <2>5, <2>6, <3>1, ReaderProc DEF DataInv
    <2>7. (stray = {} /\ FreshInv /\ PinInv /\ CompleteInv)'
      BY <2>2, <2>3, <2>4 DEF DataInv, FreshInv, PinInv, CompleteInv, Complete, TypeInv, TypeOK
    <2> QED
      BY <2>5, <2>6, <2>7 DEF DataInv
  <1> QED
    BY <1>1, <1>2, <1>3, <1>4, <1>5, <1>6 DEF Publishing

LEMMA ReadingData ==
    ASSUME StoreInv, NEW p \in Procs, Reading(p)
    PROVE  DataInv'
  <1> USE DEF StoreInv
  <1>0. job[p] \in Jobs /\ p \in shared
    BY DEF TypeInv, TypeOK, LockInv, SharedSteps, ReaderSteps, Reading, ReadPin, Load, LinkPin,
           UnlinkPin, ReadAccount, ReadRows, SaveExport
  <1>a. ASSUME NEW q \in Procs PROVE pc[q] \notin RetentionSteps
    BY <1>0, ConstantsAssumption DEF LockInv, TypeInv, TypeOK
  <1>b. ProcInv(p)
    BY DEF DataInv
  <1> USE DEF ProcInv, CandidateInv, ReaderInv, RetentionInv, BuildSteps, DropSteps, PublisherSteps
  <1>1. CASE ReadPin(p)
    <2>1. /\ pc'[p] \in {"unlink", "load"} /\ UNCHANGED <<store, pins, used, stray>>
          /\ \A q \in Procs : q # p => pc'[q] = pc[q] /\ job'[q] = job[q]
      BY <1>1 DEF ReadPin, Goto, TypeInv, TypeOK, files
    <2> QED
      BY <2>1, DataFrame
  <1>2. CASE Load(p)
    <2>1. /\ checkpoints[job[p].id] # None /\ UNCHANGED <<store, pins, used, stray>>
          /\ pc'[p] \in {"link", "account"} /\ job'[p].id = job[p].id
          /\ \A q \in Procs : q # p => pc'[q] = pc[q] /\ job'[q] = job[q]
      BY <1>0, <1>2 DEF Load, Goto, TypeInv, TypeOK, files, Jobs
    <2>2. ProcInv(p)'
      BY <2>1 DEF store
    <2> QED
      BY <2>1, <2>2, DataFrame
  <1>3. CASE LinkPin(p)
    <2>1. PICK k \in PinIds : pins[k] = None /\ pins' = [pins EXCEPT ![k] = job[p].id]
      BY <1>3 DEF LinkPin
    <2>2. job[p].id \in Ids /\ checkpoints[job[p].id] # None
      BY <1>b, <1>3 DEF LinkPin, TypeInv, JobOK
    <2>3. UNCHANGED <<store, used, stray>>
      BY <1>3 DEF LinkPin
    <2>4. ProcInv(p)' /\ \A q \in Procs : q # p => pc'[q] = pc[q] /\ job'[q] = job[q]
      BY <1>3, ReturnProc DEF LinkPin
    <2>5. ASSUME NEW q \in Procs, q # p PROVE ProcInv(q)'
      BY <1>a, <2>3, <2>4, <2>5 DEF DataInv, store, RetentionSteps
    <2>6. (stray = {} /\ FreshInv /\ PinInv /\ CompleteInv)'
      BY <2>1, <2>2, <2>3 DEF DataInv, FreshInv, PinInv, CompleteInv, Complete, store,
                              TypeInv, TypeOK
    <2> QED
      BY <2>4, <2>5, <2>6 DEF DataInv
  <1>4. CASE UnlinkPin(p)
    <2>1. pins' = [pins EXCEPT ![job[p].pin] = "released"] /\ UNCHANGED <<store, used, stray>>
      BY <1>4 DEF UnlinkPin
    <2>2. ProcInv(p)' /\ \A q \in Procs : q # p => pc'[q] = pc[q] /\ job'[q] = job[q]
      BY <1>4, ReturnProc DEF UnlinkPin
    <2>3. ASSUME NEW q \in Procs, q # p PROVE ProcInv(q)'
      BY <1>a, <2>1, <2>2, <2>3 DEF DataInv, store, RetentionSteps
    <2>4. (stray = {} /\ FreshInv /\ PinInv /\ CompleteInv)'
      BY <2>1, ConstantsAssumption DEF DataInv, FreshInv, PinInv, CompleteInv, Complete, store,
                                       TypeInv, TypeOK
    <2> QED
      BY <2>2, <2>3, <2>4 DEF DataInv
  <1>5. CASE ReadAccount(p)
    <2>1. CASE job[p].op = "read"
      BY <1>5, <2>1, DataReturn DEF ReadAccount, files
    <2>2. CASE job[p].op # "read"
      <3>1. /\ pc[p] = "account" /\ pc'[p] = "rows" /\ job' = job
            /\ UNCHANGED <<store, pins, used, stray>>
            /\ \A q \in Procs : q # p => pc'[q] = pc[q] /\ job'[q] = job[q]
        BY <1>5, <2>2 DEF ReadAccount, Goto, TypeInv, TypeOK, files
      <3>2. ProcInv(p)'
        BY <1>b, <3>1 DEF store
      <3> QED
        BY <3>1, <3>2, DataFrame
    <2> QED
      BY <2>1, <2>2
  <1>6. CASE ReadRows(p)
    <2>1. CASE job[p].op = "page"
      BY <1>6, <2>1, DataReturn DEF ReadRows, files
    <2>2. CASE job[p].op # "page"
      <3>1. /\ pc[p] = "rows" /\ pc'[p] \in {"save", "rows"} /\ job'[p].id = job[p].id
            /\ UNCHANGED <<store, pins, used, stray>>
            /\ \A q \in Procs : q # p => pc'[q] = pc[q] /\ job'[q] = job[q]
        BY <1>0, <1>6, <2>2 DEF ReadRows, Goto, TypeInv, TypeOK, files, Jobs
      <3>2. ProcInv(p)'
        BY <1>b, <3>1 DEF store
      <3> QED
        BY <3>1, <3>2, DataFrame
    <2> QED
      BY <2>1, <2>2
  <1>7. CASE SaveExport(p)
    BY <1>7, DataReturn DEF SaveExport
  <1> QED
    BY <1>1, <1>2, <1>3, <1>4, <1>5, <1>6, <1>7 DEF Reading

LEMMA PruningData ==
    ASSUME StoreInv, NEW p \in Procs, Pruning(p)
    PROVE  DataInv'
  <1> USE DEF StoreInv
  <1>0. job[p] \in Jobs /\ pc[p] \in RetentionSteps
    BY DEF TypeInv, TypeOK, Pruning, Plan, DropManifest, DropAccounts, DropStorage, PruneDone,
           RetentionSteps
  <1>a. ASSUME NEW q \in Procs, q # p PROVE pc[q] \notin WriterSteps \cup SharedSteps
    BY <1>0, <1>a, BesidePrune
  <1>b. ProcInv(p)
    BY DEF DataInv
  <1>c. ASSUME NEW q \in Procs, q # p, pc'[q] = pc[q] PROVE ProcInv(q)'
    BY <1>a, <1>c DEF ProcInv, CandidateInv, ReaderInv, RetentionInv, BuildSteps, DropSteps,
          PublisherSteps, RetentionSteps, WriterSteps, SharedSteps, ReaderSteps
  <1> USE DEF ProcInv, CandidateInv, ReaderInv, RetentionInv, BuildSteps, DropSteps, PublisherSteps
  <1>1. CASE Plan(p)
    <2>1. PICK rank \in Orders :
            job' = [job EXCEPT ![p].remove = Partitions \ Kept(rank, job[p].keep)]
      BY <1>1 DEF Plan
    <2> DEFINE r == Partitions \ Kept(rank, job[p].keep)
    <2>2. \A k \in PinIds : pins[k] \notin r
      BY DEF Kept, pinned, Partitions, ready
    <2> HIDE DEF r
    <2>3. /\ pc'[p] = "drop" /\ job'[p].remove = r /\ UNCHANGED <<store, pins, used, stray>>
          /\ \A q \in Procs : q # p => pc'[q] = pc[q] /\ job'[q] = job[q]
      BY <1>0, <1>1, <2>1 DEF Plan, Goto, TypeInv, TypeOK, files, Jobs, r
    <2>4. ProcInv(p)'
      BY <2>2, <2>3
    <2> QED
      BY <2>3, <2>4, DataFrame
  <1>2. CASE DropManifest(p)
    <2>1. PICK i \in job[p].remove :
            /\ Execute(DropPartition("checkpoints", i))
            /\ job' = [job EXCEPT ![p].id = i, ![p].remove = @ \ {i}]
      BY <1>2 DEF DropManifest
    <2>2. i \in Ids /\ \A k \in PinIds : pins[k] # i /\ pins[k] \notin job[p].remove
      BY <1>0, <1>b, <1>2 DEF DropManifest, Jobs
    <2>3. /\ UNCHANGED <<accountRows, storageRows, pins, used, stray>>
          /\ checkpoints' = [checkpoints EXCEPT ![i] = None]
      BY <1>2, <2>1 DEF DropManifest, Execute, DropPartition, RowsAfter, files
    <2>4. /\ pc'[p] = "dropAccounts" /\ job'[p].id = i /\ job'[p].remove = job[p].remove \ {i}
          /\ \A q \in Procs : q # p => pc'[q] = pc[q] /\ job'[q] = job[q]
      BY <1>0, <1>2, <2>1 DEF DropManifest, Goto, TypeInv, TypeOK, Jobs
    <2>5. checkpoints'[i] = None
      BY <2>2, <2>3 DEF TypeInv, TypeOK
    <2>6. ProcInv(p)'
      BY <2>2, <2>3, <2>4, <2>5
    <2>7. (stray = {} /\ FreshInv /\ PinInv /\ CompleteInv)'
      BY <2>2, <2>3 DEF DataInv, FreshInv, PinInv, CompleteInv, Complete, TypeInv, TypeOK
    <2> QED
      BY <1>c, <2>4, <2>6, <2>7 DEF DataInv
  <1>3. CASE DropAccounts(p)
    <2>1. job[p].id \in Ids /\ checkpoints[job[p].id] = None
      BY <1>b, <1>3 DEF DropAccounts, TypeInv, JobOK
    <2>2. /\ UNCHANGED <<checkpoints, storageRows, pins, used, stray, job>>
          /\ accountRows' = [accountRows EXCEPT ![job[p].id] = {}]
          /\ pc[p] = "dropAccounts" /\ pc'[p] = "dropStorage"
          /\ \A q \in Procs : q # p => pc'[q] = pc[q]
      BY <1>3 DEF DropAccounts, Execute, DropPartition, RowsAfter, Goto, TypeInv, TypeOK, files
    <2>3. ProcInv(p)'
      BY <1>b, <2>1, <2>2
    <2>4. (stray = {} /\ FreshInv /\ PinInv /\ CompleteInv)'
      BY <2>1, <2>2 DEF DataInv, FreshInv, PinInv, CompleteInv, Complete, TypeInv, TypeOK
    <2> QED
      BY <1>c, <2>2, <2>3, <2>4 DEF DataInv
  <1>4. CASE DropStorage(p)
    <2>1. job[p].id \in Ids /\ checkpoints[job[p].id] = None
      BY <1>b, <1>4 DEF DropStorage, TypeInv, JobOK
    <2>2. /\ UNCHANGED <<checkpoints, accountRows, pins, used, stray, job>>
          /\ storageRows' = [storageRows EXCEPT ![job[p].id] = {}]
          /\ pc[p] = "dropStorage" /\ pc'[p] = "drop"
          /\ \A q \in Procs : q # p => pc'[q] = pc[q]
      BY <1>4 DEF DropStorage, Execute, DropPartition, RowsAfter, Goto, TypeInv, TypeOK, files
    <2>3. ProcInv(p)'
      BY <1>b, <2>1, <2>2
    <2>4. (stray = {} /\ FreshInv /\ PinInv /\ CompleteInv)'
      BY <2>1, <2>2 DEF DataInv, FreshInv, PinInv, CompleteInv, Complete, TypeInv, TypeOK
    <2> QED
      BY <1>c, <2>2, <2>3, <2>4 DEF DataInv
  <1>5. CASE PruneDone(p)
    BY <1>5, DataReturn DEF PruneDone, files
  <1> QED
    BY <1>1, <1>2, <1>3, <1>4, <1>5 DEF Pruning

LEMMA DataStep ==
    ASSUME Late = {}, StoreInv, [Next]_vars
    PROVE  DataInv'
  <1> USE DEF StoreInv
  <1>1. ASSUME NEW p \in Procs, Start(p) PROVE DataInv'
    <2>1. /\ UNCHANGED <<store, pins, used, stray>>
          /\ pc'[p] \in {"publisher", "retention", "reader"}
          /\ \A q \in Procs : q # p => pc'[q] = pc[q] /\ job'[q] = job[q]
      BY <1>1 DEF Start, Build, Import, Pin, Unpin, Page, Read, Export, Prune, TryWriter,
                  WaitReader, Goto, TypeInv, TypeOK, files
    <2>2. ProcInv(p)'
      BY <2>1 DEF ProcInv, CandidateInv, ReaderInv, RetentionInv, BuildSteps, DropSteps,
                  PublisherSteps
    <2> QED
      BY <2>1, <2>2, DataFrame
  <1>2. ASSUME NEW p \in Procs, Advance(p) PROVE DataInv'
    <2>1. CASE TakeShared(p) \/ TakeExclusive(p)
      <3>1. /\ UNCHANGED <<store, pins, used, stray>>
            /\ pc'[p] \in {"admit", "readPin", "load", "plan"}
            /\ \A q \in Procs : q # p => pc'[q] = pc[q] /\ job'[q] = job[q]
        BY <2>1 DEF TakeShared, TakeExclusive, Goto, TypeInv, TypeOK, files
      <3>2. ProcInv(p)'
        BY <3>1 DEF ProcInv, CandidateInv, ReaderInv, RetentionInv, BuildSteps, DropSteps,
                    PublisherSteps
      <3> QED
        BY <3>1, <3>2, DataFrame
    <2>2. CASE RetentionBusy(p)
      BY <2>2, DataReturn DEF RetentionBusy, files
    <2> QED
      BY <1>2, <2>1, <2>2, PublishingData, ReadingData, PruningData DEF Advance
  <1>3. ASSUME NEW p \in Procs, Fail(p) PROVE DataInv'
    BY <1>3, DataReturn DEF Fail, files
  <1>4. ASSUME NEW p \in Procs, Abandon(p) PROVE FALSE
    BY <1>4 DEF Abandon
  <1>5. CASE ExecuteStray
    BY <1>5 DEF ExecuteStray, DataInv
  <1>6. CASE UNCHANGED vars
    BY <1>6 DEF vars, DataInv, FreshInv, PinInv, CompleteInv, Complete, ProcInv, CandidateInv,
                ReaderInv, RetentionInv
  <1> QED
    BY <1>1, <1>2, <1>3, <1>4, <1>5, <1>6 DEF Next

\* The invariant the safety theorems rest on is inductive.
THEOREM StoreInvariant == ASSUME Late = {} PROVE Spec => []StoreInv
  <1>1. Init => StoreInv
    BY TypeInit, LockInit, DataInit DEF StoreInv
  <1>2. StoreInv /\ [Next]_vars => StoreInv'
    BY TypeStep, LockStep, DataStep DEF StoreInv
  <1> QED
    BY <1>1, <1>2, PTL DEF Spec

\* Nothing incomplete is ever ready: every manifest's rows are all stored, for
\* any number of commands failing at any step of build, import and prune.
THEOREM PublishedIsComplete == ASSUME Late = {} PROVE Spec => []ReadyComplete
  <1>1. StoreInv => ReadyComplete
    BY DEF StoreInv, DataInv, CompleteInv, ReadyComplete, ready
  <1> QED
    BY <1>1, StoreInvariant, PTL

\* A pinned checkpoint is never removed.
THEOREM PinsProtect == ASSUME Late = {} PROVE Spec => []PinnedReady
  <1>1. StoreInv => PinnedReady
    BY DEF StoreInv, DataInv, PinInv, PinnedReady, pinned, ready
  <1> QED
    BY <1>1, StoreInvariant, PTL

\* What a reader or a build has loaded stays ready and complete until it
\* returns, whatever the other commands do.
THEOREM InUseIsStable == ASSUME Late = {} PROVE Spec => []StableInUse
  <1>1. ASSUME StoreInv PROVE StableInUse
    <2> SUFFICES ASSUME NEW p \in Procs, NEW i \in InUse(p)
                 PROVE  i \in ready /\ Complete(i)
      BY DEF StableInUse
    <2>1. i \in Ids /\ checkpoints[i] # None
      <3>1. CASE pc[p] \in {"link", "account", "rows", "save"}
        BY <1>1, <3>1 DEF StoreInv, DataInv, ProcInv, ReaderInv, InUse, TypeInv, JobOK
      <3>2. CASE pc[p] = "storage"
        BY <1>1, <3>2 DEF StoreInv, DataInv, ProcInv, CandidateInv, InUse, TypeInv, TypeOK, Jobs
      <3> QED
        BY <3>1, <3>2 DEF InUse
    <2> QED
      BY <1>1, <2>1 DEF StoreInv, DataInv, CompleteInv, ready
  <1> QED
    BY <1>1, StoreInvariant, PTL

----------------------------------------------------------------------------
(* Torn reads, when the database may apply writes after their client has gone *)

LoadedSteps == {"link", "account", "rows", "save"}

\* An id that some command uses, or some statement in flight names, was drawn.
DrawnBy(p) ==
    /\ pc[p] \in BuildSteps \cup LoadedSteps \cup {"dropAccounts", "dropStorage"} => job[p].id \in used
    /\ pc[p] \in DropSteps => job[p].remove \subseteq used

DrawnInv == FreshInv /\ \A s \in stray : s.id \in used

\* A candidate belongs to its publisher alone: it is not visible, no reader
\* uses it and nothing in flight names it.
OwnInv(p) ==
    pc[p] \in BuildSteps =>
        /\ checkpoints[job[p].id] = None
        /\ \A s \in stray : s.id # job[p].id
        /\ \A q \in Procs : pc[q] \in LoadedSteps => job[q].id # job[p].id
        /\ accountRows[job[p].id] \subseteq job[p].accounts
        /\ pc[p] = "accounts" /\ job[p].op = "build" => storageRows[job[p].id] = job[p].accounts
        /\ pc[p] = "manifest" => accountRows[job[p].id] \subseteq storageRows[job[p].id]

\* A checkpoint that is ready, will be when a late manifest arrives, or was
\* when a reader loaded it.
Offered(i) ==
    \/ checkpoints[i] # None
    \/ \E s \in stray : s.id = i /\ s.table = "checkpoints" /\ s.manifest # None
    \/ \E p \in Procs : pc[p] \in LoadedSteps /\ job[p].id = i

\* No late insert can add to such a checkpoint, and its storage rows go only
\* after all of its account rows are gone.
OfferedInv(i) ==
    Offered(i) =>
        /\ accountRows[i] \subseteq storageRows[i]
        /\ \A s \in stray : s.id = i /\ s.table # "checkpoints" => s.drop
        /\ (\E s \in stray : s.id = i /\ s.table = "checkpoint_storage") => accountRows[i] = {}
        /\ \A p \in Procs : pc[p] = "dropStorage" /\ job[p].id = i => accountRows[i] = {}

\* A reader of storage rows has them all, and no statement in flight will
\* remove them.
RowsInv(p) ==
    pc[p] = "rows" =>
        /\ job[p].accounts \subseteq storageRows[job[p].id]
        /\ \A s \in stray : s.id = job[p].id => s.table # "checkpoint_storage"

LateDataInv == /\ DrawnInv
               /\ \A p \in Procs : DrawnBy(p) /\ OwnInv(p) /\ RowsInv(p)
               /\ \A i \in Ids : OfferedInv(i)

LateInv == TypeInv /\ LockInv /\ LateDataInv

LEMMA LateInit == Init => LateDataInv
  BY ConstantsAssumption
     DEF Init, LateDataInv, DrawnInv, FreshInv, DrawnBy, OwnInv, RowsInv, OfferedInv, Offered,
         BuildSteps, DropSteps, LoadedSteps, PublisherSteps

\* A candidate is nothing that is offered.
LEMMA CandidateNotOffered ==
    ASSUME LateDataInv, NEW p \in Procs, pc[p] \in BuildSteps
    PROVE  ~Offered(job[p].id)
  BY DEF LateDataInv, OwnInv, Offered

\* What is offered was drawn.
LEMMA OfferedDrawn ==
    ASSUME LateDataInv, NEW i \in Ids, Offered(i)
    PROVE  i \in used
  BY DEF LateDataInv, DrawnInv, DrawnBy, FreshInv, Offered

\* The parts of the invariant of a process or an id that a step leaves alone.
LEMMA OwnKept ==
    ASSUME NEW q \in Procs, OwnInv(q), pc'[q] = pc[q], job'[q] = job[q],
           checkpoints'[job[q].id] = checkpoints[job[q].id],
           accountRows'[job[q].id] = accountRows[job[q].id],
           storageRows'[job[q].id] = storageRows[job[q].id],
           \A s \in stray' : s \in stray \/ s.id # job[q].id,
           \A r \in Procs : pc'[r] \in LoadedSteps =>
              (pc[r] \in LoadedSteps /\ job'[r].id = job[r].id) \/ job'[r].id # job[q].id
    PROVE  OwnInv(q)'
  BY DEF OwnInv

LEMMA OfferedKept ==
    ASSUME NEW i \in Ids, OfferedInv(i), Offered(i)' => Offered(i),
           accountRows'[i] = accountRows[i], storageRows'[i] = storageRows[i],
           \A s \in stray' : s \in stray \/ s.id # i,
           \A r \in Procs : pc'[r] = "dropStorage" /\ job'[r].id = i =>
              pc[r] = "dropStorage" /\ job[r].id = i
    PROVE  OfferedInv(i)'
  BY DEF OfferedInv

LEMMA OfferedBack ==
    ASSUME NEW i, checkpoints'[i] \in {checkpoints[i], None},
           \A s \in stray' : s \in stray \/ s.id # i,
           \A r \in Procs : pc'[r] \in LoadedSteps /\ job'[r].id = i =>
              pc[r] \in LoadedSteps /\ job[r].id = i
    PROVE  Offered(i)' => Offered(i)
  BY DEF Offered

\* A statement changes only the partition it names, and only its table.
LEMMA ExecuteOne ==
    ASSUME TypeInv, NEW s \in Statements, Execute(s)
    PROVE  /\ \A k \in Ids : k # s.id => /\ checkpoints'[k] = checkpoints[k]
                                         /\ accountRows'[k] = accountRows[k]
                                         /\ storageRows'[k] = storageRows[k]
           /\ s.table # "checkpoints" => checkpoints' = checkpoints
           /\ s.table # "checkpoint_accounts" => accountRows' = accountRows
           /\ s.table # "checkpoint_storage" => storageRows' = storageRows
           /\ s.table = "checkpoints" => checkpoints'[s.id] = s.manifest
           /\ s.table = "checkpoint_accounts" =>
                 accountRows'[s.id] = IF s.drop THEN {} ELSE accountRows[s.id] \cup s.rows
           /\ s.table = "checkpoint_storage" =>
                 storageRows'[s.id] = IF s.drop THEN {} ELSE storageRows[s.id] \cup s.rows
  <1>1. s.id \in Ids
    BY DEF Statements
  <1>2. /\ checkpoints \in [Ids -> Manifests \cup {None}]
        /\ accountRows \in [Ids -> SUBSET Accounts] /\ storageRows \in [Ids -> SUBSET Accounts]
    BY DEF TypeInv, TypeOK
  <1>3. /\ s.table # "checkpoints" => checkpoints' = checkpoints
        /\ s.table = "checkpoints" => checkpoints' = [checkpoints EXCEPT ![s.id] = s.manifest]
    BY DEF Execute
  <1>4. /\ s.table # "checkpoint_accounts" => accountRows' = accountRows
        /\ s.table = "checkpoint_accounts" =>
             accountRows' = [accountRows EXCEPT ![s.id] = IF s.drop THEN {} ELSE @ \cup s.rows]
    BY DEF Execute, RowsAfter
  <1>5. /\ s.table # "checkpoint_storage" => storageRows' = storageRows
        /\ s.table = "checkpoint_storage" =>
             storageRows' = [storageRows EXCEPT ![s.id] = IF s.drop THEN {} ELSE @ \cup s.rows]
    BY DEF Execute, RowsAfter
  <1> QED
    BY <1>1, <1>2, <1>3, <1>4, <1>5

\* A step of p that touches no table, id or statement leaves p's part to check.
LEMMA LateMove ==
    ASSUME LateInv, NEW p \in Procs, UNCHANGED <<store, used, stray>>,
           \A q \in Procs : q # p => pc'[q] = pc[q] /\ job'[q] = job[q],
           DrawnBy(p)', OwnInv(p)', RowsInv(p)',
           pc'[p] \in LoadedSteps => Offered(job'[p].id),
           pc'[p] # "dropStorage"
    PROVE  LateDataInv'
  <1> USE DEF store
  <1>1. LateDataInv
    BY DEF LateInv
  <1>2. DrawnInv'
    BY <1>1 DEF LateDataInv, DrawnInv, FreshInv
  <1>3. ASSUME NEW q \in Procs PROVE DrawnBy(q)' /\ OwnInv(q)' /\ RowsInv(q)'
    <2>1. CASE q = p
      BY <2>1
    <2>2. CASE q # p
      <3>1. DrawnBy(q)' /\ RowsInv(q)'
        BY <1>1, <2>2 DEF LateDataInv, DrawnBy, RowsInv
      <3>2. CASE pc[q] \in BuildSteps
        <4>1. ~Offered(job[q].id)
          BY <1>1, <3>2, CandidateNotOffered
        <4>2. \A r \in Procs : pc'[r] \in LoadedSteps =>
                 (pc[r] \in LoadedSteps /\ job'[r].id = job[r].id) \/ job'[r].id # job[q].id
          BY <4>1
        <4>3. OwnInv(q)
          BY <1>1 DEF LateDataInv
        <4> QED
          BY <2>2, <3>1, <4>2, <4>3, OwnKept
      <3>3. CASE pc[q] \notin BuildSteps
        BY <2>2, <3>1, <3>3 DEF OwnInv
      <3> QED
        BY <3>2, <3>3
    <2> QED
      BY <2>1, <2>2
  <1>4. ASSUME NEW i \in Ids PROVE OfferedInv(i)'
    <2>1. Offered(i)' => Offered(i)
      <3>1. \A r \in Procs : pc'[r] \in LoadedSteps /\ job'[r].id = i => Offered(i)
        BY DEF Offered
      <3> QED
        BY <3>1 DEF Offered
    <2>2. OfferedInv(i)
      BY <1>1 DEF LateDataInv
    <2> QED
      BY <2>1, <2>2, OfferedKept
  <1> QED
    BY <1>2, <1>3, <1>4 DEF LateDataInv

LEMMA LateReturn ==
    ASSUME LateInv, NEW p \in Procs, Return(p), UNCHANGED <<store, used, stray>>
    PROVE  LateDataInv'
  <1>1. /\ pc'[p] = "idle"
        /\ \A q \in Procs : q # p => pc'[q] = pc[q] /\ job'[q] = job[q]
    BY DEF LateInv, TypeInv, TypeOK, Return, Goto
  <1>2. DrawnBy(p)' /\ OwnInv(p)' /\ RowsInv(p)'
    BY <1>1 DEF DrawnBy, OwnInv, RowsInv, BuildSteps, LoadedSteps, DropSteps, PublisherSteps
  <1> QED
    BY <1>1, <1>2, LateMove DEF LoadedSteps

\* A publisher fills the rows of its candidate.
LEMMA CandidateWrite ==
    ASSUME LateInv, NEW p \in Procs, pc[p] \in BuildSteps, NEW s \in Statements, Execute(s),
           s.id = job[p].id, s.table # "checkpoints", UNCHANGED <<job, used, stray>>,
           pc'[p] \in BuildSteps, \A q \in Procs : q # p => pc'[q] = pc[q],
           accountRows'[job[p].id] \subseteq job[p].accounts,
           pc'[p] = "accounts" /\ job[p].op = "build" => storageRows'[job[p].id] = job[p].accounts,
           pc'[p] = "manifest" => accountRows'[job[p].id] \subseteq storageRows'[job[p].id]
    PROVE  LateDataInv'
  <1> DEFINE i == job[p].id
  <1>1. /\ LateDataInv /\ OwnInv(p) /\ DrawnBy(p) /\ i \in used
    BY DEF LateInv, LateDataInv, DrawnBy
  <1>2. /\ checkpoints' = checkpoints
        /\ \A k \in Ids : k # i => accountRows'[k] = accountRows[k] /\ storageRows'[k] = storageRows[k]
    BY ExecuteOne DEF LateInv
  <1>3. ASSUME NEW q \in Procs, q # p PROVE pc[q] \notin WriterSteps
    BY <1>3, BesidePublisher DEF LateInv, BuildSteps
  <1>4. DrawnInv'
    BY <1>1, <1>2 DEF LateDataInv, DrawnInv, FreshInv
  <1>5. \A q \in Procs : pc'[q] \in LoadedSteps => pc[q] \in LoadedSteps
    BY DEF BuildSteps, LoadedSteps, PublisherSteps
  <1>6. DrawnBy(p)' /\ OwnInv(p)' /\ RowsInv(p)'
    <2>1. DrawnBy(p)'
      BY <1>1 DEF DrawnBy, BuildSteps, DropSteps, PublisherSteps
    <2>2. OwnInv(p)'
      BY <1>1, <1>2, <1>5 DEF OwnInv
    <2>3. RowsInv(p)'
      BY DEF RowsInv, BuildSteps, PublisherSteps
    <2> QED
      BY <2>1, <2>2, <2>3
  <1>7. ASSUME NEW q \in Procs, q # p PROVE DrawnBy(q)' /\ OwnInv(q)' /\ RowsInv(q)'
    <2>1. DrawnBy(q)'
      BY <1>1, <1>7 DEF LateDataInv, DrawnBy
    <2>2. OwnInv(q)'
      BY <1>3, <1>7 DEF OwnInv, WriterSteps, BuildSteps
    <2>3. RowsInv(q)'
      <3>1. CASE pc[q] = "rows"
        <4>1. job[q].id \in Ids /\ job[q].id # i
          BY <1>1, <3>1 DEF LateInv, TypeInv, JobOK, OwnInv, LoadedSteps
        <4>2. RowsInv(q)
          BY <1>1 DEF LateDataInv
        <4> QED
          BY <1>2, <1>7, <3>1, <4>1, <4>2 DEF RowsInv
      <3>2. CASE pc[q] # "rows"
        BY <1>7, <3>2 DEF RowsInv
      <3> QED
        BY <3>1, <3>2
    <2> QED
      BY <2>1, <2>2, <2>3
  <1>8. ASSUME NEW k \in Ids PROVE OfferedInv(k)'
    <2>1. Offered(k)' => Offered(k)
      BY <1>2, <1>5 DEF Offered
    <2>2. CASE k = i
      BY <1>1, <2>1, <2>2, CandidateNotOffered DEF OfferedInv
    <2>3. CASE k # i
      <3>1. \A r \in Procs : pc'[r] = "dropStorage" => pc[r] = "dropStorage"
        BY DEF BuildSteps, PublisherSteps
      <3>2. OfferedInv(k)
        BY <1>1 DEF LateDataInv
      <3> QED
        BY <1>2, <2>1, <2>3, <3>1, <3>2, OfferedKept
    <2> QED
      BY <2>2, <2>3
  <1> QED
    BY <1>4, <1>6, <1>7, <1>8 DEF LateDataInv

\* The candidate is handed over: its manifest is inserted, or in flight.
LEMMA CandidateOffered ==
    ASSUME LateInv, NEW p \in Procs, pc[p] = "manifest", Return(p), UNCHANGED used,
           UNCHANGED <<accountRows, storageRows>>,
           \A k \in Ids : k # job[p].id => checkpoints'[k] = checkpoints[k],
           stray \subseteq stray',
           \A s \in stray' \ stray : s.id = job[p].id /\ s.table = "checkpoints"
    PROVE  LateDataInv'
  <1> DEFINE i == job[p].id
  <1>1. /\ LateDataInv /\ OwnInv(p) /\ DrawnBy(p) /\ i \in used /\ i \in Ids
        /\ pc[p] \in BuildSteps /\ pc[p] \in PublisherSteps
    BY DEF LateInv, LateDataInv, DrawnBy, TypeInv, JobOK, BuildSteps, PublisherSteps
  <1>2. ASSUME NEW q \in Procs, q # p PROVE pc[q] \notin WriterSteps
    BY <1>1, <1>2, BesidePublisher DEF LateInv
  <1>3. /\ pc'[p] = "idle"
        /\ \A q \in Procs : q # p => pc'[q] = pc[q] /\ job'[q] = job[q]
    BY DEF LateInv, TypeInv, TypeOK, Return, Goto
  <1>4. DrawnInv'
    BY <1>1 DEF LateDataInv, DrawnInv, FreshInv
  <1>5. \A q \in Procs : pc'[q] \in LoadedSteps =>
           q # p /\ pc[q] \in LoadedSteps /\ job'[q] = job[q] /\ job[q].id # i
    BY <1>1, <1>3 DEF LoadedSteps, OwnInv
  <1>6. ASSUME NEW q \in Procs PROVE DrawnBy(q)' /\ OwnInv(q)' /\ RowsInv(q)'
    <2>1. CASE q = p
      BY <1>3, <2>1 DEF DrawnBy, OwnInv, RowsInv, BuildSteps, LoadedSteps, DropSteps, PublisherSteps
    <2>2. CASE q # p
      <3>1. DrawnBy(q)'
        BY <1>1, <1>3, <2>2 DEF LateDataInv, DrawnBy
      <3>2. OwnInv(q)'
        BY <1>2, <1>3, <2>2 DEF OwnInv, WriterSteps, BuildSteps
      <3>3. RowsInv(q)'
        <4>1. RowsInv(q)
          BY <1>1 DEF LateDataInv
        <4> QED
          BY <1>3, <1>5, <2>2, <4>1 DEF RowsInv, LoadedSteps
      <3> QED
        BY <3>1, <3>2, <3>3
    <2> QED
      BY <2>1, <2>2
  <1>7. ASSUME NEW k \in Ids PROVE OfferedInv(k)'
    <2>1. \A r \in Procs : pc'[r] # "dropStorage"
      BY <1>2, <1>3 DEF WriterSteps, RetentionSteps
    <2>2. CASE k = i
      <3>1. \A s \in stray' : s.id = i => s.table = "checkpoints"
        BY <1>1 DEF OwnInv
      <3>2. accountRows'[i] \subseteq storageRows'[i]
        BY <1>1 DEF OwnInv
      <3> QED
        BY <2>1, <2>2, <3>1, <3>2 DEF OfferedInv
    <2>3. CASE k # i
      <3>1. \A s \in stray' : s \in stray \/ s.id # k
        BY <2>3
      <3>2. Offered(k)' => Offered(k)
        BY <1>5, <2>3, <3>1, OfferedBack
      <3>3. OfferedInv(k)
        BY <1>1 DEF LateDataInv
      <3> QED
        BY <2>1, <3>1, <3>2, <3>3, OfferedKept
    <2> QED
      BY <2>2, <2>3
  <1> QED
    BY <1>4, <1>6, <1>7 DEF LateDataInv

LEMMA PublishingLate ==
    ASSUME LateInv, NEW p \in Procs, Publishing(p)
    PROVE  LateDataInv'
  <1> USE DEF files, store, locks
  <1>1. /\ TypeInv /\ LockInv /\ LateDataInv /\ job[p] \in Jobs /\ OwnInv(p) /\ DrawnBy(p)
        /\ pc \in [Procs -> Steps] /\ job \in [Procs -> Jobs]
    BY DEF LateInv, LateDataInv, TypeInv, TypeOK
  <1>2. CASE Admit(p)
    <2>1. PICK i \in Ids \ used :
            /\ used' = used \cup {i}
            /\ job' = [job EXCEPT ![p].id = i,
                         ![p].inherited = IF job[p].base = None THEN {}
                                          ELSE checkpoints[job[p].base].accounts]
      BY <1>2 DEF Admit
    <2>2. /\ pc[p] = "admit" /\ pc' = [pc EXCEPT ![p] = "storage"]
          /\ UNCHANGED <<checkpoints, accountRows, storageRows, stray>>
      BY <1>2 DEF Admit, Goto
    <2>3. /\ job'[p].id = i /\ job'[p].accounts = job[p].accounts
          /\ pc'[p] = "storage"
          /\ \A q \in Procs : q # p => pc'[q] = pc[q] /\ job'[q] = job[q]
      BY <1>1, <2>1, <2>2 DEF Jobs
    <2>4. checkpoints[i] = None /\ accountRows[i] = {} /\ ~Offered(i)
      BY <1>1, OfferedDrawn DEF LateDataInv, DrawnInv, FreshInv
    <2>5. \A q \in Procs : pc'[q] \in LoadedSteps =>
             q # p /\ pc[q] \in LoadedSteps /\ job'[q] = job[q] /\ job[q].id # i
      BY <2>3, <2>4 DEF LoadedSteps, Offered
    <2>6. DrawnInv'
      BY <1>1, <2>1, <2>2 DEF LateDataInv, DrawnInv, FreshInv
    <2>7. DrawnBy(p)' /\ OwnInv(p)' /\ RowsInv(p)'
      <3>1. \A s \in stray : s.id # i
        BY <1>1 DEF LateDataInv, DrawnInv
      <3>2. OwnInv(p)'
        BY <2>2, <2>3, <2>4, <2>5, <3>1 DEF OwnInv
      <3> QED
        BY <2>1, <2>3, <3>2 DEF DrawnBy, RowsInv, DropSteps
    <2>8. ASSUME NEW q \in Procs, q # p PROVE DrawnBy(q)' /\ OwnInv(q)' /\ RowsInv(q)'
      <3>1. DrawnBy(q)'
        BY <1>1, <2>1, <2>3, <2>8 DEF LateDataInv, DrawnBy
      <3>2. pc[q] \notin WriterSteps
        BY <1>1, <2>2, <2>8, BesidePublisher DEF PublisherSteps
      <3>3. OwnInv(q)'
        BY <2>3, <2>8, <3>2 DEF OwnInv, WriterSteps, BuildSteps
      <3>4. RowsInv(q)'
        BY <1>1, <2>2, <2>3, <2>8 DEF LateDataInv, RowsInv
      <3> QED
        BY <3>1, <3>3, <3>4
    <2>9. ASSUME NEW k \in Ids PROVE OfferedInv(k)'
      <3>1. Offered(k)' => Offered(k)
        BY <2>2, <2>5 DEF Offered
      <3>2. OfferedInv(k) /\ \A r \in Procs : pc'[r] = "dropStorage" /\ job'[r].id = k =>
                                 pc[r] = "dropStorage" /\ job[r].id = k
        BY <1>1, <2>3 DEF LateDataInv
      <3> QED
        BY <2>2, <3>1, <3>2, OfferedKept
    <2> QED
      BY <2>6, <2>7, <2>8, <2>9 DEF LateDataInv
  <1>3. CASE InsertStorage(p)
    <2>1. PICK a \in Available(p) \ storageRows[job[p].id] :
            Execute(InsertRows("checkpoint_storage", job[p].id, {a}))
      BY <1>3 DEF InsertStorage
    <2> DEFINE s == InsertRows("checkpoint_storage", job[p].id, {a})
    <2>2. /\ pc[p] = "storage" /\ pc[p] \in BuildSteps /\ job[p].id \in Ids /\ {a} \in SUBSET Accounts
      BY <1>1, <1>3 DEF InsertStorage, BuildSteps, PublisherSteps, TypeInv, JobOK, Available, Jobs
    <2>3. s \in Statements /\ s.id = job[p].id /\ s.table = "checkpoint_storage"
      BY <2>2, StatementType DEF Tables, InsertRows
    <2> HIDE DEF s
    <2>4. Execute(s) /\ UNCHANGED <<pc, job, used, stray>>
      BY <1>3, <2>1 DEF InsertStorage, s
    <2>5. accountRows' = accountRows
      BY <1>1, <2>3, <2>4, ExecuteOne
    <2>6. accountRows'[job[p].id] \subseteq job[p].accounts
      BY <1>1, <2>2, <2>5 DEF OwnInv
    <2> QED
      BY <2>2, <2>3, <2>4, <2>6, CandidateWrite
  <1>4. CASE StorageInserted(p) \/ Verify(p)
    <2>1. /\ pc[p] \in {"storage", "verify"} /\ UNCHANGED <<store, used, stray, job>>
          /\ pc'[p] = IF job[p].op = "build" THEN (IF pc[p] = "storage" THEN "verify" ELSE "accounts")
                      ELSE (IF pc[p] = "storage" THEN "accounts" ELSE "manifest")
          /\ \A q \in Procs : q # p => pc'[q] = pc[q] /\ job'[q] = job[q]
      BY <1>1, <1>4 DEF StorageInserted, Verify, Goto
    <2>2. pc[p] = "verify" => /\ storageRows[job[p].id] = job[p].accounts
                              /\ job[p].op = "import" => accountRows[job[p].id] = job[p].accounts
      BY <1>4 DEF StorageInserted, Verify
    <2>3. job[p].op \in {"build", "import"} /\ pc[p] \in BuildSteps /\ pc'[p] \in BuildSteps
      BY <1>1, <2>1 DEF TypeInv, JobOK, PublisherSteps, BuildSteps
    <2>4. DrawnBy(p)' /\ RowsInv(p)' /\ pc'[p] \notin LoadedSteps /\ pc'[p] # "dropStorage"
      BY <1>1, <2>1, <2>3 DEF DrawnBy, RowsInv, DropSteps, BuildSteps, PublisherSteps, LoadedSteps
    <2>5. \A q \in Procs : pc'[q] \in LoadedSteps => pc[q] \in LoadedSteps
      BY <2>1, <2>4
    <2>6. OwnInv(p)'
      BY <1>1, <2>1, <2>2, <2>3, <2>5 DEF OwnInv
    <2> QED
      BY <2>1, <2>4, <2>6, LateMove
  <1>5. CASE InsertAccounts(p)
    <2> DEFINE s == InsertRows("checkpoint_accounts", job[p].id, job[p].accounts)
    <2>1. /\ pc[p] = "accounts" /\ pc[p] \in BuildSteps /\ job[p].id \in Ids
          /\ job[p].accounts \in SUBSET Accounts /\ job[p].op \in {"build", "import"}
      BY <1>1, <1>5 DEF InsertAccounts, BuildSteps, PublisherSteps, TypeInv, JobOK, Jobs
    <2>2. /\ s \in Statements /\ s.id = job[p].id /\ s.table = "checkpoint_accounts"
          /\ ~s.drop /\ s.rows = job[p].accounts
      BY <2>1, StatementType DEF Tables, InsertRows
    <2> HIDE DEF s
    <2>3. /\ Execute(s) /\ UNCHANGED <<job, used, stray>>
          /\ pc'[p] = IF job[p].op = "build" THEN "manifest" ELSE "verify"
          /\ \A q \in Procs : q # p => pc'[q] = pc[q]
      BY <1>1, <1>5 DEF InsertAccounts, Goto, s
    <2>4. /\ accountRows'[job[p].id] = accountRows[job[p].id] \cup job[p].accounts
          /\ storageRows' = storageRows
      BY <1>1, <2>2, <2>3, ExecuteOne
    <2>5. accountRows'[job[p].id] = job[p].accounts
      BY <1>1, <2>1, <2>4 DEF OwnInv
    <2>6. pc'[p] = "manifest" => accountRows'[job[p].id] \subseteq storageRows'[job[p].id]
      BY <1>1, <2>1, <2>3, <2>4, <2>5 DEF OwnInv
    <2>7. pc'[p] \in BuildSteps /\ pc'[p] # "accounts"
      BY <2>3 DEF BuildSteps, PublisherSteps
    <2> QED
      BY <2>1, <2>2, <2>3, <2>5, <2>6, <2>7, CandidateWrite
  <1>6. CASE Publish(p)
    <2>1. pc[p] = "manifest" /\ Return(p) /\ UNCHANGED <<used, stray>>
      BY <1>6 DEF Publish
    <2>2. PICK created \in Times : Execute(NewManifest(p, created))
      BY <1>6 DEF Publish
    <2> DEFINE s == NewManifest(p, created)
    <2>3. s \in Statements /\ s.id = job[p].id /\ s.table = "checkpoints"
      BY <1>1, <2>1, ManifestType DEF NewManifest, InsertManifest
    <2> HIDE DEF s
    <2>4. Execute(s)
      BY <2>2 DEF s
    <2>5. /\ accountRows' = accountRows /\ storageRows' = storageRows
          /\ \A k \in Ids : k # job[p].id => checkpoints'[k] = checkpoints[k]
      BY <1>1, <2>3, <2>4, ExecuteOne
    <2> QED
      BY <2>1, <2>5, CandidateOffered
  <1> QED
    BY <1>2, <1>3, <1>4, <1>5, <1>6 DEF Publishing

LEMMA ReadingLate ==
    ASSUME LateInv, NEW p \in Procs, Reading(p)
    PROVE  LateDataInv'
  <1> USE DEF files, store, locks
  <1>1. /\ TypeInv /\ LockInv /\ LateDataInv /\ job[p] \in Jobs /\ DrawnBy(p) /\ RowsInv(p)
        /\ pc \in [Procs -> Steps] /\ job \in [Procs -> Jobs]
    BY DEF LateInv, LateDataInv, TypeInv, TypeOK
  <1>2. UNCHANGED <<store, used, stray>>
    BY DEF Reading, ReadPin, Load, LinkPin, UnlinkPin, ReadAccount, ReadRows, SaveExport
  <1>3. CASE Return(p)
    BY <1>2, <1>3, LateReturn
  <1>4. CASE ReadPin(p)
    <2>1. /\ pc'[p] \in {"unlink", "load"}
          /\ \A q \in Procs : q # p => pc'[q] = pc[q] /\ job'[q] = job[q]
      BY <1>1, <1>4 DEF ReadPin, Goto
    <2>2. DrawnBy(p)' /\ OwnInv(p)' /\ RowsInv(p)' /\ pc'[p] \notin LoadedSteps /\ pc'[p] # "dropStorage"
      BY <2>1 DEF DrawnBy, OwnInv, RowsInv, BuildSteps, LoadedSteps, DropSteps, PublisherSteps
    <2> QED
      BY <1>2, <2>1, <2>2, LateMove
  <1>5. CASE Load(p)
    <2>1. /\ pc'[p] \in {"link", "account"} /\ job'[p].id = job[p].id /\ checkpoints[job[p].id] # None
          /\ \A q \in Procs : q # p => pc'[q] = pc[q] /\ job'[q] = job[q]
      BY <1>1, <1>5 DEF Load, Goto, Jobs
    <2>2. Offered(job[p].id) /\ job[p].id \in Ids
      BY <1>1, <1>5, <2>1 DEF Load, Offered, TypeInv, JobOK
    <2>3. DrawnBy(p)' /\ OwnInv(p)' /\ RowsInv(p)' /\ pc'[p] # "dropStorage"
      <3>1. job[p].id \in used
        BY <1>1, <2>2, OfferedDrawn
      <3> QED
        BY <1>2, <2>1, <3>1
           DEF DrawnBy, OwnInv, RowsInv, BuildSteps, LoadedSteps, DropSteps, PublisherSteps
    <2> QED
      BY <1>2, <2>1, <2>2, <2>3, LateMove
  <1>6. CASE ReadAccount(p) /\ ~Return(p)
    <2>1. /\ pc[p] = "account" /\ pc'[p] = "rows" /\ job' = job
          /\ job[p].accounts \subseteq accountRows[job[p].id]
          /\ \A q \in Procs : q # p => pc'[q] = pc[q] /\ job'[q] = job[q]
      BY <1>1, <1>6 DEF ReadAccount, Goto
    <2>2. Offered(job[p].id) /\ job[p].id \in Ids /\ job[p].accounts # {}
      BY <1>1, <2>1 DEF Offered, TypeInv, JobOK, LoadedSteps
    <2>3. OfferedInv(job[p].id)
      BY <1>1, <2>2 DEF LateDataInv
    <2>4. /\ job[p].accounts \subseteq storageRows[job[p].id]
          /\ \A s \in stray : s.id = job[p].id => s.table # "checkpoint_storage"
      BY <2>1, <2>2, <2>3 DEF OfferedInv
    <2>5. DrawnBy(p)' /\ OwnInv(p)' /\ RowsInv(p)' /\ pc'[p] # "dropStorage"
      BY <1>1, <1>2, <2>1, <2>4
         DEF DrawnBy, OwnInv, RowsInv, BuildSteps, LoadedSteps, DropSteps, PublisherSteps
    <2> QED
      BY <1>2, <2>1, <2>2, <2>5, LateMove
  <1>7. CASE ReadRows(p) /\ ~Return(p)
    <2>1. /\ pc[p] = "rows" /\ pc'[p] \in {"rows", "save"}
          /\ job'[p].id = job[p].id /\ job'[p].accounts = job[p].accounts
          /\ \A q \in Procs : q # p => pc'[q] = pc[q] /\ job'[q] = job[q]
      BY <1>1, <1>7 DEF ReadRows, Goto, Jobs
    <2>2. Offered(job[p].id)
      BY <2>1 DEF Offered, LoadedSteps
    <2>3. DrawnBy(p)' /\ OwnInv(p)' /\ RowsInv(p)' /\ pc'[p] # "dropStorage"
      BY <1>1, <1>2, <2>1
         DEF DrawnBy, OwnInv, RowsInv, BuildSteps, LoadedSteps, DropSteps, PublisherSteps
    <2> QED
      BY <1>2, <2>1, <2>2, <2>3, LateMove
  <1> QED
    BY <1>3, <1>4, <1>5, <1>6, <1>7 DEF Reading, LinkPin, UnlinkPin, SaveExport

\* While a prune has readers.lock nobody publishes and nobody reads: only
\* what is offered is left to check.
LEMMA PruneAlone ==
    ASSUME LateInv, NEW p \in Procs, pc[p] \in RetentionSteps, UNCHANGED used, DrawnInv',
           \A q \in Procs : q # p => pc'[q] = pc[q] /\ job'[q] = job[q],
           pc'[p] \notin BuildSteps \cup LoadedSteps, DrawnBy(p)',
           \A k \in Ids : OfferedInv(k)'
    PROVE  LateDataInv'
  <1>1. TypeInv /\ LockInv /\ LateDataInv
    BY DEF LateInv
  <1>2. ASSUME NEW q \in Procs PROVE DrawnBy(q)' /\ OwnInv(q)' /\ RowsInv(q)'
    <2>1. pc'[q] \notin BuildSteps \cup LoadedSteps
      BY <1>1, BesidePrune DEF WriterSteps, SharedSteps, BuildSteps, LoadedSteps, ReaderSteps,
                               PublisherSteps
    <2>2. DrawnBy(q)'
      BY <1>1 DEF LateDataInv, DrawnBy
    <2> QED
      BY <2>1, <2>2 DEF OwnInv, RowsInv, LoadedSteps
  <1> QED
    BY <1>2 DEF LateDataInv

LEMMA PruningLate ==
    ASSUME LateInv, NEW p \in Procs, Pruning(p)
    PROVE  LateDataInv'
  <1> USE DEF files, store, locks
  <1>1. /\ TypeInv /\ LockInv /\ LateDataInv /\ job[p] \in Jobs /\ DrawnBy(p)
        /\ pc \in [Procs -> Steps] /\ job \in [Procs -> Jobs]
        /\ \A k \in Ids : OfferedInv(k)
    BY DEF LateInv, LateDataInv, TypeInv, TypeOK
  <1>2. pc[p] \in RetentionSteps /\ UNCHANGED <<used, stray>>
    BY DEF Pruning, Plan, DropManifest, DropAccounts, DropStorage, PruneDone, RetentionSteps
  <1>3. \A q \in Procs : q # p => pc[q] \notin WriterSteps \cup SharedSteps
    BY <1>1, <1>2, BesidePrune
  <1>4. \A q \in Procs : q # p => pc[q] \notin LoadedSteps \cup BuildSteps /\ pc[q] # "dropStorage"
    BY <1>3 DEF WriterSteps, SharedSteps, LoadedSteps, ReaderSteps, RetentionSteps, BuildSteps
  <1>5. CASE PruneDone(p)
    BY <1>5, LateReturn DEF PruneDone
  <1>6. CASE Plan(p)
    <2>1. PICK rank \in Orders : job' = [job EXCEPT ![p].remove = Partitions \ Kept(rank, job[p].keep)]
      BY <1>6 DEF Plan
    <2>2. /\ pc'[p] = "drop" /\ job'[p].remove = Partitions \ Kept(rank, job[p].keep)
          /\ \A q \in Procs : q # p => pc'[q] = pc[q] /\ job'[q] = job[q]
      BY <1>1, <1>6, <2>1 DEF Plan, Goto, Jobs
    <2>3. Partitions \subseteq used
      BY <1>1 DEF Partitions, ready, LateDataInv, DrawnInv, FreshInv
    <2>4. DrawnBy(p)' /\ OwnInv(p)' /\ RowsInv(p)' /\ pc'[p] \notin LoadedSteps /\ pc'[p] # "dropStorage"
      BY <1>2, <2>2, <2>3
         DEF DrawnBy, OwnInv, RowsInv, BuildSteps, LoadedSteps, DropSteps, PublisherSteps
    <2>5. UNCHANGED <<store, used, stray>>
      BY <1>6 DEF Plan
    <2> QED
      BY <2>2, <2>4, <2>5, LateMove
  <1>7. CASE DropManifest(p)
    <2>1. PICK i \in job[p].remove :
            /\ Execute(DropPartition("checkpoints", i))
            /\ job' = [job EXCEPT ![p].id = i, ![p].remove = @ \ {i}]
      BY <1>7 DEF DropManifest
    <2> DEFINE s == DropPartition("checkpoints", i)
    <2>2. i \in Ids /\ i \in used /\ job[p].remove \subseteq used
      BY <1>1, <1>7, <2>1 DEF DropManifest, DrawnBy, DropSteps, Jobs
    <2>3. s \in Statements /\ s.id = i /\ s.table = "checkpoints" /\ s.manifest = None
      BY <2>2, StatementType DEF Tables, DropPartition
    <2> HIDE DEF s
    <2>4. Execute(s)
      BY <2>1 DEF s
    <2>5. /\ accountRows' = accountRows /\ storageRows' = storageRows
          /\ \A k \in Ids : checkpoints'[k] \in {checkpoints[k], None}
      BY <1>1, <2>3, <2>4, ExecuteOne
    <2>6. /\ pc'[p] = "dropAccounts" /\ job'[p].id = i /\ job'[p].remove = job[p].remove \ {i}
          /\ \A q \in Procs : q # p => pc'[q] = pc[q] /\ job'[q] = job[q]
      BY <1>1, <1>7, <2>1 DEF DropManifest, Goto, Jobs
    <2>7. DrawnInv'
      BY <1>1, <1>2, <2>5 DEF LateDataInv, DrawnInv, FreshInv
    <2>8. DrawnBy(p)' /\ pc'[p] \notin BuildSteps \cup LoadedSteps
      BY <1>2, <2>2, <2>6 DEF DrawnBy, BuildSteps, LoadedSteps, DropSteps, PublisherSteps
    <2>9. ASSUME NEW k \in Ids PROVE OfferedInv(k)'
      <3>1. Offered(k)' => Offered(k)
        BY <1>2, <1>4, <2>5, <2>6, <2>8, OfferedBack
      <3> QED
        BY <1>1, <1>2, <1>4, <2>5, <2>6, <3>1, OfferedKept
    <2> QED
      BY <1>2, <2>6, <2>7, <2>8, <2>9, PruneAlone
  <1>8. CASE DropAccounts(p) \/ DropStorage(p)
    <2> DEFINE i == job[p].id
               table == IF pc[p] = "dropAccounts" THEN "checkpoint_accounts" ELSE "checkpoint_storage"
               s == DropPartition(table, i)
    <2>1. /\ pc[p] \in {"dropAccounts", "dropStorage"} /\ Execute(s) /\ job' = job
          /\ pc'[p] = IF pc[p] = "dropAccounts" THEN "dropStorage" ELSE "drop"
          /\ \A q \in Procs : q # p => pc'[q] = pc[q] /\ job'[q] = job[q]
      BY <1>1, <1>8 DEF DropAccounts, DropStorage, Goto
    <2>2. i \in Ids /\ i \in used /\ table \in Tables
      BY <1>1, <2>1 DEF DrawnBy, TypeInv, JobOK, Tables
    <2>3. s \in Statements /\ s.id = i /\ s.table = table /\ s.drop
      BY <2>2, StatementType DEF DropPartition
    <2>4. table \in {"checkpoint_accounts", "checkpoint_storage"}
      OBVIOUS
    <2>5. pc[p] = "dropAccounts" <=> table = "checkpoint_accounts"
      OBVIOUS
    <2> HIDE DEF s, table
    <2>6. /\ checkpoints' = checkpoints
          /\ \A k \in Ids : k # i => accountRows'[k] = accountRows[k] /\ storageRows'[k] = storageRows[k]
          /\ table = "checkpoint_accounts" => accountRows'[i] = {}
          /\ table = "checkpoint_storage" => accountRows' = accountRows
      BY <1>1, <2>1, <2>3, <2>4, ExecuteOne
    <2>7. DrawnInv'
      BY <1>1, <1>2, <2>2, <2>6 DEF LateDataInv, DrawnInv, FreshInv
    <2>8. DrawnBy(p)' /\ pc'[p] \notin BuildSteps \cup LoadedSteps
      BY <1>1, <1>2, <2>1, <2>2 DEF DrawnBy, BuildSteps, LoadedSteps, DropSteps, PublisherSteps
    <2>9. ASSUME NEW k \in Ids PROVE OfferedInv(k)'
      <3>1. Offered(k)' => Offered(k)
        BY <1>2, <1>4, <2>1, <2>6, <2>8, OfferedBack
      <3>2. CASE k # i
        <4>1. \A r \in Procs : ~(pc'[r] = "dropStorage" /\ job'[r].id = k)
          BY <1>4, <2>1, <3>2
        <4> QED
          BY <1>1, <1>2, <2>6, <3>1, <3>2, <4>1, OfferedKept
      <3>3. CASE k = i
        <4>1. Offered(i) => accountRows'[i] = {}
          BY <1>1, <2>1, <2>2, <2>4, <2>5, <2>6 DEF OfferedInv
        <4>2. Offered(i) => \A t \in stray' : t.id = i /\ t.table # "checkpoints" => t.drop
          BY <1>1, <1>2, <2>2 DEF OfferedInv
        <4> QED
          BY <3>1, <3>3, <4>1, <4>2 DEF OfferedInv
      <3> QED
        BY <3>2, <3>3
    <2> QED
      BY <1>2, <2>1, <2>7, <2>8, <2>9, PruneAlone
  <1> QED
    BY <1>5, <1>6, <1>7, <1>8 DEF Pruning

\* A client gives up while its statement is in flight.
LEMMA AbandonLate ==
    ASSUME LateInv, NEW p \in Procs, Abandon(p)
    PROVE  LateDataInv'
  <1> USE DEF files, store, locks
  <1>1. /\ TypeInv /\ LockInv /\ LateDataInv /\ job[p] \in Jobs /\ DrawnBy(p) /\ OwnInv(p)
        /\ pc \in [Procs -> Steps] /\ job \in [Procs -> Jobs]
        /\ \A k \in Ids : OfferedInv(k)
    BY DEF LateInv, LateDataInv, TypeInv, TypeOK
  <1>2. PICK s \in InFlight(p) : stray' = stray \cup {s}
    BY DEF Abandon
  <1>3. Return(p) /\ UNCHANGED <<store, used>>
    BY DEF Abandon
  <1>4. /\ pc'[p] = "idle"
        /\ \A q \in Procs : q # p => pc'[q] = pc[q] /\ job'[q] = job[q]
    BY <1>1, <1>3 DEF Return, Goto
  <1>5. CASE pc[p] = "manifest"
    <2>1. s.id = job[p].id /\ s.table = "checkpoints"
      BY <1>2, <1>5 DEF InFlight, NewManifest, InsertManifest
    <2> QED
      BY <1>2, <1>3, <1>5, <2>1, CandidateOffered
  <1>6. CASE pc[p] \in {"storage", "accounts"}
    <2> DEFINE i == job[p].id
    <2>1. s.id = i /\ s.table # "checkpoints"
      BY <1>2, <1>6 DEF InFlight, InsertRows
    <2>2. pc[p] \in BuildSteps /\ pc[p] \in PublisherSteps /\ i \in used
      BY <1>1, <1>6 DEF BuildSteps, PublisherSteps, DrawnBy
    <2>3. ~Offered(i)
      BY <1>1, <2>2, CandidateNotOffered
    <2>4. \A q \in Procs : q # p => pc[q] \notin WriterSteps
      BY <1>1, <2>2, BesidePublisher
    <2>5. \A k : Offered(k)' => Offered(k)
      BY <1>2, <1>3, <1>4, <2>1 DEF Offered, LoadedSteps
    <2>6. DrawnInv'
      BY <1>1, <1>2, <1>3, <2>1, <2>2 DEF LateDataInv, DrawnInv, FreshInv
    <2>7. ASSUME NEW q \in Procs PROVE DrawnBy(q)' /\ OwnInv(q)' /\ RowsInv(q)'
      <3>1. CASE q = p
        BY <1>4, <3>1
           DEF DrawnBy, OwnInv, RowsInv, BuildSteps, LoadedSteps, DropSteps, PublisherSteps
      <3>2. CASE q # p
        <4>1. DrawnBy(q)'
          BY <1>1, <1>3, <1>4, <3>2 DEF LateDataInv, DrawnBy
        <4>2. OwnInv(q)'
          BY <1>4, <2>4, <3>2 DEF OwnInv, WriterSteps, BuildSteps
        <4>3. RowsInv(q)'
          <5>1. pc[q] = "rows" => job[q].id # i
            BY <2>3 DEF Offered, LoadedSteps
          <5>2. RowsInv(q)
            BY <1>1 DEF LateDataInv
          <5> QED
            BY <1>2, <1>3, <1>4, <2>1, <3>2, <5>1, <5>2 DEF RowsInv
        <4> QED
          BY <4>1, <4>2, <4>3
      <3> QED
        BY <3>1, <3>2
    <2>8. ASSUME NEW k \in Ids PROVE OfferedInv(k)'
      <3>1. CASE k = i
        BY <2>3, <2>5, <3>1 DEF OfferedInv
      <3>2. CASE k # i
        <4>1. /\ \A t \in stray' : t \in stray \/ t.id # k
              /\ \A r \in Procs : pc'[r] = "dropStorage" /\ job'[r].id = k =>
                    pc[r] = "dropStorage" /\ job[r].id = k
          BY <1>2, <1>4, <2>1, <3>2
        <4> QED
          BY <1>1, <1>3, <2>5, <4>1, OfferedKept
      <3> QED
        BY <3>1, <3>2
    <2> QED
      BY <2>6, <2>7, <2>8 DEF LateDataInv
  <1>7. CASE pc[p] \in DropSteps
    <2>1. /\ s.drop /\ s.manifest = None /\ s.id \in used /\ s.id \in Ids
          /\ s.table = "checkpoint_storage" => pc[p] = "dropStorage" /\ s.id = job[p].id
      <3>1. CASE pc[p] = "drop"
        BY <1>1, <1>2, <3>1 DEF InFlight, DropPartition, DrawnBy, DropSteps, Jobs
      <3>2. CASE pc[p] = "dropAccounts"
        BY <1>1, <1>2, <3>2 DEF InFlight, DropPartition, DrawnBy, TypeInv, JobOK
      <3>3. CASE pc[p] = "dropStorage"
        BY <1>1, <1>2, <3>3 DEF InFlight, DropPartition, DrawnBy, TypeInv, JobOK
      <3> QED
        BY <1>7, <3>1, <3>2, <3>3 DEF DropSteps
    <2>2. pc[p] \in RetentionSteps
      BY <1>7 DEF DropSteps, RetentionSteps
    <2>3. DrawnInv'
      BY <1>1, <1>2, <1>3, <2>1 DEF LateDataInv, DrawnInv, FreshInv
    <2>4. DrawnBy(p)' /\ pc'[p] \notin BuildSteps \cup LoadedSteps
      BY <1>4 DEF DrawnBy, BuildSteps, LoadedSteps, DropSteps, PublisherSteps
    <2>5. ASSUME NEW k \in Ids PROVE OfferedInv(k)'
      <3>1. Offered(k)' => Offered(k)
        BY <1>2, <1>3, <1>4, <2>1 DEF Offered, LoadedSteps
      <3>2. OfferedInv(k)
        BY <1>1
      <3> QED
        BY <1>2, <1>3, <1>4, <2>1, <3>1, <3>2 DEF OfferedInv
    <2> QED
      BY <1>3, <1>4, <2>2, <2>3, <2>4, <2>5, PruneAlone
  <1>8. CASE pc[p] \notin {"manifest", "storage", "accounts"} \cup DropSteps
    BY <1>2, <1>8 DEF InFlight, DropSteps
  <1> QED
    BY <1>5, <1>6, <1>7, <1>8

\* The database applies a statement that nobody waits for.
LEMMA StrayLate ==
    ASSUME LateInv, ExecuteStray
    PROVE  LateDataInv'
  <1> USE DEF files, store, locks
  <1>1. /\ TypeInv /\ LateDataInv /\ stray \subseteq Statements
        /\ \A k \in Ids : OfferedInv(k)
    BY DEF LateInv, LateDataInv, TypeInv, TypeOK
  <1>2. PICK s \in stray : Execute(s) /\ stray' = stray \ {s} /\ UNCHANGED <<pc, job, used>>
    BY DEF ExecuteStray
  <1> DEFINE i == s.id
  <1>3. s \in Statements /\ i \in Ids /\ i \in used /\ s.table \in Tables /\ s.drop \in BOOLEAN
    BY <1>1, <1>2 DEF Statements, LateDataInv, DrawnInv
  <1>4. /\ \A k \in Ids : k # i => /\ checkpoints'[k] = checkpoints[k]
                                   /\ accountRows'[k] = accountRows[k]
                                   /\ storageRows'[k] = storageRows[k]
        /\ s.table # "checkpoints" => checkpoints' = checkpoints
        /\ s.table # "checkpoint_accounts" => accountRows' = accountRows
        /\ s.table # "checkpoint_storage" => storageRows' = storageRows
        /\ s.table = "checkpoints" => checkpoints'[i] = s.manifest
        /\ s.table = "checkpoint_accounts" /\ s.drop => accountRows'[i] = {}
    BY <1>1, <1>2, <1>3, ExecuteOne
  <1>5. \A k \in Ids : Offered(k)' => Offered(k)
    <2>1. SUFFICES ASSUME NEW k \in Ids, Offered(k)' PROVE Offered(k)
      OBVIOUS
    <2>2. CASE checkpoints'[k] = checkpoints[k]
      BY <1>2, <2>1, <2>2 DEF Offered
    <2>3. CASE checkpoints'[k] # checkpoints[k]
      <3>1. k = i /\ s.table = "checkpoints"
        BY <1>3, <1>4, <2>3
      <3> QED
        BY <1>2, <1>4, <2>1, <3>1 DEF Offered
    <2> QED
      BY <2>2, <2>3
  <1>6. DrawnInv'
    BY <1>1, <1>2, <1>3, <1>4 DEF LateDataInv, DrawnInv, FreshInv
  <1>7. ASSUME NEW q \in Procs PROVE DrawnBy(q)' /\ OwnInv(q)' /\ RowsInv(q)'
    <2>1. DrawnBy(q) /\ OwnInv(q) /\ RowsInv(q)
      BY <1>1 DEF LateDataInv
    <2>2. DrawnBy(q)'
      BY <1>2, <2>1 DEF DrawnBy
    <2>3. OwnInv(q)'
      <3>1. CASE pc[q] \in BuildSteps
        <4>1. job[q].id \in Ids /\ job[q].id # i
          BY <1>1, <1>2, <2>1, <3>1 DEF OwnInv, TypeInv, JobOK, BuildSteps
        <4> QED
          BY <1>2, <1>4, <2>1, <4>1, OwnKept
      <3>2. CASE pc[q] \notin BuildSteps
        BY <1>2, <3>2 DEF OwnInv
      <3> QED
        BY <3>1, <3>2
    <2>4. RowsInv(q)'
      <3>1. CASE pc[q] = "rows"
        <4>1. job[q].id \in Ids
          BY <1>1, <3>1 DEF TypeInv, JobOK
        <4>2. storageRows'[job[q].id] = storageRows[job[q].id]
          BY <1>2, <1>4, <2>1, <3>1, <4>1 DEF RowsInv
        <4> QED
          BY <1>2, <2>1, <4>2 DEF RowsInv
      <3>2. CASE pc[q] # "rows"
        BY <1>2, <3>2 DEF RowsInv
      <3> QED
        BY <3>1, <3>2
    <2> QED
      BY <2>2, <2>3, <2>4
  <1>8. ASSUME NEW k \in Ids PROVE OfferedInv(k)'
    <2>1. CASE k # i \/ s.table = "checkpoints"
      <3>1. accountRows'[k] = accountRows[k] /\ storageRows'[k] = storageRows[k]
        BY <1>4, <2>1
      <3> QED
        BY <1>1, <1>2, <1>5, <3>1, OfferedKept
    <2>2. CASE k = i /\ s.table # "checkpoints"
      <3>1. SUFFICES ASSUME Offered(i)' PROVE OfferedInv(i)'
        BY <2>2 DEF OfferedInv
      <3>2. Offered(i) /\ OfferedInv(i) /\ s.drop
        BY <1>1, <1>2, <1>3, <1>5, <2>2, <3>1 DEF OfferedInv
      <3>3. accountRows'[i] = {} \/ (accountRows' = accountRows /\ storageRows' = storageRows)
        <4>1. CASE s.table = "checkpoint_accounts"
          BY <1>4, <3>2, <4>1
        <4>2. CASE s.table = "checkpoint_storage"
          BY <1>2, <1>4, <3>2, <4>2 DEF OfferedInv
        <4> QED
          BY <1>3, <2>2, <4>1, <4>2 DEF Tables
      <3>4. accountRows'[i] \subseteq storageRows'[i]
        BY <3>2, <3>3 DEF OfferedInv
      <3> QED
        BY <1>2, <3>2, <3>3, <3>4 DEF OfferedInv
    <2> QED
      BY <2>1, <2>2
  <1> QED
    BY <1>6, <1>7, <1>8 DEF LateDataInv

LEMMA LateStep == LateInv /\ [Next]_vars => LateDataInv'
  <1> SUFFICES ASSUME LateInv, [Next]_vars PROVE LateDataInv'
    OBVIOUS
  <1> USE DEF files, store, locks
  <1>1. ASSUME NEW p \in Procs, Start(p) \/ TakeShared(p) \/ TakeExclusive(p) PROVE LateDataInv'
    <2>1. /\ UNCHANGED <<store, used, stray>>
          /\ pc'[p] \in {"publisher", "retention", "reader", "admit", "readPin", "load", "plan"}
          /\ \A q \in Procs : q # p => pc'[q] = pc[q] /\ job'[q] = job[q]
      BY <1>1 DEF Start, Build, Import, Pin, Unpin, Page, Read, Export, Prune, TryWriter, WaitReader,
                  TakeShared, TakeExclusive, Goto, LateInv, TypeInv, TypeOK
    <2>2. DrawnBy(p)' /\ OwnInv(p)' /\ RowsInv(p)' /\ pc'[p] \notin LoadedSteps /\ pc'[p] # "dropStorage"
      BY <2>1 DEF DrawnBy, OwnInv, RowsInv, BuildSteps, LoadedSteps, DropSteps, PublisherSteps
    <2> QED
      BY <2>1, <2>2, LateMove
  <1>2. ASSUME NEW p \in Procs, RetentionBusy(p) \/ Fail(p) PROVE LateDataInv'
    BY <1>2, LateReturn DEF RetentionBusy, Fail
  <1>3. CASE UNCHANGED vars
    <2>1. LateDataInv
      BY DEF LateInv
    <2>2. DrawnInv' /\ \A p \in Procs : DrawnBy(p)' /\ OwnInv(p)' /\ RowsInv(p)'
      BY <1>3, <2>1 DEF vars, LateDataInv, DrawnInv, FreshInv, DrawnBy, OwnInv, RowsInv
    <2>3. \A i \in Ids : OfferedInv(i)'
      BY <1>3, <2>1 DEF vars, LateDataInv, OfferedInv, Offered
    <2> QED
      BY <2>2, <2>3 DEF LateDataInv
  <1> QED
    BY <1>1, <1>2, <1>3, PublishingLate, ReadingLate, PruningLate, AbandonLate, StrayLate
       DEF Next, Advance

\* The invariant behind the next theorem, whatever writes the database applies
\* after their client has gone.
THEOREM LateInvariant == Spec => []LateInv
  <1>1. Init => LateInv
    BY TypeInit, LockInit, LateInit DEF LateInv
  <1>2. LateInv /\ [Next]_vars => LateInv'
    BY TypeStep, LockStep, LateStep DEF LateInv
  <1> QED
    BY <1>1, <1>2, PTL DEF Spec

\* A reader that found its account row has all of the account's storage rows,
\* even if inserts and drops of abandoned commands arrive at any time: no
\* assumption on Late is needed.
THEOREM ReadsAreNeverTorn == Spec => []NoTornRead
  <1>1. LateInv => NoTornRead
    BY DEF LateInv, LateDataInv, RowsInv, NoTornRead
  <1> QED
    BY <1>1, LateInvariant, PTL

----------------------------------------------------------------------------
(* The plan of a prune, and what it keeps                                   *)

\* A prune in progress has spared a checkpoint at least as recent for every
\* account of every ready checkpoint, its own victims included.
Spared(remove) ==
    \A i \in ready : \A a \in checkpoints[i].accounts :
        \E k \in ready \ remove : /\ a \in checkpoints[k].accounts
                                  /\ checkpoints[k].number >= checkpoints[i].number

HeightInv == \A p \in Procs : pc[p] \in DropSteps => Spared(job[p].remove)

FullInv == StoreInv /\ HeightInv

\* A non-empty set of natural numbers has a least element.
LEMMA LeastNatural ==
    ASSUME NEW T \in SUBSET Nat, T # {}
    PROVE  \E x \in T : \A y \in T : x <= y
  <1> DEFINE R == OpToRel(<, Nat)
  <1>1. PICK x \in T : \A y \in T : ~(<<y, x>> \in R)
    BY NatLessThanWellFounded, WFMin
  <1>2. \A y \in T : ~(y < x)
    BY <1>1 DEF OpToRel
  <1> QED
    BY <1>2

\* The plan spares a newest checkpoint of every account.
LEMMA PlanSpares ==
    ASSUME TypeOK, NEW rank \in Orders, NEW keep
    PROVE  Spared(Partitions \ Kept(rank, keep))
  <1> SUFFICES ASSUME NEW i \in ready, NEW a \in checkpoints[i].accounts
               PROVE  \E k \in ready \ (Partitions \ Kept(rank, keep)) :
                          /\ a \in checkpoints[k].accounts
                          /\ checkpoints[k].number >= checkpoints[i].number
    BY DEF Spared
  <1> DEFINE C == {k \in ready : a \in checkpoints[k].accounts}
             T == {rank[k] : k \in C}
  <1>1. rank \in [ready -> 1..Cardinality(ready)]
        /\ \A j, k \in ready : j # k => /\ rank[j] # rank[k]
                                        /\ Newer(checkpoints[j], checkpoints[k]) => rank[j] < rank[k]
    BY DEF Orders
  <1>2. T \subseteq Nat /\ T # {}
    BY <1>1
  <1>3. PICK k \in C : \A y \in T : rank[k] <= y
    BY <1>2, LeastNatural
  <1>4. \A j \in ready : a \in checkpoints[j].accounts => rank[k] <= rank[j]
    BY <1>3
  <1>5. k \in Kept(rank, keep)
    BY <1>4 DEF Kept
  <1>6. checkpoints[i] \in Manifests /\ checkpoints[k] \in Manifests
    BY DEF TypeOK, ready
  <1>7. checkpoints[i].number \in Nat /\ checkpoints[k].number \in Nat
    BY <1>6 DEF Manifests, Blocks
  <1>8. checkpoints[k].number >= checkpoints[i].number
    <2>1. CASE k = i
      BY <1>7, <2>1
    <2>2. CASE k # i
      <3>1. ~(rank[i] < rank[k])
        BY <1>1, <1>4
      <3>2. ~Newer(checkpoints[i], checkpoints[k])
        BY <1>1, <2>2, <3>1
      <3> QED
        BY <1>7, <3>2 DEF Newer
    <2> QED
      BY <2>1, <2>2
  <1> QED
    BY <1>3, <1>5, <1>8

\* A step that changes no manifest, and puts nobody at a drop step with a new
\* removal list, keeps the height invariant.
LEMMA HeightFrame ==
    ASSUME HeightInv, UNCHANGED checkpoints,
           \A q \in Procs : pc'[q] \in DropSteps =>
               pc[q] \in DropSteps /\ job'[q].remove = job[q].remove
    PROVE  HeightInv'
  BY DEF HeightInv, Spared, ready

LEMMA HeightStep ==
    ASSUME Late = {}, FullInv, [Next]_vars
    PROVE  HeightInv'
  <1> USE DEF FullInv, StoreInv
  <1>t. /\ pc \in [Procs -> Steps] /\ job \in [Procs -> Jobs]
        /\ checkpoints \in [Ids -> Manifests \cup {None}]
    BY DEF TypeInv, TypeOK
  <1> USE DEF DropSteps, Goto
  <1>r. ASSUME NEW p \in Procs, Return(p), UNCHANGED checkpoints PROVE HeightInv'
    BY <1>r, <1>t, HeightFrame DEF Return
  <1>1. ASSUME NEW p \in Procs, Start(p) PROVE HeightInv'
    <2>1. /\ UNCHANGED checkpoints /\ pc'[p] \in {"publisher", "retention", "reader"}
          /\ \A q \in Procs : q # p => pc'[q] = pc[q] /\ job'[q] = job[q]
      BY <1>1, <1>t DEF Start, Build, Import, Pin, Unpin, Page, Read, Export, Prune, TryWriter,
                        WaitReader, store
    <2> QED
      BY <2>1, HeightFrame
  <1>2. ASSUME NEW p \in Procs, TakeShared(p) \/ TakeExclusive(p) PROVE HeightInv'
    BY <1>2, <1>t, HeightFrame DEF TakeShared, TakeExclusive, store
  <1>3. ASSUME NEW p \in Procs, RetentionBusy(p) \/ Fail(p) PROVE HeightInv'
    BY <1>3, <1>r DEF RetentionBusy, Fail, store
  <1>4. ASSUME NEW p \in Procs, Publishing(p) PROVE HeightInv'
    \* Nobody is at a drop step beside a publisher.
    <2>1. pc[p] \in PublisherSteps
      BY <1>4 DEF Publishing, Admit, InsertStorage, StorageInserted, Verify, InsertAccounts,
                  Publish, PublisherSteps
    <2>2. \A q \in Procs : q # p => pc[q] \notin DropSteps
      BY <2>1, BesidePublisher DEF WriterSteps, RetentionSteps
    <2>3. pc'[p] \notin DropSteps /\ \A q \in Procs : q # p => pc'[q] = pc[q]
      BY <1>4, <1>t DEF Publishing, Admit, InsertStorage, StorageInserted, Verify,
                        InsertAccounts, Publish, Return
    <2> QED
      BY <2>2, <2>3 DEF HeightInv
  <1>5. ASSUME NEW p \in Procs, Reading(p) PROVE HeightInv'
    <2>1. UNCHANGED checkpoints
      BY <1>5 DEF Reading, ReadPin, Load, LinkPin, UnlinkPin, ReadAccount, ReadRows, SaveExport,
                  store
    <2>2. pc'[p] \notin DropSteps /\ \A q \in Procs : q # p => pc'[q] = pc[q] /\ job'[q] = job[q]
      BY <1>5, <1>t DEF Reading, ReadPin, Load, LinkPin, UnlinkPin, ReadAccount, ReadRows,
                        SaveExport, Return
    <2> QED
      BY <2>1, <2>2, HeightFrame
  <1>6. ASSUME NEW p \in Procs, Pruning(p) PROVE HeightInv'
    <2>1. CASE Plan(p)
      <3>1. PICK rank \in Orders :
              job' = [job EXCEPT ![p].remove = Partitions \ Kept(rank, job[p].keep)]
        BY <2>1 DEF Plan
      <3> DEFINE r == Partitions \ Kept(rank, job[p].keep)
      <3>2. Spared(r)
        BY PlanSpares DEF TypeInv
      <3> HIDE DEF r
      <3>3. /\ job'[p].remove = r /\ UNCHANGED checkpoints
            /\ \A q \in Procs : q # p => pc'[q] = pc[q] /\ job'[q] = job[q]
        BY <1>t, <2>1, <3>1 DEF Plan, store, Jobs, r
      <3> QED
        BY <3>2, <3>3 DEF HeightInv, Spared, ready
    <2>2. CASE DropManifest(p)
      <3>1. PICK i \in job[p].remove :
              /\ Execute(DropPartition("checkpoints", i))
              /\ job' = [job EXCEPT ![p].id = i, ![p].remove = @ \ {i}]
        BY <2>2 DEF DropManifest
      <3>2. /\ i \in Ids /\ job'[p].remove = job[p].remove \ {i} /\ pc[p] = "drop"
            /\ checkpoints' = [checkpoints EXCEPT ![i] = None]
        BY <1>t, <2>2, <3>1 DEF DropManifest, Execute, DropPartition, Jobs
      <3>3. \A q \in Procs : q # p => pc'[q] \notin DropSteps
        BY <1>t, <2>2, BesidePrune DEF DropManifest, RetentionSteps, WriterSteps
      <3>4. ready' = ready \ {i} /\ \A k \in ready' : checkpoints'[k] = checkpoints[k]
        BY <1>t, <3>2 DEF ready
      <3>5. Spared(job[p].remove)
        BY <3>2 DEF HeightInv
      <3>6. Spared(job[p].remove \ {i})'
        <4> SUFFICES ASSUME NEW j \in ready', NEW a \in checkpoints'[j].accounts
                     PROVE  \E k \in ready' \ (job[p].remove \ {i})' :
                                /\ a \in checkpoints'[k].accounts
                                /\ checkpoints'[k].number >= checkpoints'[j].number
          BY DEF Spared
        <4>1. PICK k \in ready \ job[p].remove : /\ a \in checkpoints[k].accounts
                                                 /\ checkpoints[k].number >= checkpoints[j].number
          BY <3>4, <3>5 DEF Spared
        <4>2. k \in ready' /\ k \notin job'[p].remove \ {i} /\ checkpoints'[k] = checkpoints[k]
          BY <3>1, <3>2, <3>4, <4>1
        <4> QED
          BY <3>4, <4>1, <4>2
      <3>7. Spared(job[p].remove)'
        BY <3>2, <3>6 DEF Spared
      <3> QED
        BY <3>3, <3>7 DEF HeightInv
    <2>3. CASE DropAccounts(p) \/ DropStorage(p)
      <3>1. /\ UNCHANGED <<checkpoints, job>> /\ pc[p] \in DropSteps
            /\ \A q \in Procs : q # p => pc'[q] = pc[q]
        BY <1>t, <2>3 DEF DropAccounts, DropStorage, Execute, DropPartition
      <3> QED
        BY <3>1, HeightFrame
    <2>4. CASE PruneDone(p)
      BY <1>r, <2>4 DEF PruneDone, store
    <2> QED
      BY <1>6, <2>1, <2>2, <2>3, <2>4 DEF Pruning
  <1>7. ASSUME NEW p \in Procs, Abandon(p) PROVE FALSE
    BY <1>7 DEF Abandon
  <1>8. CASE ExecuteStray
    BY <1>8 DEF ExecuteStray, DataInv
  <1>9. CASE UNCHANGED vars
    BY <1>9 DEF vars, HeightInv, Spared, ready
  <1> QED
    BY <1>1, <1>2, <1>3, <1>4, <1>5, <1>6, <1>7, <1>8, <1>9 DEF Next, Advance

LEMMA FullInvariant == ASSUME Late = {} PROVE Spec => []FullInv
  <1>1. Init => HeightInv
    BY DEF Init, HeightInv, DropSteps
  <1>2. FullInv /\ [Next]_vars => HeightInv'
    BY HeightStep
  <1> QED
    BY <1>1, <1>2, StoreInvariant, PTL DEF Spec, FullInv

\* Only the first drop of a prune takes a manifest away; no step alters one.
LEMMA ManifestStep ==
    ASSUME Late = {}, FullInv, Next, ~\E p \in Procs : DropManifest(p)
    PROVE  \A i \in ready : checkpoints'[i] = checkpoints[i]
  <1> USE DEF FullInv, StoreInv
  <1>1. ASSUME NEW p \in Procs, Publish(p)
        PROVE  \A i \in ready : checkpoints'[i] = checkpoints[i]
    <2>1. PICK created \in Times : Execute(NewManifest(p, created))
      BY <1>1 DEF Publish
    <2>2. checkpoints[job[p].id] = None
      BY <1>1 DEF Publish, DataInv, ProcInv, CandidateInv, BuildSteps, PublisherSteps
    <2> QED
      BY <2>1, <2>2 DEF Execute, NewManifest, InsertManifest, ready, TypeInv, TypeOK
  <1>2. ASSUME NEW p \in Procs, Start(p) \/ Fail(p) PROVE UNCHANGED checkpoints
    BY <1>2 DEF Start, Build, Import, Pin, Unpin, Page, Read, Export, Prune, TryWriter,
                WaitReader, Fail, store
  <1>3. ASSUME NEW p \in Procs, Abandon(p) PROVE FALSE
    BY <1>3 DEF Abandon
  <1>4. ASSUME NEW p \in Procs, Reading(p) PROVE UNCHANGED checkpoints
    BY <1>4 DEF Reading, ReadPin, Load, LinkPin, UnlinkPin, ReadAccount, ReadRows, SaveExport, store
  <1>5. ASSUME NEW p \in Procs, Admit(p) \/ InsertStorage(p) \/ StorageInserted(p) \/ Verify(p)
                                \/ InsertAccounts(p)
        PROVE  UNCHANGED checkpoints
    BY <1>5 DEF Admit, InsertStorage, StorageInserted, Verify, InsertAccounts, Execute, InsertRows,
                store
  <1>6. ASSUME NEW p \in Procs, Plan(p) \/ DropAccounts(p) \/ DropStorage(p) \/ PruneDone(p)
        PROVE  UNCHANGED checkpoints
    BY <1>6 DEF Plan, DropAccounts, DropStorage, PruneDone, Execute, DropPartition, store
  <1>7. ASSUME NEW p \in Procs, TakeShared(p) \/ TakeExclusive(p) \/ RetentionBusy(p)
        PROVE  UNCHANGED checkpoints
    BY <1>7 DEF TakeShared, TakeExclusive, RetentionBusy, store
  <1>8. CASE ExecuteStray
    BY <1>8 DEF ExecuteStray, DataInv
  <1> QED
    BY <1>1, <1>2, <1>3, <1>4, <1>5, <1>6, <1>7, <1>8 DEF Next, Advance, Publishing, Pruning

\* What the first drop of a prune does to the manifests.
LEMMA DropStep ==
    ASSUME FullInv, NEW p \in Procs, DropManifest(p)
    PROVE  \E i \in Ids :
              /\ i \in job[p].remove
              /\ checkpoints' = [checkpoints EXCEPT ![i] = None]
              /\ \A k \in PinIds : pins[k] # i
              /\ Spared(job[p].remove)
              /\ UNCHANGED <<pins, used>>
  <1> USE DEF FullInv, StoreInv
  <1>1. PICK i \in job[p].remove : Execute(DropPartition("checkpoints", i))
    BY DEF DropManifest
  <1>2. i \in Ids /\ pc[p] = "drop"
    BY DEF DropManifest, TypeInv, TypeOK, Jobs
  <1>3. \A k \in PinIds : pins[k] # i
    BY <1>2 DEF DataInv, ProcInv, RetentionInv, DropSteps
  <1>4. checkpoints' = [checkpoints EXCEPT ![i] = None]
    BY <1>1 DEF Execute, DropPartition
  <1>5. Spared(job[p].remove) /\ UNCHANGED <<pins, used>>
    BY <1>2 DEF HeightInv, DropSteps, DropManifest, files
  <1> QED
    BY <1>2, <1>3, <1>4, <1>5

\* No account ever loses height, whichever commands run, fail and overlap.
THEOREM HeightIsKept == ASSUME Late = {} PROVE Spec => HeightKept
  <1> DEFINE A == \A i \in ready : \A a \in checkpoints[i].accounts :
                    \E k \in Ids : /\ checkpoints'[k] # None
                                   /\ a \in checkpoints'[k].accounts
                                   /\ checkpoints'[k].number >= checkpoints[i].number
  <1>1. ASSUME FullInv, Next PROVE A
    <2> SUFFICES ASSUME NEW i \in ready, NEW a \in checkpoints[i].accounts
                 PROVE  \E k \in Ids : /\ checkpoints'[k] # None
                                       /\ a \in checkpoints'[k].accounts
                                       /\ checkpoints'[k].number >= checkpoints[i].number
      OBVIOUS
    <2>1. CASE \E p \in Procs : DropManifest(p)
      <3>1. PICK p \in Procs : DropManifest(p)
        BY <2>1
      <3>2. PICK j \in Ids : /\ j \in job[p].remove
                             /\ checkpoints' = [checkpoints EXCEPT ![j] = None]
                             /\ Spared(job[p].remove)
        BY <1>1, <3>1, DropStep
      <3>3. PICK k \in ready \ job[p].remove : /\ a \in checkpoints[k].accounts
                                               /\ checkpoints[k].number >= checkpoints[i].number
        BY <3>2 DEF Spared
      <3>4. k # j /\ checkpoints'[k] = checkpoints[k]
        BY <1>1, <3>2, <3>3 DEF FullInv, StoreInv, TypeInv, TypeOK, ready
      <3> QED
        BY <3>3, <3>4 DEF ready
    <2>2. CASE ~\E p \in Procs : DropManifest(p)
      <3>1. checkpoints'[i] = checkpoints[i]
        BY <1>1, <2>2, ManifestStep
      <3>2. checkpoints[i] \in Manifests
        BY <1>1 DEF FullInv, StoreInv, TypeInv, TypeOK, ready
      <3>3. checkpoints[i].number \in Nat
        BY <3>2 DEF Manifests, Blocks
      <3> QED
        BY <3>1, <3>3 DEF ready
    <2> QED
      BY <2>1, <2>2
  <1>2. FullInv /\ [Next]_vars => [A]_vars
    BY <1>1
  <1>3. HeightKept <=> [][A]_vars
    BY DEF HeightKept
  <1> QED
    BY <1>2, <1>3, FullInvariant, PTL DEF Spec

----------------------------------------------------------------------------
(* Recent checkpoints                                                       *)

\* A prune in progress has spared, for each ready checkpoint it will still
\* drop, as many as it was asked to keep that are not older.
Outlived(i, remove, keep) ==
    \E K \in SUBSET (ready \ remove) :
        /\ Cardinality(K) >= keep
        /\ \A k \in K : ~Newer(checkpoints[i], checkpoints[k])

KeepInv == \A p \in Procs : pc[p] \in DropSteps =>
               \A i \in ready \cap job[p].remove : Outlived(i, job[p].remove, job[p].keep)

\* Only finitely many ids were drawn, so that ready manifests can be counted.
RecentInv == FullInv /\ IsFiniteSet(used) /\ KeepInv

\* An order that lists each of n manifests at a number of its own has `keep`
\* of them at the numbers up to keep, if it reaches a higher number at all.
LEMMA FirstOnes ==
    ASSUME NEW S, IsFiniteSet(S), NEW rank \in [S -> 1..Cardinality(S)],
           \A i, k \in S : i # k => rank[i] # rank[k],
           NEW keep \in Nat, NEW i \in S, rank[i] > keep
    PROVE  Cardinality({k \in S : rank[k] <= keep}) >= keep
  <1> DEFINE n == Cardinality(S)
             K == {k \in S : rank[k] <= keep}
             R == S \ K
             f == [k \in R |-> rank[k]]
  <1>1. n \in Nat /\ keep < n
    <2>1. n \in Nat
      BY FS_CardinalityType
    <2> QED
      BY <2>1
  <1>2. f \in Injection(R, (keep + 1)..n)
    <2>1. \A k \in S : rank[k] \in 1..n
      OBVIOUS
    <2>2. f \in [R -> (keep + 1)..n]
      BY <1>1, <2>1
    <2>3. IsInjective(f)
      BY DEF IsInjective
    <2> QED
      BY <2>2, <2>3 DEF Injection
  <1>3. IsFiniteSet((keep + 1)..n) /\ Cardinality((keep + 1)..n) = n - keep
    <2>1. keep + 1 \in Int /\ n \in Int /\ ~(keep + 1 > n)
      BY <1>1
    <2>2. /\ IsFiniteSet((keep + 1)..n)
          /\ Cardinality((keep + 1)..n) = n - (keep + 1) + 1
      BY <2>1, FS_Interval
    <2> QED
      BY <1>1, <2>2
  <1>4. Cardinality(R) <= n - keep
    BY <1>2, <1>3, FS_Injection
  <1>5. Cardinality(R) = n - Cardinality(S \cap K)
    BY FS_Difference
  <1>6. S \cap K = K
    OBVIOUS
  <1>7. Cardinality(K) \in Nat
    BY FS_Subset, FS_CardinalityType
  <1> QED
    BY <1>1, <1>4, <1>5, <1>6, <1>7

LEMMA PlanOutlives ==
    ASSUME TypeOK, IsFiniteSet(ready), NEW rank \in Orders, NEW keep \in Nat,
           NEW i \in ready \cap (Partitions \ Kept(rank, keep))
    PROVE  Outlived(i, Partitions \ Kept(rank, keep), keep)
  <1> DEFINE K == {k \in ready : rank[k] <= keep}
  <1>1. rank \in [ready -> 1..Cardinality(ready)]
        /\ \A j, k \in ready : j # k => /\ rank[j] # rank[k]
                                        /\ Newer(checkpoints[j], checkpoints[k]) => rank[j] < rank[k]
    BY DEF Orders
  <1>2. K \subseteq Kept(rank, keep) /\ i \notin K
    BY DEF Kept
  <1>3. rank[i] \in Nat /\ rank[i] > keep
    BY <1>1, <1>2
  <1>4. Cardinality(K) >= keep
    BY <1>1, <1>3, FirstOnes
  <1>5. \A k \in K : ~Newer(checkpoints[i], checkpoints[k])
    <2> SUFFICES ASSUME NEW k \in K PROVE ~Newer(checkpoints[i], checkpoints[k])
      OBVIOUS
    <2>1. k # i /\ k \in ready /\ rank[k] \in Nat /\ rank[k] <= keep
      BY <1>1, <1>2
    <2> QED
      BY <1>1, <1>3, <2>1
  <1>6. K \in SUBSET (ready \ (Partitions \ Kept(rank, keep)))
    BY <1>2
  <1> QED
    BY <1>4, <1>5, <1>6 DEF Outlived

LEMMA KeepIsNatural ==
    ASSUME TypeOK, NEW p \in Procs
    PROVE  job[p].keep \in Nat
  <1>1. job[p] \in Jobs
    BY DEF TypeOK
  <1>2. job[p].keep \in KeepCounts \cup {0}
    BY <1>1 DEF Jobs
  <1>3. \A n \in KeepCounts : n \in Nat
    BY ConstantsAssumption
  <1> QED
    BY <1>2, <1>3

LEMMA KeepFrame ==
    ASSUME KeepInv, UNCHANGED checkpoints,
           \A q \in Procs : pc'[q] \in DropSteps =>
               /\ pc[q] \in DropSteps
               /\ job'[q].remove = job[q].remove /\ job'[q].keep = job[q].keep
    PROVE  KeepInv'
  BY DEF KeepInv, Outlived, ready

LEMMA KeepStep ==
    ASSUME Late = {}, RecentInv, [Next]_vars
    PROVE  KeepInv'
  <1> USE DEF RecentInv, FullInv, StoreInv
  <1>t. /\ pc \in [Procs -> Steps] /\ job \in [Procs -> Jobs]
        /\ checkpoints \in [Ids -> Manifests \cup {None}]
    BY DEF TypeInv, TypeOK
  <1> USE DEF DropSteps, Goto
  <1>r. ASSUME NEW p \in Procs, Return(p), UNCHANGED checkpoints PROVE KeepInv'
    BY <1>r, <1>t, KeepFrame DEF Return
  <1>1. ASSUME NEW p \in Procs, Start(p) PROVE KeepInv'
    <2>1. /\ UNCHANGED checkpoints /\ pc'[p] \in {"publisher", "retention", "reader"}
          /\ \A q \in Procs : q # p => pc'[q] = pc[q] /\ job'[q] = job[q]
      BY <1>1, <1>t DEF Start, Build, Import, Pin, Unpin, Page, Read, Export, Prune, TryWriter,
                        WaitReader, store
    <2> QED
      BY <2>1, KeepFrame
  <1>2. ASSUME NEW p \in Procs, TakeShared(p) \/ TakeExclusive(p) PROVE KeepInv'
    BY <1>2, <1>t, KeepFrame DEF TakeShared, TakeExclusive, store
  <1>3. ASSUME NEW p \in Procs, RetentionBusy(p) \/ Fail(p) PROVE KeepInv'
    BY <1>3, <1>r DEF RetentionBusy, Fail, store
  <1>4. ASSUME NEW p \in Procs, Publishing(p) PROVE KeepInv'
    <2>1. pc[p] \in PublisherSteps
      BY <1>4 DEF Publishing, Admit, InsertStorage, StorageInserted, Verify, InsertAccounts,
                  Publish, PublisherSteps
    <2>2. \A q \in Procs : q # p => pc[q] \notin DropSteps
      BY <2>1, BesidePublisher DEF WriterSteps, RetentionSteps
    <2>3. pc'[p] \notin DropSteps /\ \A q \in Procs : q # p => pc'[q] = pc[q]
      BY <1>4, <1>t DEF Publishing, Admit, InsertStorage, StorageInserted, Verify,
                        InsertAccounts, Publish, Return
    <2> QED
      BY <2>2, <2>3 DEF KeepInv
  <1>5. ASSUME NEW p \in Procs, Reading(p) PROVE KeepInv'
    <2>1. UNCHANGED checkpoints
      BY <1>5 DEF Reading, ReadPin, Load, LinkPin, UnlinkPin, ReadAccount, ReadRows, SaveExport,
                  store
    <2>2. pc'[p] \notin DropSteps /\ \A q \in Procs : q # p => pc'[q] = pc[q] /\ job'[q] = job[q]
      BY <1>5, <1>t DEF Reading, ReadPin, Load, LinkPin, UnlinkPin, ReadAccount, ReadRows,
                        SaveExport, Return
    <2> QED
      BY <2>1, <2>2, KeepFrame
  <1>6. ASSUME NEW p \in Procs, Pruning(p) PROVE KeepInv'
    <2>1. CASE Plan(p)
      <3>1. PICK rank \in Orders :
              job' = [job EXCEPT ![p].remove = Partitions \ Kept(rank, job[p].keep)]
        BY <2>1 DEF Plan
      <3> DEFINE keep == job[p].keep
                 r == Partitions \ Kept(rank, keep)
      <3>2. IsFiniteSet(ready)
        <4>1. ready \subseteq used
          BY DEF DataInv, FreshInv, ready
        <4> QED
          BY <4>1, FS_Subset
      <3>3. keep \in Nat
        BY KeepIsNatural DEF TypeInv
      <3>4. \A i \in ready \cap r : Outlived(i, r, keep)
        BY <3>2, <3>3, PlanOutlives DEF TypeInv
      <3>5. /\ job'[p].remove = r /\ job'[p].keep = keep /\ UNCHANGED checkpoints
            /\ \A q \in Procs : q # p => pc'[q] = pc[q] /\ job'[q] = job[q]
        BY <1>t, <2>1, <3>1 DEF Plan, store, Jobs
      <3> HIDE DEF r, keep
      <3>6. \A i \in ready' \cap job'[p].remove : Outlived(i, job[p].remove, job[p].keep)'
        BY <3>4, <3>5 DEF Outlived, ready
      <3>7. \A q \in Procs : q # p => pc'[q] \notin DropSteps
        BY <1>t, <2>1, <3>5, BesidePrune DEF Plan, RetentionSteps, WriterSteps
      <3> QED
        BY <3>6, <3>7 DEF KeepInv
    <2>2. CASE DropManifest(p)
      <3>1. PICK i \in job[p].remove :
              /\ Execute(DropPartition("checkpoints", i))
              /\ job' = [job EXCEPT ![p].id = i, ![p].remove = @ \ {i}]
        BY <2>2 DEF DropManifest
      <3>2. /\ i \in Ids /\ job'[p].remove = job[p].remove \ {i} /\ job'[p].keep = job[p].keep
            /\ pc[p] = "drop" /\ checkpoints' = [checkpoints EXCEPT ![i] = None]
        BY <1>t, <2>2, <3>1 DEF DropManifest, Execute, DropPartition, Jobs
      <3>3. \A q \in Procs : q # p => pc'[q] \notin DropSteps
        BY <1>t, <2>2, BesidePrune DEF DropManifest, RetentionSteps, WriterSteps
      <3>4. ready' = ready \ {i} /\ \A k \in ready' : checkpoints'[k] = checkpoints[k]
        BY <1>t, <3>2 DEF ready
      <3>5. \A j \in ready' \cap job'[p].remove : Outlived(j, job[p].remove, job[p].keep)'
        <4> SUFFICES ASSUME NEW j \in ready' \cap job'[p].remove
                     PROVE  Outlived(j, job[p].remove, job[p].keep)'
          OBVIOUS
        <4>1. Outlived(j, job[p].remove, job[p].keep)
          BY <3>2, <3>4 DEF KeepInv
        <4>2. PICK K \in SUBSET (ready \ job[p].remove) :
                  /\ Cardinality(K) >= job[p].keep
                  /\ \A k \in K : ~Newer(checkpoints[j], checkpoints[k])
          BY <4>1 DEF Outlived
        <4>3. K \in SUBSET (ready' \ job'[p].remove)
          BY <3>1, <3>2, <3>4, <4>2
        <4>4. \A k \in K : ~Newer(checkpoints'[j], checkpoints'[k])
          BY <3>4, <4>2, <4>3
        <4> QED
          BY <3>2, <4>2, <4>3, <4>4 DEF Outlived, Newer
      <3> QED
        BY <3>3, <3>5 DEF KeepInv
    <2>3. CASE DropAccounts(p) \/ DropStorage(p)
      <3>1. /\ UNCHANGED <<checkpoints, job>> /\ pc[p] \in DropSteps
            /\ \A q \in Procs : q # p => pc'[q] = pc[q]
        BY <1>t, <2>3 DEF DropAccounts, DropStorage, Execute, DropPartition
      <3> QED
        BY <3>1, KeepFrame
    <2>4. CASE PruneDone(p)
      BY <1>r, <2>4 DEF PruneDone, store
    <2> QED
      BY <1>6, <2>1, <2>2, <2>3, <2>4 DEF Pruning
  <1>7. ASSUME NEW p \in Procs, Abandon(p) PROVE FALSE
    BY <1>7 DEF Abandon
  <1>8. CASE ExecuteStray
    BY <1>8 DEF ExecuteStray, DataInv
  <1>9. CASE UNCHANGED vars
    BY <1>9 DEF vars, KeepInv, Outlived, ready
  <1> QED
    BY <1>1, <1>2, <1>3, <1>4, <1>5, <1>6, <1>7, <1>8, <1>9 DEF Next, Advance

LEMMA DrawnFinite ==
    ASSUME Late = {}, FullInv, IsFiniteSet(used), [Next]_vars
    PROVE  IsFiniteSet(used)'
  <1>1. ASSUME NEW p \in Procs, Admit(p) PROVE \E i \in Ids : used' = used \cup {i}
    BY <1>1 DEF Admit
  <1>2. ASSUME NEW p \in Procs, Start(p) \/ Fail(p) \/ Abandon(p) PROVE UNCHANGED used
    BY <1>2 DEF Start, Build, Import, Pin, Unpin, Page, Read, Export, Prune, TryWriter, WaitReader,
                Fail, Abandon
  <1>3. ASSUME NEW p \in Procs, \/ TakeShared(p) \/ TakeExclusive(p) \/ RetentionBusy(p)
                                \/ Reading(p) \/ Pruning(p)
        PROVE  UNCHANGED used
    BY <1>3 DEF TakeShared, TakeExclusive, RetentionBusy, Reading, ReadPin, Load, LinkPin,
                UnlinkPin, ReadAccount, ReadRows, SaveExport, Pruning, Plan, DropManifest,
                DropAccounts, DropStorage, PruneDone
  <1>4. ASSUME NEW p \in Procs, Publishing(p), ~Admit(p) PROVE UNCHANGED used
    BY <1>4 DEF Publishing, InsertStorage, StorageInserted, Verify, InsertAccounts, Publish
  <1>5. ExecuteStray \/ UNCHANGED vars => UNCHANGED used
    BY DEF ExecuteStray, vars
  <1>7. UNCHANGED used \/ \E i \in Ids : used' = used \cup {i}
    BY <1>1, <1>2, <1>3, <1>4, <1>5 DEF Next, Advance
  <1> QED
    BY <1>7, FS_AddElement

\* What a prune relies on while it drops: see KeepInv.
THEOREM RecentInvariant == ASSUME Late = {} PROVE Spec => []RecentInv
  <1>1. Init => IsFiniteSet(used) /\ KeepInv
    BY FS_EmptySet DEF Init, KeepInv, DropSteps
  <1>2. FullInv /\ IsFiniteSet(used) /\ KeepInv /\ [Next]_vars => IsFiniteSet(used)' /\ KeepInv'
    BY KeepStep, DrawnFinite DEF RecentInv
  <1> QED
    BY <1>1, <1>2, FullInvariant, PTL DEF Spec, RecentInv

\* A manifest goes only while `keep` others that are not older stay ready.
THEOREM RecentOnesAreKept == ASSUME Late = {} PROVE Spec => RecentKept
  <1> DEFINE A == \A i \in ready : checkpoints'[i] = None =>
                    \E p \in Procs :
                        Cardinality({k \in ready \ {i} : ~Newer(checkpoints[i], checkpoints[k])})
                            >= job[p].keep /\ pc[p] = "drop"
  <1>1. ASSUME RecentInv, Next PROVE A
    <2> USE DEF RecentInv
    <2> SUFFICES ASSUME NEW i \in ready, checkpoints'[i] = None
                 PROVE  \E p \in Procs :
                          Cardinality({k \in ready \ {i} : ~Newer(checkpoints[i], checkpoints[k])})
                              >= job[p].keep /\ pc[p] = "drop"
      OBVIOUS
    <2>1. PICK p \in Procs : DropManifest(p)
      BY <1>1, ManifestStep DEF ready
    <2>2. PICK j \in Ids : j \in job[p].remove /\ checkpoints' = [checkpoints EXCEPT ![j] = None]
      BY <1>1, <2>1, DropStep
    <2>3. i = j /\ pc[p] = "drop"
      BY <1>1, <2>1, <2>2 DEF ready, DropManifest, FullInv, StoreInv, TypeInv, TypeOK
    <2>4. PICK K \in SUBSET (ready \ job[p].remove) :
              /\ Cardinality(K) >= job[p].keep
              /\ \A k \in K : ~Newer(checkpoints[i], checkpoints[k])
      BY <1>1, <2>2, <2>3 DEF KeepInv, Outlived, DropSteps
    <2> DEFINE M == {k \in ready \ {i} : ~Newer(checkpoints[i], checkpoints[k])}
    <2>5. K \subseteq M
      BY <2>2, <2>3, <2>4
    <2>6. IsFiniteSet(M)
      <3>1. M \subseteq used
        BY <1>1 DEF FullInv, StoreInv, DataInv, FreshInv, ready
      <3> QED
        BY <1>1, <3>1, FS_Subset
    <2>7. Cardinality(K) <= Cardinality(M) /\ Cardinality(K) \in Nat /\ Cardinality(M) \in Nat
      BY <2>5, <2>6, FS_Subset, FS_CardinalityType
    <2>8. job[p].keep \in Nat
      BY <1>1, KeepIsNatural DEF FullInv, StoreInv, TypeInv
    <2>9. Cardinality(M) >= job[p].keep
      BY <2>4, <2>7, <2>8
    <2> QED
      BY <2>3, <2>9
  <1>2. RecentInv /\ [Next]_vars => [A]_vars
    BY <1>1
  <1>3. RecentKept <=> [][A]_vars
    BY DEF RecentKept
  <1> QED
    BY <1>2, <1>3, RecentInvariant, PTL DEF Spec

----------------------------------------------------------------------------
(* Refinement                                                               *)

\* The life of one id, from what is ready, being built and drawn.
LEMMA LifeOf ==
    ASSUME NEW i \in Ids
    PROVE  lifeOf[i] = IF i \in ready THEN "ready"
                       ELSE IF i \in building THEN "candidate"
                       ELSE IF i \in used THEN "gone" ELSE "fresh"
  BY DEF lifeOf

\* A step is invisible when it changes neither manifests, pins, drawn ids nor
\* the ids being built.
LEMMA Invisible ==
    ASSUME UNCHANGED <<checkpoints, pins, used, building>>
    PROVE  UNCHANGED Published!avars
  <1>1. ready' = ready
    BY DEF ready
  <1>2. lifeOf' = lifeOf
    BY <1>1 DEF lifeOf
  <1> QED
    BY <1>2 DEF Published!avars

\* Two lives that differ in one id at most.
LEMMA LifeChange ==
    ASSUME NEW i \in Ids, NEW l,
           \A j \in Ids : lifeOf'[j] = IF j = i THEN l ELSE lifeOf[j]
    PROVE  lifeOf' = [lifeOf EXCEPT ![i] = l]
  BY DEF lifeOf

\* The ids being built belong to the one command that holds writer.lock.
LEMMA OneBuilder ==
    ASSUME StoreInv, NEW p \in Procs, pc[p] \in WriterSteps
    PROVE  building = IF pc[p] \in BuildSteps THEN {job[p].id} ELSE {}
  <1>1. \A q \in Procs : pc[q] \in BuildSteps => q = p
    BY DEF StoreInv, LockInv, WriterSteps, BuildSteps
  <1>2. building = {job[q].id : q \in {r \in Procs : pc[r] \in BuildSteps}}
    BY DEF building, BuildSteps
  <1>3. CASE pc[p] \in BuildSteps
    <2>1. {r \in Procs : pc[r] \in BuildSteps} = {p}
      BY <1>1, <1>3
    <2> QED
      BY <1>2, <1>3, <2>1
  <1>4. CASE pc[p] \notin BuildSteps
    <2>1. {r \in Procs : pc[r] \in BuildSteps} = {}
      BY <1>1, <1>4
    <2> QED
      BY <1>2, <1>4, <2>1
  <1> QED
    BY <1>3, <1>4

\* A command that is not building, before and after, leaves the ids being built.
LEMMA BuildingFrame ==
    ASSUME TypeOK, NEW p \in Procs,
           \A q \in Procs : q # p => pc'[q] = pc[q] /\ job'[q] = job[q],
           \/ pc[p] \notin BuildSteps /\ pc'[p] \notin BuildSteps
           \/ pc[p] \in BuildSteps /\ pc'[p] \in BuildSteps /\ job'[p].id = job[p].id
    PROVE  UNCHANGED building
  BY DEF building, BuildSteps

LEMMA RefineInit == Init => Published!AInit
  <1> SUFFICES ASSUME Init PROVE Published!AInit
    OBVIOUS
  <1>1. ready = {} /\ building = {} /\ used = {}
    BY DEF Init, ready, building, PublisherSteps
  <1>2. lifeOf = [i \in Ids |-> "fresh"]
    BY <1>1 DEF lifeOf
  <1> QED
    BY <1>2 DEF Init, Published!AInit

LEMMA OneBuilderAfter ==
    ASSUME StoreInv, NEW p \in Procs, pc[p] \in WriterSteps,
           \A q \in Procs : q # p => pc'[q] = pc[q] /\ job'[q] = job[q]
    PROVE  building' = IF pc'[p] \in BuildSteps THEN {job'[p].id} ELSE {}
  <1>1. \A q \in Procs : pc'[q] \in BuildSteps => q = p
    BY DEF StoreInv, LockInv, WriterSteps, BuildSteps
  <1>2. building' = {job'[q].id : q \in {r \in Procs : pc'[r] \in BuildSteps}}
    BY DEF building, BuildSteps
  <1>3. CASE pc'[p] \in BuildSteps
    <2>1. {r \in Procs : pc'[r] \in BuildSteps} = {p}
      BY <1>1, <1>3
    <2> QED
      BY <1>2, <1>3, <2>1
  <1>4. CASE pc'[p] \notin BuildSteps
    <2>1. {r \in Procs : pc'[r] \in BuildSteps} = {}
      BY <1>1, <1>4
    <2> QED
      BY <1>2, <1>4, <2>1
  <1> QED
    BY <1>3, <1>4

\* Drawing an id, publishing it and giving it up are the abstract steps of its life.
LEMMA RefineAdmit ==
    ASSUME FullInv, NEW p \in Procs, Admit(p)
    PROVE  Published!ANext
  <1> USE DEF FullInv, StoreInv
  <1>1. PICK i \in Ids \ used :
          /\ used' = used \cup {i}
          /\ job' = [job EXCEPT ![p].id = i,
                       ![p].inherited = IF job[p].base = None THEN {}
                                        ELSE checkpoints[job[p].base].accounts]
    BY DEF Admit
  <1>2. /\ pc[p] = "admit" /\ pc'[p] = "storage" /\ job'[p].id = i
        /\ \A q \in Procs : q # p => pc'[q] = pc[q] /\ job'[q] = job[q]
    BY <1>1 DEF Admit, Goto, TypeInv, TypeOK, Jobs
  <1>3. building = {} /\ building' = {i}
    BY <1>2, OneBuilder, OneBuilderAfter DEF WriterSteps, BuildSteps, PublisherSteps
  <1>4. checkpoints' = checkpoints /\ pins' = pins /\ ready' = ready /\ i \notin ready
    BY DEF Admit, store, files, ready, DataInv, FreshInv
  <1>5. lifeOf[i] = "fresh" /\ \A j \in Ids : lifeOf'[j] = IF j = i THEN "candidate" ELSE lifeOf[j]
    BY <1>1, <1>3, <1>4 DEF lifeOf
  <1>6. lifeOf' = [lifeOf EXCEPT ![i] = "candidate"]
    BY <1>5, LifeChange
  <1>7. Published!Draw(i)
    BY <1>4, <1>5, <1>6 DEF Published!Draw
  <1> QED
    BY <1>7 DEF Published!ANext

LEMMA RefinePublish ==
    ASSUME FullInv, NEW p \in Procs, Publish(p)
    PROVE  Published!ANext
  <1> USE DEF FullInv, StoreInv
  <1>1. PICK created \in Times : Execute(NewManifest(p, created))
    BY DEF Publish
  <1> DEFINE i == job[p].id
             m == [number |-> job[p].number, created |-> created, accounts |-> job[p].accounts]
  <1>2. i \in Ids /\ i \in used /\ checkpoints[i] = None /\ pc[p] = "manifest"
    BY DEF Publish, DataInv, ProcInv, CandidateInv, BuildSteps, PublisherSteps, TypeInv, JobOK
  <1>3. m \in Manifests /\ m # None
    BY ConstantsAssumption
       DEF Publish, TypeInv, TypeOK, JobOK, PublisherSteps, Manifests, Jobs
  <1>4. checkpoints' = [checkpoints EXCEPT ![i] = m] /\ pins' = pins /\ used' = used
    BY <1>1 DEF Publish, Execute, NewManifest, InsertManifest, files
  <1> HIDE DEF m
  <1>5. building = {i} /\ building' = {}
    <2>1. pc'[p] = "idle" /\ \A q \in Procs : q # p => pc'[q] = pc[q] /\ job'[q] = job[q]
      BY DEF Publish, Return, Goto, TypeInv, TypeOK
    <2> QED
      BY <1>2, <2>1, OneBuilder, OneBuilderAfter DEF WriterSteps, BuildSteps, PublisherSteps
  <1>6. ready' = ready \cup {i} /\ i \notin ready
    BY <1>2, <1>3, <1>4 DEF ready, TypeInv, TypeOK
  <1>7. lifeOf[i] = "candidate" /\ \A j \in Ids : lifeOf'[j] = IF j = i THEN "ready" ELSE lifeOf[j]
    BY <1>2, <1>4, <1>5, <1>6 DEF lifeOf
  <1>8. lifeOf' = [lifeOf EXCEPT ![i] = "ready"]
    BY <1>2, <1>7, LifeChange
  <1>9. Published!PublishReady(i)
    BY <1>3, <1>4, <1>7, <1>8 DEF Published!PublishReady
  <1> QED
    BY <1>2, <1>9 DEF Published!ANext

\* A command that returns early while building discards its candidate.
LEMMA RefineFail ==
    ASSUME FullInv, NEW p \in Procs, Return(p), UNCHANGED <<store, pins, used>>
    PROVE  Published!ANext \/ UNCHANGED Published!avars
  <1> USE DEF FullInv, StoreInv
  <1>1. pc'[p] = "idle" /\ \A q \in Procs : q # p => pc'[q] = pc[q] /\ job'[q] = job[q]
    BY DEF Return, Goto, TypeInv, TypeOK
  <1>2. checkpoints' = checkpoints /\ ready' = ready
    BY DEF store, ready
  <1>3. CASE pc[p] \in BuildSteps
    <2> DEFINE i == job[p].id
    <2>1. i \in Ids /\ i \in used /\ i \notin ready
      BY <1>3 DEF DataInv, ProcInv, CandidateInv, ready, TypeInv, JobOK, BuildSteps
    <2>2. building = {i} /\ building' = {}
      BY <1>1, <1>3, OneBuilder, OneBuilderAfter DEF WriterSteps, BuildSteps, PublisherSteps
    <2>3. lifeOf[i] = "candidate" /\ \A j \in Ids : lifeOf'[j] = IF j = i THEN "gone" ELSE lifeOf[j]
      BY <1>2, <2>1, <2>2 DEF lifeOf
    <2>4. lifeOf' = [lifeOf EXCEPT ![i] = "gone"]
      BY <2>1, <2>3, LifeChange
    <2>5. Published!Discard(i)
      BY <1>2, <2>3, <2>4 DEF Published!Discard
    <2> QED
      BY <2>1, <2>5 DEF Published!ANext
  <1>4. CASE pc[p] \notin BuildSteps
    <2>1. UNCHANGED building
      BY <1>1, <1>4, BuildingFrame DEF TypeInv, BuildSteps, PublisherSteps
    <2> QED
      BY <1>2, <2>1, Invisible
  <1> QED
    BY <1>3, <1>4

\* The first drop retires a checkpoint, or clears what no consumer could see.
LEMMA RefineDrop ==
    ASSUME FullInv, NEW p \in Procs, DropManifest(p)
    PROVE  Published!ANext \/ UNCHANGED Published!avars
  <1> USE DEF FullInv, StoreInv
  <1>1. PICK i \in Ids : /\ i \in job[p].remove
                         /\ checkpoints' = [checkpoints EXCEPT ![i] = None]
                         /\ \A k \in PinIds : pins[k] # i
                         /\ Spared(job[p].remove)
                         /\ UNCHANGED <<pins, used>>
    BY DropStep
  <1>2. /\ pc[p] = "drop" /\ pc'[p] = "dropAccounts"
        /\ \A q \in Procs : q # p => pc'[q] = pc[q] /\ job'[q] = job[q]
    BY DEF DropManifest, Goto, TypeInv, TypeOK
  <1>3. building = {} /\ building' = {}
    BY <1>2, OneBuilder, OneBuilderAfter
       DEF WriterSteps, BuildSteps, PublisherSteps, RetentionSteps
  <1>4. CASE i \in ready
    <2>1. ready' = ready \ {i}
      BY <1>1 DEF ready, TypeInv, TypeOK
    <2>2. i \in used
      BY <1>4 DEF DataInv, FreshInv, ready
    <2>3. /\ \A j \in ready : lifeOf[j] = "ready"
          /\ \A j \in Ids : lifeOf'[j] = IF j = i THEN "gone" ELSE lifeOf[j]
      BY <1>1, <1>3, <2>1, <2>2 DEF lifeOf, ready
    <2>4. lifeOf' = [lifeOf EXCEPT ![i] = "gone"]
      BY <2>3, LifeChange
    <2>5. \A a \in checkpoints[i].accounts :
            \E k \in Ids \ {i} : /\ lifeOf[k] = "ready" /\ a \in checkpoints[k].accounts
                                 /\ checkpoints[k].number >= checkpoints[i].number
      BY <1>1, <1>4, <2>3 DEF Spared, ready
    <2>6. Published!Retire(i)
      BY <1>1, <1>4, <2>3, <2>4, <2>5 DEF Published!Retire
    <2> QED
      BY <2>6 DEF Published!ANext
  <1>5. CASE i \notin ready
    <2>1. checkpoints' = checkpoints
      BY <1>1, <1>5 DEF ready, TypeInv, TypeOK
    <2> QED
      BY <1>1, <1>3, <2>1, Invisible
  <1> QED
    BY <1>4, <1>5

LEMMA RefinePins ==
    ASSUME FullInv, NEW p \in Procs, LinkPin(p) \/ UnlinkPin(p)
    PROVE  Published!ANext
  <1> USE DEF FullInv, StoreInv
  <1>1. pc'[p] = "idle" /\ \A q \in Procs : q # p => pc'[q] = pc[q] /\ job'[q] = job[q]
    BY DEF LinkPin, UnlinkPin, Return, Goto, TypeInv, TypeOK
  <1>2. checkpoints' = checkpoints /\ ready' = ready /\ used' = used
    BY DEF LinkPin, UnlinkPin, store, ready
  <1>3. building' = building
    BY <1>1, BuildingFrame DEF LinkPin, UnlinkPin, TypeInv, BuildSteps, PublisherSteps
  <1>4. lifeOf' = lifeOf
    BY <1>2, <1>3 DEF lifeOf
  <1>5. CASE LinkPin(p)
    <2>1. PICK k \in PinIds : pins[k] = None /\ pins' = [pins EXCEPT ![k] = job[p].id]
      BY <1>5 DEF LinkPin
    <2>2. job[p].id \in Ids /\ lifeOf[job[p].id] = "ready"
      BY <1>5 DEF LinkPin, DataInv, ProcInv, ReaderInv, TypeInv, JobOK, lifeOf, ready
    <2>3. Published!AddPin(k, job[p].id)
      BY <1>2, <1>4, <2>1, <2>2 DEF Published!AddPin
    <2> QED
      BY <2>1, <2>2, <2>3 DEF Published!ANext
  <1>6. CASE UnlinkPin(p)
    <2>1. job[p].pin \in PinIds
      BY <1>6 DEF UnlinkPin, TypeInv, JobOK
    <2>2. Published!RemovePin(job[p].pin)
      BY <1>2, <1>4, <1>6 DEF UnlinkPin, Published!RemovePin
    <2> QED
      BY <2>1, <2>2 DEF Published!ANext
  <1> QED
    BY <1>5, <1>6

LEMMA RefineStep ==
    ASSUME Late = {}, FullInv, [Next]_vars
    PROVE  Published!ANext \/ UNCHANGED Published!avars
  <1> USE DEF FullInv, StoreInv
  <1>t. /\ pc \in [Procs -> Steps] /\ job \in [Procs -> Jobs] /\ TypeOK
    BY DEF TypeInv, TypeOK
  <1>1. ASSUME NEW p \in Procs, Start(p) PROVE UNCHANGED Published!avars
    <2>1. /\ UNCHANGED <<checkpoints, pins, used>>
          /\ pc[p] = "idle" /\ pc'[p] \in {"publisher", "retention", "reader"}
          /\ \A q \in Procs : q # p => pc'[q] = pc[q] /\ job'[q] = job[q]
      BY <1>1, <1>t DEF Start, Build, Import, Pin, Unpin, Page, Read, Export, Prune, TryWriter,
                        WaitReader, Goto, store, files
    <2> QED
      BY <1>t, <2>1, BuildingFrame, Invisible DEF BuildSteps, PublisherSteps
  <1>2. ASSUME NEW p \in Procs, TakeShared(p) \/ TakeExclusive(p) \/ Plan(p) \/ ReadPin(p) \/ Load(p)
        PROVE  UNCHANGED Published!avars
    <2>1. UNCHANGED <<checkpoints, pins, used>>
      BY <1>2 DEF TakeShared, TakeExclusive, Plan, ReadPin, Load, store, files
    <2>2. /\ pc[p] \notin BuildSteps /\ pc'[p] \notin BuildSteps
          /\ \A q \in Procs : q # p => pc'[q] = pc[q] /\ job'[q] = job[q]
      BY <1>2, <1>t DEF TakeShared, TakeExclusive, Plan, ReadPin, Load, Goto, BuildSteps, PublisherSteps
    <2> QED
      BY <1>t, <2>1, <2>2, BuildingFrame, Invisible
  <1>3. ASSUME NEW p \in Procs, InsertStorage(p) \/ StorageInserted(p) \/ Verify(p) \/ InsertAccounts(p)
        PROVE  UNCHANGED Published!avars
    <2>1. UNCHANGED <<checkpoints, pins, used>>
      BY <1>3 DEF InsertStorage, StorageInserted, Verify, InsertAccounts, Execute, InsertRows,
                  store, files
    <2>2. /\ pc[p] \in BuildSteps /\ pc'[p] \in BuildSteps /\ job' = job
          /\ \A q \in Procs : q # p => pc'[q] = pc[q]
      BY <1>3, <1>t DEF InsertStorage, StorageInserted, Verify, InsertAccounts, Goto, BuildSteps,
                        PublisherSteps
    <2> QED
      BY <1>t, <2>1, <2>2, BuildingFrame, Invisible
  <1>4. ASSUME NEW p \in Procs, DropAccounts(p) \/ DropStorage(p) PROVE UNCHANGED Published!avars
    <2>1. UNCHANGED <<checkpoints, pins, used, job>>
      BY <1>4 DEF DropAccounts, DropStorage, Execute, DropPartition, files
    <2>2. /\ pc[p] \notin BuildSteps /\ pc'[p] \notin BuildSteps
          /\ \A q \in Procs : q # p => pc'[q] = pc[q]
      BY <1>4, <1>t DEF DropAccounts, DropStorage, Goto, BuildSteps, PublisherSteps
    <2> QED
      BY <1>t, <2>1, <2>2, BuildingFrame, Invisible
  <1>5. ASSUME NEW p \in Procs, \/ ReadAccount(p) /\ job[p].op # "read"
                                \/ ReadRows(p) /\ job[p].op # "page"
        PROVE  UNCHANGED Published!avars
    <2>1. UNCHANGED <<checkpoints, pins, used>>
      BY <1>5 DEF ReadAccount, ReadRows, store, files
    <2>2. /\ pc[p] \notin BuildSteps /\ pc'[p] \notin BuildSteps
          /\ \A q \in Procs : q # p => pc'[q] = pc[q] /\ job'[q] = job[q]
      BY <1>5, <1>t DEF ReadAccount, ReadRows, Goto, BuildSteps, PublisherSteps
    <2> QED
      BY <1>t, <2>1, <2>2, BuildingFrame, Invisible
  <1>6. ASSUME NEW p \in Procs,
               \/ Fail(p) \/ RetentionBusy(p) \/ PruneDone(p) \/ SaveExport(p)
               \/ (ReadAccount(p) /\ job[p].op = "read")
               \/ (ReadRows(p) /\ job[p].op = "page")
        PROVE  Published!ANext \/ UNCHANGED Published!avars
    BY <1>6, RefineFail DEF Fail, RetentionBusy, PruneDone, SaveExport, ReadAccount, ReadRows, files
  <1>7. ASSUME NEW p \in Procs, Admit(p) \/ Publish(p) \/ LinkPin(p) \/ UnlinkPin(p) \/ DropManifest(p)
        PROVE  Published!ANext \/ UNCHANGED Published!avars
    BY <1>7, RefineAdmit, RefinePublish, RefinePins, RefineDrop
  <1>8. ASSUME NEW p \in Procs, Abandon(p) PROVE FALSE
    BY <1>8 DEF Abandon
  <1>9. CASE ExecuteStray
    BY <1>9 DEF ExecuteStray, DataInv
  <1>10. CASE UNCHANGED vars
    BY <1>10, Invisible DEF vars, building
  <1>11. ASSUME NEW p \in Procs, Advance(p)
         PROVE  Published!ANext \/ UNCHANGED Published!avars
    <2>1. CASE Publishing(p)
      BY <1>3, <1>7, <2>1 DEF Publishing
    <2>2. CASE Reading(p)
      <3>1. CASE ReadAccount(p)
        BY <1>5, <1>6, <3>1
      <3>2. CASE ReadRows(p)
        BY <1>5, <1>6, <3>2
      <3> QED
        BY <1>2, <1>6, <1>7, <2>2, <3>1, <3>2 DEF Reading
    <2>3. CASE Pruning(p)
      BY <1>2, <1>4, <1>6, <1>7, <2>3 DEF Pruning
    <2>4. CASE TakeShared(p) \/ TakeExclusive(p) \/ RetentionBusy(p)
      BY <1>2, <1>6, <2>4
    <2> QED
      BY <1>11, <2>1, <2>2, <2>3, <2>4 DEF Advance
  <1> QED
    BY <1>1, <1>6, <1>8, <1>9, <1>10, <1>11 DEF Next

\* The store implements its promise: an id is published at most once, its
\* manifest never changes, and neither a pinned checkpoint nor the newest one of
\* an account is ever removed.
THEOREM StoreImplementsPublished == ASSUME Late = {} PROVE Spec => ImplementsPublished
  <1>1. FullInv /\ [Next]_vars => [Published!ANext]_(Published!avars)
    BY RefineStep
  <1> QED
    BY <1>1, RefineInit, FullInvariant, PTL DEF Spec, ImplementsPublished, Published!ASpec
============================================================================
