------------------------ MODULE ControlBindingProofs ------------------------
(***************************************************************************)
(* One controller directory coordinates a database, and host recovery      *)
(* disturbs nobody, for any number of processes, machines and directories, *)
(* copies, losses, kills and delayed statements.                           *)
(*                                                                         *)
(* BindingInv is inductive.  A record has one home: the directory it names *)
(* on its machine, or on the original machine if it is a legacy record     *)
(* (HomeOf).  HostInv keeps the legacy name and every recovery sidecar     *)
(* with the original machine, so that a process gets past MayBind only at  *)
(* the home of its record (HomeInv); OwnerInv says that the first row of   *)
(* the ownership table, which stays first, is the record of every place    *)
(* that was opened.  RebindInv is the exclusion that recovery relies on.   *)
(***************************************************************************)
EXTENDS ControlBinding, TLAPS

BindSteps == {"create", "insert", "owner", "mark", "opened", "using"}
Steps == {"idle", "lock", "exists", "bind", "ingesting"} \cup BindSteps \cup RebindSteps
Recoveries == [record : Records \cup {None}, directory : Directories \cup {Source}, machine : Machines]
Late == [op : {"create", "insert"}, row : Records]

TypeInv ==
    /\ scenario \in Scenarios /\ name \in [Machines -> Names]
    /\ binding \in [Places -> Records \cup {None}] /\ sidecar \in [Places -> Recoveries \cup {None}]
    /\ table \in Seq(Records) \cup {None} /\ run \in Records
    /\ pc \in [Procs -> Steps] /\ at \in [Procs -> Places]
    /\ record \in [Procs -> Records \cup {None}]
    /\ sourceLock \in Procs \cup {None}
    /\ late \subseteq Late /\ ids \in Nat

\* Where a record may be used.
HomeOf(rec) == [machine |-> IF rec.host \in Machines THEN rec.host ELSE Original.machine,
                directory |-> rec.directory]

HostInv ==
    /\ \A q \in Places : binding[q] # None /\ binding[q].host \notin Machines =>
                            binding[q].host = run.host
    /\ run.host \notin Machines =>
          \A m \in Machines : name[m] = run.host => m = Original.machine
    /\ \A q \in Places : sidecar[q] # None => sidecar[q].machine = Original.machine

HomeInv ==
    \A p \in Procs :
        /\ pc[p] \in BindSteps => binding[at[p]] # None
        /\ pc[p] \in {"create", "insert", "owner", "mark"} =>
              record[p] \in Records /\ HomeOf(record[p]) = at[p]

\* The table has an owner, whose record is rec.
OwnedBy(rec) == table # None /\ table # <<>> /\ Head(table) = rec

OwnerInv ==
    /\ \A p \in Procs : pc[p] = "mark" => OwnedBy(record[p])
    /\ \A q \in opened : table # None /\ table # <<>> /\ HomeOf(Head(table)) = q

RebindInv ==
    \A p \in Procs :
        /\ pc[p] \in RebindSteps \cup {"ingesting"} => sourceLock = p
        /\ pc[p] \in RebindSteps => /\ at[p] = Original
                                    /\ \A q \in Procs : pc[q] = "using" => at[q] # Original

BindingInv == TypeInv /\ HostInv /\ HomeInv /\ OwnerInv /\ RebindInv

----------------------------------------------------------------------------
(* The operators the model is built from                                    *)

\* The first row of the ownership table stays first.
LEMMA AppendKeepsHead ==
    ASSUME NEW S, NEW s \in Seq(S), NEW e \in S
    PROVE  /\ Append(s, e) \in Seq(S) /\ Append(s, e) # <<>>
           /\ s # <<>> => Head(Append(s, e)) = Head(s)
           /\ s = <<>> => Head(Append(s, e)) = e
  <1>1. Append(s, e) \in Seq(S) /\ Len(Append(s, e)) = Len(s) + 1
    OBVIOUS
  <1>2. Append(s, e) # <<>>
    <2>1. Len(Append(s, e)) # 0
      BY <1>1
    <2>2. Len(<<>>) = 0
      OBVIOUS
    <2> QED
      BY <2>1, <2>2, Zenon
  <1>3. s # <<>> => Head(Append(s, e)) = Head(s)
    OBVIOUS
  <1>4. s = <<>> => Head(Append(s, e)) = e
    OBVIOUS
  <1> QED
    BY <1>1, <1>2, <1>3, <1>4

LEMMA PlaceParts ==
    ASSUME NEW q \in Places
    PROVE  /\ q.machine \in Machines /\ q.directory \in Directories
           /\ q = [machine |-> q.machine, directory |-> q.directory]
  BY BindingAssumption

LEMMA OriginalIsPlace == Original \in Places
  BY BindingAssumption

\* The record a process binds is a record, fit for the place.
LEMMA BindingIsRecord ==
    ASSUME TypeInv, NEW p \in Procs
    PROVE  Binding(p) \in Records
  <1>1. /\ at[p] \in Places /\ binding[at[p]] \in Records \cup {None} /\ ids \in Nat
    BY DEF TypeInv
  <1>2. at[p].machine \in Machines /\ at[p].directory \in Directories
    BY <1>1, PlaceParts
  <1>3. [id |-> ids, directory |-> at[p].directory, host |-> at[p].machine] \in Records
    BY <1>1, <1>2 DEF Records
  <1> QED
    BY <1>1, <1>3 DEF Binding

\* Only at its home does a record pass the check of Control::open.
LEMMA BoundAtHome ==
    ASSUME TypeInv, HostInv, NEW p \in Procs, MayBind(p)
    PROVE  HomeOf(Binding(p)) = at[p]
  <1> DEFINE b == Binding(p)
             q == at[p]
  <1>1. b \in Records /\ q \in Places
    BY BindingIsRecord DEF TypeInv
  <1>2. b.directory = q.directory /\ HostMatches(b, sidecar[q], q.directory, q.machine)
    BY DEF MayBind
  <1>3. q.machine \in Machines /\ q = [machine |-> q.machine, directory |-> q.directory]
    BY <1>1, PlaceParts
  <1>4. CASE b.host \in Machines
    <2>1. b.host = q.machine
      BY <1>2, <1>4 DEF HostMatches
    <2> QED
      BY <2>1, <1>2, <1>3, <1>4 DEF HomeOf
  <1>5. CASE b.host \notin Machines
    <2>1. binding[q] # None /\ b = binding[q]
      BY <1>3, <1>5 DEF Binding
    <2>2. b.host = run.host
      BY <2>1, <1>1, <1>5 DEF HostInv
    <2>3. CASE sidecar[q] # None
      <3>1. sidecar[q] = RecoveryRecord(b, q.directory, q.machine)
        BY <1>2, <1>5, <2>3 DEF HostMatches
      <3>2. sidecar[q].machine = q.machine
        BY <3>1 DEF RecoveryRecord
      <3>3. sidecar[q].machine = Original.machine
        BY <1>1, <2>3 DEF HostInv
      <3> QED
        BY <3>2, <3>3, <1>2, <1>3, <1>5 DEF HomeOf
    <2>4. CASE sidecar[q] = None
      <3>1. b.host = name[q.machine]
        BY <1>2, <1>5, <2>4 DEF HostMatches
      <3>2. q.machine = Original.machine
        BY <3>1, <2>2, <1>3, <1>5 DEF HostInv
      <3> QED
        BY <3>2, <1>2, <1>3, <1>5 DEF HomeOf
    <2> QED
      BY <2>3, <2>4
  <1> QED
    BY <1>4, <1>5
----------------------------------------------------------------------------
(* Steps shared by the actions                                              *)

\* The process ends: nothing is expected of it, and no other lock is given up.
LEMMA EndKeeps ==
    ASSUME BindingInv, NEW p \in Procs, End(p), UNCHANGED <<binding, table, opened>>
    PROVE  /\ pc' \in [Procs -> Steps] /\ at' \in [Procs -> Places]
           /\ record' \in [Procs -> Records \cup {None}] /\ sourceLock' \in Procs \cup {None}
           /\ HomeInv' /\ OwnerInv' /\ RebindInv'
  <1> USE DEF End, Goto
  <1>1. /\ pc \in [Procs -> Steps] /\ at \in [Procs -> Places]
        /\ record \in [Procs -> Records \cup {None}] /\ sourceLock \in Procs \cup {None}
    BY DEF BindingInv, TypeInv
  <1>2. /\ pc' \in [Procs -> Steps] /\ at' \in [Procs -> Places]
        /\ record' \in [Procs -> Records \cup {None}] /\ sourceLock' \in Procs \cup {None}
    BY <1>1, OriginalIsPlace DEF Steps
  <1>3. /\ pc'[p] = "idle"
        /\ \A q \in Procs \ {p} : pc'[q] = pc[q] /\ at'[q] = at[q] /\ record'[q] = record[q]
    BY <1>1
  <1>4. HomeInv'
    BY <1>3 DEF BindingInv, HomeInv, BindSteps, HomeOf
  <1>5. OwnerInv'
    BY <1>3 DEF BindingInv, OwnerInv, OwnedBy, HomeOf
  <1>6. RebindInv'
    BY <1>3 DEF BindingInv, RebindInv, RebindSteps
  <1> QED
    BY <1>2, <1>4, <1>5, <1>6

\* Process p, where it is, takes a step that asks nothing new of it: the
\* record and the locks are as they were.
LEMMA StepKeeps ==
    ASSUME BindingInv, NEW p \in Procs, NEW step \in Steps, Goto(p, step),
           UNCHANGED <<binding, table, opened, at, record, sourceLock>>,
           step \in BindSteps => binding[at[p]] # None,
           step \in {"create", "insert", "owner", "mark"} =>
              pc[p] \in {"create", "insert", "owner", "mark"},
           step = "mark" => OwnedBy(record[p]),
           step \in RebindSteps => pc[p] \in RebindSteps,
           step # "ingesting",
           step = "using" => ~Rebinding(at[p])
    PROVE  pc' \in [Procs -> Steps] /\ HomeInv' /\ OwnerInv' /\ RebindInv'
  <1> USE DEF Goto
  <1>1. pc \in [Procs -> Steps] /\ pc' \in [Procs -> Steps]
    BY DEF BindingInv, TypeInv
  <1>2. pc'[p] = step /\ \A q \in Procs \ {p} : pc'[q] = pc[q]
    BY <1>1
  <1>3. HomeInv'
    BY <1>2 DEF BindingInv, HomeInv, HomeOf
  <1>4. OwnerInv'
    BY <1>2 DEF BindingInv, OwnerInv, OwnedBy, HomeOf
  <1>5. \A q \in Procs : pc'[q] \in RebindSteps \cup {"ingesting"} => sourceLock' = q
    BY <1>2 DEF BindingInv, RebindInv
  <1>6. \A q \in Procs : pc'[q] \in RebindSteps => pc[q] \in RebindSteps /\ at'[q] = Original
    BY <1>2 DEF BindingInv, RebindInv
  <1>7. ASSUME NEW q \in Procs, NEW r \in Procs, pc'[q] \in RebindSteps, pc'[r] = "using"
        PROVE  at'[r] # Original
    <2>1. pc[q] \in RebindSteps /\ at[q] = Original
      BY <1>6, <1>7
    <2>2. CASE r # p
      BY <2>1, <2>2, <1>2, <1>7 DEF BindingInv, RebindInv
    <2>3. CASE r = p
      BY <2>1, <2>3, <1>2, <1>7 DEF Rebinding
    <2> QED
      BY <2>2, <2>3
  <1> QED
    BY <1>1, <1>3, <1>4, <1>5, <1>6, <1>7 DEF RebindInv

\* What the parts of the invariant read.
LEMMA HostFrame ==
    ASSUME HostInv, UNCHANGED <<name, binding, sidecar, run>>
    PROVE  HostInv'
  BY DEF HostInv

LEMMA ProcessFrame ==
    ASSUME HomeInv, OwnerInv, RebindInv,
           UNCHANGED <<binding, table, opened, pc, at, record, sourceLock>>
    PROVE  HomeInv' /\ OwnerInv' /\ RebindInv'
  <1>1. HomeInv'
    BY DEF HomeInv, HomeOf
  <1>2. OwnerInv'
    BY DEF OwnerInv, OwnedBy, HomeOf
  <1>3. RebindInv'
    BY DEF RebindInv
  <1> QED
    BY <1>1, <1>2, <1>3
----------------------------------------------------------------------------
(* The invariant                                                            *)

LEMMA BindingInit ==
    ASSUME Init
    PROVE  BindingInv
  <1>1. /\ Original \in Places /\ Original.machine \in Machines /\ Original.directory \in Directories
        /\ scenario.legacy \in BOOLEAN /\ scenario.names \in [Machines -> Names]
    BY OriginalIsPlace, PlaceParts, BindingAssumption DEF Init
  <1> DEFINE host == IF scenario.legacy THEN name[Original.machine] ELSE Original.machine
             old == [id |-> 0, directory |-> Original.directory, host |-> host]
  <1>2. name \in [Machines -> Names] /\ name[Original.machine] \in Names
    BY <1>1 DEF Init
  <1>3. host \in Machines \cup Names /\ old \in Records
    BY <1>1, <1>2 DEF Records
  <1>4. run \in Records /\ run.host = host
    BY <1>3 DEF Init, Records
  <1>5. binding = [q \in Places |-> IF scenario.legacy /\ q = Original THEN old ELSE None]
    BY DEF Init
  <1>6. table = IF scenario.legacy THEN <<old>> ELSE None
    BY DEF Init
  <1>7. TypeInv
    <2>1. binding \in [Places -> Records \cup {None}]
      BY <1>3, <1>5
    <2>2. table \in Seq(Records) \cup {None}
      BY <1>3, <1>6
    <2> QED
      BY <1>1, <1>2, <1>4, <2>1, <2>2 DEF Init, TypeInv, Steps
  <1>8. HostInv
    <2>1. \A q \in Places : binding[q] # None => binding[q].host = run.host
      BY <1>4, <1>5
    <2>2. ASSUME run.host \notin Machines, NEW m \in Machines, name[m] = run.host
          PROVE  m = Original.machine
      <3>1. scenario.legacy
        BY <1>1, <1>4, <2>2
      <3>2. name[m] = name[Original.machine] /\ name = scenario.names
        BY <3>1, <1>4, <2>2 DEF Init
      <3> QED
        BY <3>2, <1>1, BindingAssumption DEF Init
    <2>3. \A q \in Places : sidecar[q] = None
      BY DEF Init
    <2> QED
      BY <2>1, <2>2, <2>3 DEF HostInv
  <1>9. HomeInv /\ OwnerInv /\ RebindInv
    BY DEF Init, HomeInv, OwnerInv, RebindInv, BindSteps, RebindSteps
  <1> QED
    BY <1>7, <1>8, <1>9 DEF BindingInv

\* Bind: the record of the process comes from the place where it may be used.
LEMMA BindKeeps ==
    ASSUME BindingInv, NEW p \in Procs, Bind(p)
    PROVE  BindingInv'
  <1> USE DEF Goto, bounds, locks
  <1> DEFINE b == Binding(p)
             q == at[p]
  <1>1. /\ binding \in [Places -> Records \cup {None}] /\ pc \in [Procs -> Steps]
        /\ record \in [Procs -> Records \cup {None}] /\ ids \in Nat /\ at \in [Procs -> Places]
    BY DEF BindingInv, TypeInv
  <1>2. b \in Records /\ q \in Places /\ HomeOf(b) = q /\ b # None
    BY <1>1, BindingIsRecord, BoundAtHome, BindingAssumption DEF BindingInv, Bind
  <1> DEFINE step == IF exists[p] THEN "owner" ELSE "create"
  <1>3. /\ binding' = [binding EXCEPT ![q] = b] /\ record' = [record EXCEPT ![p] = b]
        /\ pc' = [pc EXCEPT ![p] = step] /\ step \in {"owner", "create"}
    BY DEF Bind
  <1> HIDE DEF b, q, step
  <1>4. /\ pc'[p] = step /\ record'[p] = b
        /\ \A r \in Procs \ {p} : pc'[r] = pc[r] /\ record'[r] = record[r]
    BY <1>1, <1>3
  <1>5. binding'[q] = b /\ \A r \in Places \ {q} : binding'[r] = binding[r]
    BY <1>1, <1>2, <1>3
  <1>6. TypeInv'
    <2>1. binding' \in [Places -> Records \cup {None}] /\ record' \in [Procs -> Records \cup {None}]
      BY <1>1, <1>2, <1>3
    <2>2. pc' \in [Procs -> Steps]
      BY <1>1, <1>3 DEF Steps, BindSteps
    <2>3. ids' \in Nat
      BY <1>1 DEF Bind
    <2> QED
      BY <2>1, <2>2, <2>3 DEF Bind, BindingInv, TypeInv
  <1>7. HostInv'
    <2>1. b.host \notin Machines => b.host = run.host
      <3>1. CASE binding[q] # None
        BY <3>1, <1>2 DEF b, q, Binding, BindingInv, HostInv
      <3>2. CASE binding[q] = None
        <4>1. b.host = q.machine
          BY <3>2 DEF b, q, Binding
        <4> QED
          BY <4>1, <1>2, PlaceParts
      <3> QED
        BY <3>1, <3>2
    <2> QED
      BY <2>1, <1>5, <1>2 DEF Bind, BindingInv, HostInv
  <1>8. HomeInv'
    <2>1. at' = at /\ at[p] = q
      BY DEF Bind, q
    <2>2. \A r \in Places : binding[r] # None => binding'[r] # None
      BY <1>2, <1>5
    <2> QED
      BY <1>1, <1>2, <1>3, <1>4, <1>5, <2>1, <2>2 DEF BindingInv, HomeInv, HomeOf, BindSteps
  <1>9. OwnerInv'
    BY <1>3, <1>4 DEF Bind, BindingInv, OwnerInv, OwnedBy, HomeOf
  <1>10. RebindInv'
    BY <1>3, <1>4 DEF Bind, BindingInv, RebindInv, RebindSteps
  <1> QED
    BY <1>6, <1>7, <1>8, <1>9, <1>10 DEF BindingInv

\* The table gains a row, or comes to exist without one.
LEMMA TableGrows ==
    ASSUME TypeInv, OwnerInv, NEW row \in Records,
           \/ table = None /\ table' = <<>>
           \/ table # None /\ table' = Append(table, row)
    PROVE  /\ table' \in Seq(Records)
           /\ \A rec : OwnedBy(rec) => OwnedBy(rec)'
           /\ \A q \in opened : table' # None /\ table' # <<>> /\ HomeOf(Head(table')) = q
  <1>1. table \in Seq(Records) \cup {None} /\ None \notin Seq(Records)
    BY BindingAssumption DEF TypeInv
  <1>2. CASE table = None /\ table' = <<>>
    BY <1>2 DEF OwnedBy, OwnerInv
  <1>3. CASE table # None /\ table' = Append(table, row)
    <2>1. /\ table' \in Seq(Records) /\ table' # <<>> /\ table' # None
          /\ table # <<>> => Head(table') = Head(table)
      BY <1>1, <1>3, AppendKeepsHead
    <2> QED
      BY <2>1 DEF OwnedBy, OwnerInv
  <1> QED
    BY <1>2, <1>3
\* The other steps of Control::open.
LEMMA OpeningKeeps ==
    ASSUME BindingInv, NEW p \in Procs, Opening(p)
    PROVE  BindingInv'
  <1> USE DEF Goto, files, locks, bounds
  <1>1. /\ TypeInv /\ HostInv /\ HomeInv /\ OwnerInv /\ RebindInv
        /\ pc \in [Procs -> Steps] /\ pc[p] \in Steps /\ at[p] \in Places
    BY DEF BindingInv, TypeInv
  <1>2. CASE TakeInitLock(p)
    <2>1. pc' \in [Procs -> Steps] /\ HomeInv' /\ OwnerInv' /\ RebindInv'
      BY <1>2, StepKeeps, "exists" \in Steps DEF TakeInitLock, BindSteps, RebindSteps, Steps
    <2>2. TypeInv' /\ HostInv'
      BY <1>1, <1>2, <2>1, HostFrame DEF TakeInitLock, TypeInv
    <2> QED
      BY <2>1, <2>2 DEF BindingInv
  <1>3. CASE SeeTable(p)
    <2>1. pc' \in [Procs -> Steps] /\ HomeInv' /\ OwnerInv' /\ RebindInv'
      BY <1>3, StepKeeps, "bind" \in Steps DEF SeeTable, BindSteps, RebindSteps, Steps
    <2>2. TypeInv' /\ HostInv'
      BY <1>1, <1>3, <2>1, HostFrame DEF SeeTable, TypeInv
    <2> QED
      BY <2>1, <2>2 DEF BindingInv
  <1>4. CASE Bind(p)
    BY <1>4, BindKeeps
  <1>5. CASE CreateTable(p) \/ InsertOwner(p)
    <2> DEFINE step == IF pc[p] = "create" THEN "insert" ELSE "owner"
    <2>1. /\ pc[p] \in {"create", "insert"} /\ pc' = [pc EXCEPT ![p] = step] /\ step \in {"insert", "owner"}
          /\ UNCHANGED <<name, files, run, at, record, late, opened, ids, scenario, sourceLock>>
      BY <1>5 DEF CreateTable, InsertOwner
    <2>2. \/ table = None /\ table' = <<>>
          \/ table # None /\ table' = Append(table, record[p])
      BY <1>5 DEF CreateTable, InsertOwner
    <2>3. record[p] \in Records /\ HomeOf(record[p]) = at[p] /\ binding[at[p]] # None
      BY <1>1, <2>1 DEF HomeInv, BindSteps
    <2>4. /\ table' \in Seq(Records)
          /\ \A rec : OwnedBy(rec) => OwnedBy(rec)'
          /\ \A q \in opened : table' # None /\ table' # <<>> /\ HomeOf(Head(table')) = q
      BY <1>1, <2>2, <2>3, TableGrows
    <2> HIDE DEF step
    <2>5. pc'[p] = step /\ \A q \in Procs \ {p} : pc'[q] = pc[q]
      BY <1>1, <2>1
    <2>6. pc' \in [Procs -> Steps]
      BY <1>1, <2>1 DEF Steps, BindSteps
    <2>7. TypeInv' /\ HostInv'
      BY <1>1, <2>1, <2>4, <2>6, HostFrame DEF TypeInv
    <2>8. HomeInv'
      BY <1>1, <2>1, <2>3, <2>5 DEF HomeInv, HomeOf, BindSteps
    <2>9. OwnerInv'
      <3>1. \A q \in Procs : pc'[q] = "mark" => OwnedBy(record[q])
        BY <1>1, <2>1, <2>5 DEF OwnerInv
      <3>2. \A q \in Procs : pc'[q] = "mark" => OwnedBy(record[q])'
        BY <3>1, <2>1, <2>4 DEF OwnedBy
      <3> QED
        BY <3>2, <2>1, <2>4 DEF OwnerInv, OwnedBy, HomeOf
    <2>10. RebindInv'
      BY <1>1, <2>1, <2>5 DEF RebindInv, RebindSteps
    <2> QED
      BY <2>7, <2>8, <2>9, <2>10 DEF BindingInv
  <1>6. CASE CheckOwner(p)
    <2>1. binding[at[p]] # None /\ record[p] \in Records
      BY <1>1, <1>6 DEF CheckOwner, HomeInv, BindSteps
    <2>2. OwnedBy(record[p])
      BY <1>6, <2>1, BindingAssumption DEF CheckOwner, OwnedBy
    <2>3. pc' \in [Procs -> Steps] /\ HomeInv' /\ OwnerInv' /\ RebindInv'
      BY <1>6, <2>1, <2>2, StepKeeps, "mark" \in Steps DEF CheckOwner, RebindSteps, Steps, BindSteps
    <2>4. TypeInv' /\ HostInv'
      BY <1>1, <1>6, <2>3, HostFrame DEF CheckOwner, TypeInv
    <2> QED
      BY <2>3, <2>4 DEF BindingInv
  <1>7. CASE MarkInitialized(p)
    <2>1. /\ pc[p] = "mark" /\ pc' = [pc EXCEPT ![p] = "opened"] /\ opened' = opened \cup {at[p]}
          /\ UNCHANGED <<name, binding, sidecar, table, run, sourceLock, at, record, late, ids, scenario>>
      BY <1>7 DEF MarkInitialized
    <2>2. binding[at[p]] # None /\ HomeOf(record[p]) = at[p] /\ OwnedBy(record[p])
      BY <1>1, <2>1 DEF HomeInv, OwnerInv, BindSteps
    <2>3. pc'[p] = "opened" /\ \A q \in Procs \ {p} : pc'[q] = pc[q]
      BY <1>1, <2>1
    <2>4. pc' \in [Procs -> Steps]
      BY <1>1, <2>1 DEF Steps, BindSteps
    <2>5. TypeInv' /\ HostInv'
      BY <1>1, <2>1, <2>4, HostFrame DEF TypeInv
    <2>6. HomeInv'
      BY <1>1, <2>1, <2>2, <2>3 DEF HomeInv, HomeOf, BindSteps
    <2>7. OwnerInv'
      BY <1>1, <2>1, <2>2, <2>3 DEF OwnerInv, OwnedBy, HomeOf
    <2>8. RebindInv'
      BY <1>1, <2>1, <2>3 DEF RebindInv, RebindSteps
    <2> QED
      BY <2>5, <2>6, <2>7, <2>8 DEF BindingInv
  <1>8. CASE Use(p)
    <2>1. binding[at[p]] # None
      BY <1>1, <1>8 DEF Use, HomeInv, BindSteps
    <2>2. pc' \in [Procs -> Steps] /\ HomeInv' /\ OwnerInv' /\ RebindInv'
      BY <1>8, <2>1, StepKeeps, "using" \in Steps DEF Use, RebindSteps, Steps, BindSteps
    <2>3. TypeInv' /\ HostInv'
      BY <1>1, <1>8, <2>2, HostFrame DEF Use, TypeInv
    <2> QED
      BY <2>2, <2>3 DEF BindingInv
  <1>9. CASE Finish(p)
    <2>1. End(p) /\ UNCHANGED <<name, files, table, run, late, opened, ids, scenario>>
      BY <1>9 DEF Finish
    <2>2. /\ pc' \in [Procs -> Steps] /\ at' \in [Procs -> Places]
          /\ record' \in [Procs -> Records \cup {None}] /\ sourceLock' \in Procs \cup {None}
          /\ HomeInv' /\ OwnerInv' /\ RebindInv'
      BY <2>1, EndKeeps
    <2>3. TypeInv' /\ HostInv'
      BY <1>1, <2>1, <2>2, HostFrame DEF TypeInv
    <2> QED
      BY <2>2, <2>3 DEF BindingInv
  <1> QED
    BY <1>2, <1>3, <1>4, <1>5, <1>6, <1>7, <1>8, <1>9 DEF Opening
\* The native run and its recovery: whoever enters holds the run's locks.
LEMMA RecoveryKeeps ==
    ASSUME BindingInv, NEW p \in Procs, Ingest(p) \/ StartRebind(p) \/ Recovering(p)
    PROVE  BindingInv'
  <1> USE DEF Goto, files, locks, bounds
  <1>1. /\ TypeInv /\ HostInv /\ HomeInv /\ OwnerInv /\ RebindInv
        /\ pc \in [Procs -> Steps] /\ at \in [Procs -> Places]
    BY DEF BindingInv, TypeInv
  <1>2. CASE Ingest(p) \/ StartRebind(p)
    <2> DEFINE step == IF Ingest(p) THEN "ingesting" ELSE "validate"
    <2>1. /\ pc[p] = "idle" /\ sourceLock = None /\ sourceLock' = p
          /\ UNCHANGED <<name, files, table, run, record, late, opened, ids, scenario>>
      BY <1>2 DEF Ingest, StartRebind, Quiescent
    <2>2. /\ pc' = [pc EXCEPT ![p] = step] /\ step \in {"ingesting", "validate"}
          /\ at' = at \/ at' = [at EXCEPT ![p] = Original]
      BY <1>2 DEF Ingest, StartRebind
    <2>3. step = "validate" =>
            at' = [at EXCEPT ![p] = Original] /\ \A q \in Procs : pc[q] = "using" => at[q] # Original
      BY <1>2 DEF StartRebind, Quiescent
    <2> HIDE DEF step
    <2>4. /\ pc'[p] = step /\ \A q \in Procs \ {p} : pc'[q] = pc[q] /\ at'[q] = at[q]
          /\ step = "validate" => at'[p] = Original
      BY <1>1, <2>2, <2>3
    <2>5. pc' \in [Procs -> Steps] /\ at' \in [Procs -> Places]
      BY <1>1, <2>2, OriginalIsPlace DEF Steps, RebindSteps
    <2>6. TypeInv' /\ HostInv'
      BY <1>1, <2>1, <2>5, HostFrame DEF TypeInv
    <2>7. HomeInv'
      BY <1>1, <2>1, <2>2, <2>4 DEF HomeInv, HomeOf, BindSteps
    <2>8. OwnerInv'
      BY <1>1, <2>1, <2>2, <2>4 DEF OwnerInv, OwnedBy, HomeOf
    <2>9. RebindInv'
      <3>1. \A q \in Procs : q # None
        BY BindingAssumption
      <3>2. \A q \in Procs \ {p} : pc'[q] \notin RebindSteps \cup {"ingesting"}
        BY <1>1, <2>1, <2>4, <3>1 DEF RebindInv
      <3>3. \A q \in Procs : pc'[q] = "using" => q # p /\ pc[q] = "using" /\ at'[q] = at[q]
        BY <2>2, <2>4
      <3>4. pc'[p] \in RebindSteps => step = "validate"
        BY <2>2, <2>4 DEF RebindSteps
      <3> QED
        BY <2>1, <2>3, <2>4, <3>2, <3>3, <3>4 DEF RebindInv
    <2> QED
      BY <2>6, <2>7, <2>8, <2>9 DEF BindingInv
  <1>3. CASE ValidateRebind(p)
    <2>1. pc' \in [Procs -> Steps] /\ HomeInv' /\ OwnerInv' /\ RebindInv'
      BY <1>3, StepKeeps, "runSidecar" \in Steps DEF ValidateRebind, RebindSteps, Steps, BindSteps
    <2>2. TypeInv' /\ HostInv'
      BY <1>1, <1>3, <2>1, HostFrame DEF ValidateRebind, TypeInv
    <2> QED
      BY <2>1, <2>2 DEF BindingInv
  <1>4. CASE WriteRunSidecar(p)
    <2>1. pc' \in [Procs -> Steps] /\ HomeInv' /\ OwnerInv' /\ RebindInv'
      BY <1>4, StepKeeps, "sidecar" \in Steps DEF WriteRunSidecar, RebindSteps, Steps, BindSteps
    <2>2. TypeInv' /\ HostInv'
      BY <1>1, <1>4, <2>1, HostFrame DEF WriteRunSidecar, TypeInv
    <2> QED
      BY <2>1, <2>2 DEF BindingInv
  <1>5. CASE WriteSidecar(p)
    <2>1. /\ End(p) /\ sidecar' = [sidecar EXCEPT ![Original] = BindingRecovery]
          /\ UNCHANGED <<name, binding, table, run, late, opened, ids, scenario>>
      BY <1>5 DEF WriteSidecar
    <2>2. /\ pc' \in [Procs -> Steps] /\ at' \in [Procs -> Places]
          /\ record' \in [Procs -> Records \cup {None}] /\ sourceLock' \in Procs \cup {None}
          /\ HomeInv' /\ OwnerInv' /\ RebindInv'
      BY <2>1, EndKeeps
    <2>3. BindingRecovery \in Recoveries /\ BindingRecovery.machine = Original.machine
      <3>1. binding[Original] \in Records \cup {None}
        BY <1>1, OriginalIsPlace DEF TypeInv
      <3> QED
        BY <3>1, OriginalIsPlace, PlaceParts DEF BindingRecovery, RecoveryRecord, Recoveries
    <2>4. sidecar \in [Places -> Recoveries \cup {None}]
      BY <1>1 DEF TypeInv
    <2>5. /\ sidecar' \in [Places -> Recoveries \cup {None}]
          /\ \A q \in Places : sidecar'[q] = sidecar[q] \/ sidecar'[q] = BindingRecovery
      BY <2>1, <2>3, <2>4
    <2>6. TypeInv'
      BY <1>1, <2>1, <2>2, <2>5 DEF TypeInv
    <2>7. HostInv'
      BY <1>1, <2>1, <2>3, <2>5 DEF HostInv
    <2> QED
      BY <2>2, <2>6, <2>7 DEF BindingInv
  <1> QED
    BY <1>2, <1>3, <1>4, <1>5 DEF Recovering

\* Refusals, kills and late statements.
LEMMA FailureKeeps ==
    ASSUME BindingInv, NEW p \in Procs, Refuse(p) \/ Fail(p)
    PROVE  BindingInv'
  <1> USE DEF files, locks, bounds
  <1>1. /\ TypeInv /\ HostInv /\ HomeInv /\ OwnerInv /\ RebindInv
    BY DEF BindingInv
  <1>2. End(p) /\ UNCHANGED <<name, files, table, run, opened, ids, scenario>>
    BY DEF Refuse, Fail
  <1>3. /\ pc' \in [Procs -> Steps] /\ at' \in [Procs -> Places]
        /\ record' \in [Procs -> Records \cup {None}] /\ sourceLock' \in Procs \cup {None}
        /\ HomeInv' /\ OwnerInv' /\ RebindInv'
    BY <1>2, EndKeeps
  <1>4. late' \subseteq Late
    <2>1. late \subseteq Late
      BY <1>1 DEF TypeInv
    <2>2. CASE late' = late
      BY <2>1, <2>2
    <2>3. CASE pc[p] \in {"create", "insert"} /\ late' = late \cup {[op |-> pc[p], row |-> record[p]]}
      <3>1. record[p] \in Records
        BY <1>1, <2>3 DEF HomeInv
      <3>2. [op |-> pc[p], row |-> record[p]] \in Late
        BY <2>3, <3>1 DEF Late
      <3> QED
        BY <2>1, <2>3, <3>2
    <2> QED
      BY <2>2, <2>3 DEF Refuse, Fail
  <1>5. TypeInv' /\ HostInv'
    BY <1>1, <1>2, <1>3, <1>4, HostFrame DEF TypeInv
  <1> QED
    BY <1>3, <1>5 DEF BindingInv

LEMMA LateKeeps ==
    ASSUME BindingInv, NEW s \in late, ApplyLate(s)
    PROVE  BindingInv'
  <1> USE DEF files, locks, local, bounds
  <1>1. /\ TypeInv /\ HostInv /\ HomeInv /\ OwnerInv /\ RebindInv
        /\ table \in Seq(Records) \cup {None} /\ late \subseteq Late
    BY DEF BindingInv, TypeInv
  <1>2. s.row \in Records
    BY <1>1 DEF Late
  <1>3. /\ late' = late \ {s}
        /\ UNCHANGED <<name, files, run, sourceLock, pc, at, record, opened, ids, scenario>>
    BY DEF ApplyLate
  <1>4. /\ table' \in Seq(Records) \cup {None}
        /\ \A rec : OwnedBy(rec) => OwnedBy(rec)'
        /\ \A q \in opened : table' # None /\ table' # <<>> /\ HomeOf(Head(table')) = q
    <2>1. CASE table' = table
      BY <1>1, <2>1 DEF OwnerInv, OwnedBy
    <2>2. CASE \/ table = None /\ table' = <<>>
               \/ table # None /\ table' = Append(table, s.row)
      BY <1>1, <1>2, <2>2, TableGrows
    <2> QED
      BY <2>1, <2>2 DEF ApplyLate
  <1>5. TypeInv' /\ HostInv'
    BY <1>1, <1>3, <1>4, HostFrame DEF TypeInv
  <1>6. HomeInv' /\ RebindInv'
    BY <1>1, <1>3 DEF HomeInv, RebindInv, HomeOf
  <1>7. OwnerInv'
    <2>1. \A q \in Procs : pc'[q] = "mark" => OwnedBy(record[q])'
      BY <1>1, <1>3, <1>4 DEF OwnerInv, OwnedBy
    <2> QED
      BY <2>1, <1>3, <1>4 DEF OwnerInv, HomeOf
  <1> QED
    BY <1>5, <1>6, <1>7 DEF BindingInv
\* A copied directory brings the records it was made with.
LEMMA CopyKeeps ==
    ASSUME BindingInv, NEW from \in Places, NEW to \in Places, Copy(from, to)
    PROVE  BindingInv'
  <1> USE DEF locks, local
  <1>1. /\ TypeInv /\ HostInv /\ HomeInv /\ OwnerInv /\ RebindInv
        /\ binding \in [Places -> Records \cup {None}] /\ sidecar \in [Places -> Recoveries \cup {None}]
        /\ at \in [Procs -> Places]
    BY DEF BindingInv, TypeInv
  <1>2. /\ binding' = [binding EXCEPT ![to] = binding[from]] /\ binding[from] # None
        /\ sidecar' = [sidecar EXCEPT ![to] = sidecar[from]]
        /\ UNCHANGED <<name, table, run, sourceLock, pc, at, record, late, opened, scenario, ids>>
    BY DEF Copy
  <1>3. /\ binding' \in [Places -> Records \cup {None}] /\ sidecar' \in [Places -> Recoveries \cup {None}]
        /\ \A q \in Places : \E o \in Places : binding'[q] = binding[o] /\ sidecar'[q] = sidecar[o]
        /\ \A q \in Places : binding[q] # None => binding'[q] # None
    BY <1>1, <1>2
  <1>4. TypeInv' /\ HostInv'
    <2>1. TypeInv'
      BY <1>1, <1>2, <1>3 DEF TypeInv
    <2>2. HostInv'
      BY <1>1, <1>2, <1>3 DEF HostInv
    <2> QED
      BY <2>1, <2>2
  <1>5. HomeInv'
    BY <1>1, <1>2, <1>3 DEF HomeInv, HomeOf
  <1>6. OwnerInv' /\ RebindInv'
    BY <1>1, <1>2 DEF OwnerInv, OwnedBy, RebindInv, HomeOf
  <1> QED
    BY <1>4, <1>5, <1>6 DEF BindingInv

\* A directory is lost where no process is.
LEMMA LosePlaceKeeps ==
    ASSUME BindingInv, NEW place \in Places, LosePlace(place)
    PROVE  BindingInv'
  <1> USE DEF locks, local
  <1>1. /\ TypeInv /\ HostInv /\ HomeInv /\ OwnerInv /\ RebindInv
        /\ binding \in [Places -> Records \cup {None}] /\ sidecar \in [Places -> Recoveries \cup {None}]
        /\ at \in [Procs -> Places]
    BY DEF BindingInv, TypeInv
  <1>2. /\ binding' = [binding EXCEPT ![place] = None] /\ sidecar' = [sidecar EXCEPT ![place] = None]
        /\ \A p \in Procs : pc[p] # "idle" => at[p] # place
        /\ UNCHANGED <<name, table, run, sourceLock, pc, at, record, late, opened, scenario, ids>>
    BY DEF LosePlace
  <1>3. /\ binding' \in [Places -> Records \cup {None}] /\ sidecar' \in [Places -> Recoveries \cup {None}]
        /\ binding'[place] = None /\ sidecar'[place] = None
        /\ \A q \in Places \ {place} : binding'[q] = binding[q] /\ sidecar'[q] = sidecar[q]
    BY <1>1, <1>2
  <1>4. TypeInv' /\ HostInv'
    <2>1. TypeInv'
      BY <1>1, <1>2, <1>3 DEF TypeInv
    <2>2. HostInv'
      BY <1>1, <1>2, <1>3 DEF HostInv
    <2> QED
      BY <2>1, <2>2
  <1>5. HomeInv'
    <2>1. \A p \in Procs : pc[p] \in BindSteps => binding'[at[p]] = binding[at[p]]
      BY <1>1, <1>2, <1>3 DEF BindSteps
    <2> QED
      BY <1>1, <1>2, <2>1 DEF HomeInv, HomeOf
  <1>6. OwnerInv' /\ RebindInv'
    BY <1>1, <1>2 DEF OwnerInv, OwnedBy, RebindInv, HomeOf
  <1> QED
    BY <1>4, <1>5, <1>6 DEF BindingInv

\* A command starts; the ownership is lost with nothing running; a machine
\* is renamed, never to the name in a legacy record; the pair is stopped.
LEMMA OperatorKeeps ==
    ASSUME BindingInv,
           \/ \E p \in Procs, q \in Places : StartOpen(p, q)
           \/ LoseTable \/ StopWriters
           \/ \E m \in Machines, n \in Names : Rename(m, n)
    PROVE  BindingInv'
  <1> USE DEF files, locks, local, bounds
  <1>1. /\ TypeInv /\ HostInv /\ HomeInv /\ OwnerInv /\ RebindInv
        /\ pc \in [Procs -> Steps] /\ at \in [Procs -> Places] /\ name \in [Machines -> Names]
    BY DEF BindingInv, TypeInv
  <1>2. ASSUME NEW p \in Procs, NEW place \in Places, StartOpen(p, place) PROVE BindingInv'
    <2>1. /\ pc[p] = "idle" /\ pc' = [pc EXCEPT ![p] = "lock"] /\ at' = [at EXCEPT ![p] = place]
          /\ UNCHANGED <<name, files, table, run, sourceLock, record, late, opened, ids, scenario>>
      BY <1>2 DEF StartOpen, Goto
    <2>2. /\ pc' \in [Procs -> Steps] /\ at' \in [Procs -> Places]
          /\ pc'[p] = "lock" /\ \A q \in Procs \ {p} : pc'[q] = pc[q] /\ at'[q] = at[q]
      BY <1>1, <2>1 DEF Steps
    <2>3. TypeInv' /\ HostInv'
      BY <1>1, <2>1, <2>2, HostFrame DEF TypeInv
    <2>4. HomeInv'
      BY <1>1, <2>1, <2>2 DEF HomeInv, HomeOf, BindSteps
    <2>5. OwnerInv'
      BY <1>1, <2>1, <2>2 DEF OwnerInv, OwnedBy, HomeOf
    <2>6. RebindInv'
      BY <1>1, <2>1, <2>2 DEF RebindInv, RebindSteps
    <2> QED
      BY <2>3, <2>4, <2>5, <2>6 DEF BindingInv
  <1>3. CASE LoseTable
    <2>1. TypeInv' /\ HostInv'
      BY <1>1, <1>3, HostFrame DEF LoseTable, TypeInv
    <2>2. HomeInv' /\ RebindInv'
      BY <1>1, <1>3 DEF LoseTable, HomeInv, RebindInv, HomeOf
    <2>3. OwnerInv'
      BY <1>3 DEF LoseTable, OwnerInv
    <2> QED
      BY <2>1, <2>2, <2>3 DEF BindingInv
  <1>4. CASE StopWriters
    <2>1. TypeInv' /\ HostInv'
      BY <1>1, <1>4, HostFrame DEF StopWriters, TypeInv
    <2> QED
      BY <2>1, <1>1, <1>4, ProcessFrame DEF StopWriters, BindingInv
  <1>5. ASSUME NEW m \in Machines, NEW n \in Names, Rename(m, n) PROVE BindingInv'
    <2>1. /\ name' = [name EXCEPT ![m] = n] /\ n # run.host
          /\ UNCHANGED <<files, table, run, locks, local, late, opened, ids, scenario>>
      BY <1>5 DEF Rename
    <2>2. TypeInv'
      BY <1>1, <2>1 DEF TypeInv
    <2>3. HostInv'
      <3>1. \A o \in Machines : name'[o] = run.host => name[o] = run.host
        BY <1>1, <2>1
      <3> QED
        BY <1>1, <2>1, <3>1 DEF HostInv
    <2> QED
      BY <1>1, <2>1, <2>2, <2>3, ProcessFrame DEF BindingInv
  <1> QED
    BY <1>2, <1>3, <1>4, <1>5

LEMMA BindingStep ==
    ASSUME BindingInv, [Next]_vars
    PROVE  BindingInv'
  <1>1. scenario.places \subseteq Places
    BY BindingAssumption DEF BindingInv, TypeInv
  <1>2. CASE UNCHANGED vars
    <2>1. TypeInv' /\ HostInv'
      BY <1>2, HostFrame DEF vars, BindingInv, TypeInv
    <2> QED
      BY <1>2, <2>1, ProcessFrame DEF vars, BindingInv
  <1>3. CASE Next
    BY <1>1, <1>3, OpeningKeeps, RecoveryKeeps, FailureKeeps, LateKeeps, CopyKeeps, LosePlaceKeeps,
       OperatorKeeps DEF Next
  <1> QED
    BY <1>2, <1>3

\* Records stay with their machine, processes get past the check of
\* Control::open only at the home of their record, and the first row of the
\* ownership table is the record of every directory opened.
THEOREM BindingInvariant == Spec => []BindingInv
  <1>1. Init => BindingInv
    BY BindingInit
  <1>2. BindingInv /\ [Next]_vars => BindingInv'
    BY BindingStep
  <1> QED
    BY <1>1, <1>2, PTL DEF Spec

\* While a database keeps its ownership table, at most one controller
\* directory is opened for it: two places opened are both the home of the
\* table's first row.
THEOREM OneControllerOnly == Spec => []OneController
  <1>1. BindingInv => OneController
    BY DEF BindingInv, OwnerInv, OneController
  <1> QED
    BY <1>1, BindingInvariant, PTL

\* host_recovery writes a sidecar only while no command works in the
\* directory it belongs to.
THEOREM RecoveryIsQuiet == Spec => Quiet
  <1> DEFINE A == /\ runSidecar' # runSidecar => \A p \in Procs : pc[p] # "ingesting"
                  /\ sidecar'[Original] # sidecar[Original] /\ sidecar'[Original] # None =>
                        \A p \in Procs : pc[p] = "using" => at[p] # Original
  <1>1. ASSUME BindingInv, [Next]_vars PROVE [A]_vars
    <2> USE DEF files, locks, local, bounds
    <2>1. runSidecar' # runSidecar => \A p \in Procs : pc[p] # "ingesting"
      <3>1. SUFFICES ASSUME runSidecar' # runSidecar PROVE \A p \in Procs : pc[p] # "ingesting"
        OBVIOUS
      <3>2. PICK r \in Procs : WriteRunSidecar(r)
        BY <1>1, <3>1 DEF Next, vars, Opening, Recovering, StartOpen, TakeInitLock, SeeTable, Bind,
           CreateTable, InsertOwner, CheckOwner, MarkInitialized, Use, Finish, ValidateRebind,
           WriteSidecar, Refuse, Fail, Ingest, StartRebind, ApplyLate, Copy, LosePlace, LoseTable,
           StopWriters, Rename
      <3>3. pc[r] = "runSidecar"
        BY <3>2 DEF WriteRunSidecar
      <3> QED
        BY <1>1, <3>3 DEF BindingInv, RebindInv, RebindSteps
    <2>2. sidecar'[Original] # sidecar[Original] /\ sidecar'[Original] # None =>
             \A p \in Procs : pc[p] = "using" => at[p] # Original
      <3>1. SUFFICES ASSUME sidecar'[Original] # sidecar[Original], sidecar'[Original] # None
                     PROVE  \A p \in Procs : pc[p] = "using" => at[p] # Original
        OBVIOUS
      <3>2. sidecar \in [Places -> Recoveries \cup {None}] /\ scenario.places \subseteq Places
        BY <1>1, BindingAssumption DEF BindingInv, TypeInv
      <3>3. CASE \E r \in Procs : WriteSidecar(r)
        <4>1. PICK r \in Procs : WriteSidecar(r)
          BY <3>3
        <4>2. pc[r] \in RebindSteps
          BY <4>1 DEF WriteSidecar, RebindSteps
        <4> QED
          BY <1>1, <4>2 DEF BindingInv, RebindInv
      <3>4. CASE \E from, to \in scenario.places : Copy(from, to)
        <4>1. PICK from \in Places, to \in Places : Copy(from, to)
          BY <3>2, <3>4
        <4>2. to = Original
          BY <3>1, <3>2, <4>1, OriginalIsPlace DEF Copy
        <4>3. binding[Original] = None
          BY <4>1, <4>2 DEF Copy
        <4> QED
          BY <1>1, <4>3 DEF BindingInv, HomeInv, BindSteps
      <3>5. CASE \E q \in scenario.places : LosePlace(q)
        <4>1. PICK q \in Places : LosePlace(q)
          BY <3>2, <3>5
        <4>2. sidecar'[Original] = sidecar[Original] \/ sidecar'[Original] = None
          BY <3>2, <4>1, OriginalIsPlace DEF LosePlace
        <4> QED
          BY <3>1, <4>2
      <3>6. \/ \E r \in Procs : WriteSidecar(r)
            \/ \E from, to \in scenario.places : Copy(from, to)
            \/ \E q \in scenario.places : LosePlace(q)
        BY <1>1, <3>1 DEF Next, vars, Opening, Recovering, StartOpen, TakeInitLock, SeeTable, Bind,
           CreateTable, InsertOwner, CheckOwner, MarkInitialized, Use, Finish, ValidateRebind,
           WriteRunSidecar, Refuse, Fail, Ingest, StartRebind, ApplyLate, LoseTable, StopWriters,
           Rename
      <3> QED
        BY <3>3, <3>4, <3>5, <3>6
    <2> QED
      BY <2>1, <2>2
  <1> QED
    BY <1>1, BindingInvariant, PTL DEF Spec, Quiet
============================================================================
