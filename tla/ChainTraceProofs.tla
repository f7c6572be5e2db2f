-------------------------- MODULE ChainTraceProofs --------------------------
(* That the rows of map_block_state fold into the state of the chain, and   *)
(* that db_out keeps the current-state tables up to date, for every value   *)
(* of the constants of ChainTrace.                                          *)
EXTENDS ChainTrace, TLAPS, WellFoundedInduction, FiniteSetTheorems

----------------------------------------------------------------------------
(* What a set of changes and deletions says about a state                   *)

IsKey(kind, a, s) ==
    /\ kind \in Kinds /\ a \in Accounts
    /\ IF kind = "storage" THEN s \in Slots ELSE s = None

At(w, kind, a, s) == IF kind = "storage" THEN w[a].storage[s] ELSE w[a][kind]

OfKey(C, kind, a, s) == {c \in C : c.kind = kind /\ c.address = a /\ c.slot = s}
OfAccount(D, a) == {d \in D : d.address = a}

\* The last of the changes K of a key gives its value, a deletion after all of
\* them makes it zero, and without either it keeps the value it had.
Follows(value, before, kind, K, D) ==
    /\ \A c \in K :
          /\ \A e \in K : e.ordinal <= c.ordinal
          /\ \A d \in D : d.ordinal <= c.ordinal
          => value = c.new
    /\ \A d \in D : (\A c \in K : c.ordinal <= d.ordinal) => value = Zero(kind)
    /\ K = {} /\ D = {} => value = before

\* The changes C and the deletions D lead from the state `base` to w.
Reflects(w, base, C, D) ==
    \A kind \in Kinds, a \in Accounts, s \in Slots \cup {None} :
        IsKey(kind, a, s) =>
            Follows(At(w, kind, a, s), At(base, kind, a, s), kind,
                    OfKey(C, kind, a, s), OfAccount(D, a))

\* What the mapper collects of a block, of every account.
Settled(b) ==
    (UNION {Effective(b.system[i].changes) : i \in Committed(b.system)})
    \cup Effective(b.changes) \cup UNION {Persisted(b.txs[i]) : i \in DOMAIN b.txs}

DeletionsOf(b, t) ==
    {[address |-> ExecutionAddress(t.calls, i), ordinal |-> t.end] : i \in Deleting(b, t)}
AllDeletions(b) == UNION {DeletionsOf(b, t) : t \in {b.txs[j] : j \in DOMAIN b.txs}}

\* The changes of a transaction in progress that are in force, and those in
\* force when its call i began.
BeforeRoot(t) == {c \in Effective(t.calls[1].changes) : t.begin = 0 \/ c.ordinal < t.begin}
Below(calls, n) == UNION {Effective(calls[j].changes) : j \in {m \in Committed(calls) : m < n}}
Live(t) == IF t.calls[1].reverted THEN BeforeRoot(t) ELSE Below(t.calls, Len(t.calls) + 1)
LiveBelow(t, i) == IF i = 1 THEN BeforeRoot(t) ELSE Below(t.calls, i)

----------------------------------------------------------------------------
(* The inductive invariant                                                  *)

Worlds == [Accounts -> AccountStates]
Blocks == [cancun : BOOLEAN, system : Seq(Calls), changes : SUBSET Changes,
           txs : Seq(Transactions)]
Frames == [call : Nat, self : Accounts, world : Worlds, created : SUBSET Accounts,
           doomed : SUBSET Accounts]
DeletionRecords == [address : Accounts, ordinal : Nat]
Rows == [values : SUBSET [kind : Kinds, address : Selected, slot : Slots \cup {None},
                          value : Nat \cup Codes, ordinal : Nat],
         resets : SUBSET [address : Selected, ordinal : Nat]]
Entries == {r \in [kind : Kinds, address : Selected, slot : Slots \cup {None},
                   value : Nat \cup Codes] : IsKey(r.kind, r.address, r.slot)}

TypeInv ==
    /\ work \in Workloads /\ world \in Worlds /\ block \in Blocks
    /\ tx = None \/ tx \in Transactions
    /\ frames \in Seq(Frames)
    /\ created \in SUBSET Accounts /\ doomed \in SUBSET Accounts
    /\ ordinal \in Nat /\ halted \in BOOLEAN
    /\ rows \in Seq(Rows) /\ states \in Seq(Worlds) /\ Len(states) = Len(rows) + 1
    /\ tables \in SUBSET Entries

\* What a block has recorded happened by ordinal n.
BlockInv(b, n) ==
    /\ Settled(b) \in SUBSET Changes /\ \A c \in Settled(b) : c.ordinal <= n
    /\ AllDeletions(b) \in SUBSET DeletionRecords /\ \A d \in AllDeletions(b) : d.ordinal <= n

\* Between transactions, and before a root call, no call is open.
IdleInv ==
    /\ tx = None => frames = <<>> /\ created = {} /\ doomed = {}
    /\ halted => tx = None
    /\ tx # None /\ tx.begin = 0 =>
          /\ frames = <<>> /\ created = {} /\ doomed = {}
          /\ Len(tx.calls) = 1 /\ tx.calls[1].type = "call"
          /\ ~tx.calls[1].reverted /\ ~tx.calls[1].suicide

\* The calls of a transaction t, at ordinal n.
CallsInv(t, n) ==
    /\ Len(t.calls) > 0 /\ t.calls[1].type # "delegate" /\ t.begin <= n
    /\ \A j \in DOMAIN t.calls :
          /\ j > 1 \/ t.begin > 0 => t.calls[j].address \in Accounts
          /\ t.calls[j].type = "delegate" => t.calls[j].parent \in 1..(j - 1)
          /\ \A c \in t.calls[j].changes : 0 < c.ordinal /\ c.ordinal <= n

\* Its open frames fs: each made by the one before, none of them ended.
FramesInv(t, fs) ==
    /\ fs # <<>> => fs[1].call = 1
    /\ \A p \in DOMAIN fs :
          /\ fs[p].call \in DOMAIN t.calls
          /\ ~t.calls[fs[p].call].reverted /\ ~t.calls[fs[p].call].suicide
          /\ \A q \in DOMAIN fs : p < q => fs[p].call < fs[q].call

OwnNonce(t, c) ==
    /\ c.kind = "nonce" /\ c.address = t.from /\ c.old = t.nonce /\ c.new = t.nonce + 1

\* What a failed transaction leaves can be told from what its execution did.
RootInv(t) ==
    /\ \A c \in t.calls[1].changes :
          IF t.begin = 0 \/ c.ordinal < t.begin
          THEN \/ c.kind = "balance" /\ c.reason = "gas"
               \/ OwnNonce(t, c) /\ \A d \in t.calls[1].changes : c.ordinal <= d.ordinal
               \/ c.kind \in {"nonce", "code"} /\ c.address \in t.authorities
          ELSE t.begin < c.ordinal /\ c.reason # "gas"
    /\ t.from # None =>
          \E c \in t.calls[1].changes :
              /\ OwnNonce(t, c) /\ (t.begin = 0 \/ c.ordinal < t.begin)
              /\ \A d \in t.calls[1].changes : d = c \/ c.ordinal < d.ordinal

IsExec(g, calls) ==
    g = [j \in DOMAIN calls |->
            IF calls[j].type = "delegate" THEN g[calls[j].parent] ELSE calls[j].address]

FreeIn(w, a) == w[a].nonce = 0 /\ w[a].code = None

CreatedBelow(calls, n) ==
    {calls[j].address : j \in {m \in Committed(calls) : m < n /\ calls[m].type = "create"}}
DoomedBelow(calls, n, cancun, made) ==
    {ExecutionAddress(calls, j) : j \in {m \in Suicides(calls) :
        m < n /\ (~cancun \/ ExecutionAddress(calls, m) \in made)}}

\* The calls before n tell what the chain made and will delete, and an account
\* that destroyed itself is not one that CREATE can still use.
FateAt(calls, n, w, made, gone, cancun) ==
    /\ made = CreatedBelow(calls, n)
    /\ gone = DoomedBelow(calls, n, cancun, made)
    /\ \A i \in Suicides(calls) : i < n => ~FreeIn(w, ExecutionAddress(calls, i))

FateInv(t, fs, w, made, gone, cancun) ==
    /\ \E g : IsExec(g, t.calls)
    /\ FateAt(t.calls, Len(t.calls) + 1, w, made, gone, cancun)
    /\ \A p \in DOMAIN fs :
          /\ fs[p].self = ExecutionAddress(t.calls, fs[p].call)
          /\ FateAt(t.calls, fs[p].call, fs[p].world, fs[p].created, fs[p].doomed, cancun)

\* The state w and the states to return to follow from what is in force of the
\* block's changes S, of the transaction and of the deletions D.
WorldInv(w, base, S, D, t, fs) ==
    /\ Reflects(w, base, S \cup Live(t), D)
    /\ \A p \in DOMAIN fs : Reflects(fs[p].world, base, S \cup LiveBelow(t, fs[p].call), D)

Base == states[Len(states)]

StateInv ==
    \/ halted \/ Rejected(block)
    \/ IF tx = None THEN Reflects(world, Base, Settled(block), AllDeletions(block))
       ELSE WorldInv(world, Base, Settled(block), AllDeletions(block), tx, frames)

TxInv ==
    tx # None => /\ CallsInv(tx, ordinal) /\ FramesInv(tx, frames) /\ RootInv(tx)
                 /\ FateInv(tx, frames, world, created, doomed, block.cancun)

\* The state of the chain is the last one recorded, but for the block in progress.
TraceInv == TypeInv /\ BlockInv(block, ordinal) /\ IdleInv /\ TxInv /\ StateInv

----------------------------------------------------------------------------
(* Changes and deletions, one at a time                                     *)

\* A set of numbers has a least one.
LEMMA LeastNumber ==
    ASSUME NEW T \in SUBSET Nat, T # {}
    PROVE  \E x \in T : \A y \in T : x <= y
  <1> DEFINE R == OpToRel(<, Nat)
  <1>1. PICK x \in T : \A y \in T : ~(<<y, x>> \in R)
    BY NatLessThanWellFounded, WFMin
  <1>2. \A y \in T : ~(y < x)
    BY <1>1 DEF OpToRel
  <1> QED
    BY <1>2

\* Of records with bounded ordinals, one is the last.
LEMMA LastRecord ==
    ASSUME NEW S, S # {}, NEW n \in Nat, \A c \in S : c.ordinal \in Nat /\ c.ordinal <= n
    PROVE  \E c \in S : \A e \in S : e.ordinal <= c.ordinal
  <1> DEFINE T == {n - c.ordinal : c \in S}
  <1>1. T \in SUBSET Nat /\ T # {}
    OBVIOUS
  <1>2. PICK x \in T : \A y \in T : x <= y
    BY <1>1, LeastNumber
  <1>3. PICK c \in S : x = n - c.ordinal
    BY <1>2
  <1>4. ASSUME NEW e \in S PROVE e.ordinal <= c.ordinal
    <2>1. n - e.ordinal \in T
      OBVIOUS
    <2>2. x <= n - e.ordinal
      BY <1>2, <2>1
    <2> HIDE DEF T
    <2> QED
      BY <1>3, <2>2
  <1> QED
    BY <1>4

\* v is w with the value x at one key.
Updated(w, v, kind, a, s, x) ==
    \A k \in Kinds, b \in Accounts, r \in Slots \cup {None} :
        IsKey(k, b, r) =>
            At(v, k, b, r) = IF k = kind /\ b = a /\ r = s THEN x ELSE At(w, k, b, r)

LEMMA KeyOfChange ==
    ASSUME NEW c \in Changes
    PROVE  IsKey(c.kind, c.address, c.slot)
  BY DEF Changes, IsKey

\* A later change is reflected once it is made.
LEMMA AddChange ==
    ASSUME NEW w, NEW v, NEW base, NEW C \in SUBSET Changes, NEW D,
           NEW c \in Changes, \A e \in C : e.ordinal < c.ordinal,
           \A d \in D : d.ordinal \in Nat /\ d.ordinal < c.ordinal,
           c.old = At(w, c.kind, c.address, c.slot),
           Updated(w, v, c.kind, c.address, c.slot, c.new),
           Reflects(w, base, C, D)
    PROVE  Reflects(v, base, C \cup Effective({c}), D)
  <1> DEFINE E == C \cup Effective({c})
  <1> SUFFICES ASSUME NEW k \in Kinds, NEW a \in Accounts, NEW s \in Slots \cup {None},
                      IsKey(k, a, s)
               PROVE  Follows(At(v, k, a, s), At(base, k, a, s), k,
                              OfKey(E, k, a, s), OfAccount(D, a))
    BY Zenon DEF Reflects
  <1>3. Follows(At(w, k, a, s), At(base, k, a, s), k, OfKey(C, k, a, s), OfAccount(D, a))
    BY Zenon DEF Reflects
  <1>0. /\ \A e \in C : e.ordinal \in Nat
        /\ c.ordinal \in Nat
    BY DEF Changes
  <1>1. CASE c.old = c.new
    <2>1. Effective({c}) = {}
      BY <1>1 DEF Effective
    <2>2. E = C
      BY <2>1
    <2>3. At(v, k, a, s) = At(w, k, a, s)
      BY <1>1, ZenonT(30) DEF Updated
    <2> HIDE DEF E
    <2> QED
      BY <1>3, <2>2, <2>3, Zenon
  <1>2. CASE c.old # c.new
    <2>1. E = C \cup {c}
      BY <1>2 DEF Effective
    <2> HIDE DEF E
    <2>2. CASE k = c.kind /\ a = c.address /\ s = c.slot
      <3>1. At(v, k, a, s) = c.new
        BY <2>2 DEF Updated
      <3>2. c \in OfKey(E, k, a, s)
        BY <2>1, <2>2 DEF OfKey
      <3>3. \A e \in OfKey(E, k, a, s) : e = c \/ e.ordinal < c.ordinal
        BY <2>1 DEF OfKey
      <3>4. \A d \in OfAccount(D, a) : d.ordinal \in Nat /\ d.ordinal < c.ordinal
        BY DEF OfAccount
      <3>5. \A e \in OfKey(E, k, a, s) : e.ordinal \in Nat
        BY <1>0, <3>3, <2>1 DEF OfKey
      <3> QED
        BY <1>0, <3>1, <3>2, <3>3, <3>4, <3>5 DEF Follows
    <2>3. CASE ~(k = c.kind /\ a = c.address /\ s = c.slot)
      <3>1. At(v, k, a, s) = At(w, k, a, s)
        BY <2>3 DEF Updated
      <3>2. OfKey(E, k, a, s) = OfKey(C, k, a, s)
        BY <2>1, <2>3 DEF OfKey
      <3> QED
        BY <1>3, <3>1, <3>2, Zenon
    <2> QED
      BY <2>2, <2>3
  <1> QED
    BY <1>1, <1>2

\* The state v once the accounts `gone` are deleted.
Cleared(v, gone) == [a \in Accounts |-> IF a \in gone THEN NoAccount ELSE v[a]]
DeletedAt(gone, n) == {[address |-> a, ordinal |-> n] : a \in gone}

\* Deleting accounts after every change so far leaves their fields zero.
LEMMA AddDeletions ==
    ASSUME NEW w, NEW v, NEW base, NEW C, NEW D, NEW X, NEW n \in Nat,
           \A c \in C : c.ordinal \in Nat /\ c.ordinal < n,
           \A d \in D : d.ordinal \in Nat /\ d.ordinal < n,
           v = Cleared(w, X),
           Reflects(w, base, C, D)
    PROVE  Reflects(v, base, C, D \cup DeletedAt(X, n))
  <1> DEFINE E == D \cup DeletedAt(X, n)
  <1>0. v = [a \in Accounts |-> IF a \in X THEN NoAccount ELSE w[a]]
    BY DEF Cleared
  <1> SUFFICES ASSUME NEW k \in Kinds, NEW a \in Accounts, NEW s \in Slots \cup {None},
                      IsKey(k, a, s)
               PROVE  Follows(At(v, k, a, s), At(base, k, a, s), k,
                              OfKey(C, k, a, s), OfAccount(E, a))
    BY Zenon DEF Reflects
  <1>3. Follows(At(w, k, a, s), At(base, k, a, s), k, OfKey(C, k, a, s), OfAccount(D, a))
    BY Zenon DEF Reflects
  <1>1. CASE a \in X
    <2> DEFINE d0 == [address |-> a, ordinal |-> n]
    <2>1. d0 \in OfAccount(E, a) /\ d0.ordinal = n
      BY <1>1 DEF OfAccount, DeletedAt
    <2>2. At(v, k, a, s) = Zero(k)
      BY <1>0, <1>1 DEF At, Zero, IsKey, NoAccount, Kinds
    <2>3. \A c \in OfKey(C, k, a, s) : ~(n <= c.ordinal)
      BY DEF OfKey
    <2> HIDE DEF E, d0
    <2> QED
      BY <2>1, <2>2, <2>3 DEF Follows
  <1>2. CASE a \notin X
    <2>1. OfAccount(E, a) = OfAccount(D, a)
      BY <1>2 DEF OfAccount, DeletedAt
    <2>2. v[a] = w[a]
      BY <1>0, <1>2
    <2>3. At(v, k, a, s) = At(w, k, a, s)
      BY <2>2 DEF At
    <2> HIDE DEF E
    <2> QED
      BY <1>3, <2>1, <2>3, Zenon
  <1> QED
    BY <1>1, <1>2

----------------------------------------------------------------------------
(* The mapper                                                               *)

\* The row r takes a state to the next one: its values are those of w, a key it
\* does not mention keeps its value, and a storage key it resets is zero.
Describes(r, w, base) ==
    /\ \A v \in r.values : /\ IsKey(v.kind, v.address, v.slot) /\ v.ordinal \in Nat
                           /\ v.value = At(w, v.kind, v.address, v.slot)
    /\ \A v \in r.values, u \in r.values :
          v.kind = u.kind /\ v.address = u.address /\ v.slot = u.slot => v.ordinal = u.ordinal
    /\ \A v \in r.values, d \in r.resets :
          v.kind = "storage" /\ d.address = v.address => d.ordinal \in Nat /\ d.ordinal < v.ordinal
    /\ \A kind \in Kinds, a \in Selected, s \in Slots \cup {None} :
          /\ IsKey(kind, a, s)
          /\ ~\E v \in r.values : v.kind = kind /\ v.address = a /\ v.slot = s
          => IF kind = "storage" /\ (\E d \in r.resets : d.address = a)
             THEN At(w, kind, a, s) = 0
             ELSE At(w, kind, a, s) = At(base, kind, a, s)

LEMMA CollectedSettled ==
    ASSUME NEW b
    PROVE  Collected(b) = {c \in Settled(b) : c.address \in Selected}
  BY Zenon DEF Collected, Settled

LEMMA DeletionsLast ==
    ASSUME NEW b
    PROVE  Deletions(b) = {d \in AllDeletions(b) : \A e \in AllDeletions(b) :
                              e.address = d.address => e.ordinal <= d.ordinal}
  BY Zenon DEF Deletions, AllDeletions, DeletionsOf

\* The value of a record is that of its change.
LEMMA ValueFields ==
    ASSUME NEW c
    PROVE  /\ Value(c).kind = c.kind /\ Value(c).address = c.address
           /\ Value(c).slot = c.slot /\ Value(c).value = c.new /\ Value(c).ordinal = c.ordinal
  BY DEF Value

\* map_block_state: the row of a block describes what the block did.
LEMMA ProjectDescribes ==
    ASSUME NEW b, NEW w, NEW base, NEW n \in Nat,
           Settled(b) \in SUBSET Changes, \A c \in Settled(b) : c.ordinal <= n,
           \A d \in AllDeletions(b) : d.address \in Accounts /\ d.ordinal \in Nat /\ d.ordinal <= n,
           Reflects(w, base, Settled(b), AllDeletions(b))
    PROVE  Describes(Project(b), w, base)
  <1> DEFINE C == Settled(b)
             D == AllDeletions(b)
             r == Project(b)
             last == {Value(c) : c \in LastChanges(Collected(b))}
             gone == {d \in Deletions(b) : d.address \in Selected}
             kept == {v \in last : \A d \in gone : d.address = v.address =>
                         v.ordinal > d.ordinal \/ (v.ordinal = d.ordinal /\ v.kind # "storage")}
             zero == {[kind |-> k, address |-> d.address, slot |-> None,
                       value |-> Zero(k), ordinal |-> d.ordinal] :
                          k \in Kinds \ {"storage"}, d \in gone}
             lone == {z \in zero : \A v \in kept : <<v.kind, v.address>> # <<z.kind, z.address>>}
  <1>1. r.values = kept \cup lone /\ r.resets = gone
    BY DEF Project, Values
  <1>2. \A d : d \in gone <=> /\ d \in D /\ d.address \in Selected
                             /\ \A e \in D : e.address = d.address => e.ordinal <= d.ordinal
    BY DeletionsLast, Zenon
  <1>3. \A c : c \in LastChanges(Collected(b)) <=>
                 /\ c \in C /\ c.address \in Selected
                 /\ \A e \in OfKey(C, c.kind, c.address, c.slot) : e.ordinal <= c.ordinal
    BY CollectedSettled DEF LastChanges, OfKey
  <1>4. \A c \in C : c.ordinal \in Nat /\ c.ordinal <= n /\ IsKey(c.kind, c.address, c.slot)
    BY KeyOfChange DEF Changes
  <1>5. \A d \in D : d.address \in Accounts /\ d.ordinal \in Nat /\ d.ordinal <= n
    OBVIOUS
  <1>6. \A v : v \in last <=> \E c \in LastChanges(Collected(b)) : v = Value(c)
    OBVIOUS
  <1>7. \A v : v \in kept <=> v \in last /\ \A d \in gone : d.address = v.address =>
                         v.ordinal > d.ordinal \/ (v.ordinal = d.ordinal /\ v.kind # "storage")
    OBVIOUS
  <1>8. \A z : z \in zero <=> \E k \in Kinds \ {"storage"}, d \in gone :
              z = [kind |-> k, address |-> d.address, slot |-> None,
                       value |-> Zero(k), ordinal |-> d.ordinal]
    OBVIOUS
  <1>9. \A z : z \in lone <=> z \in zero /\ \A v \in kept :
                                  ~(v.kind = z.kind /\ v.address = z.address)
    OBVIOUS
  <1>10. \A k \in Kinds, a \in Accounts, s \in Slots \cup {None} : IsKey(k, a, s) =>
            Follows(At(w, k, a, s), At(base, k, a, s), k, OfKey(C, k, a, s), OfAccount(D, a))
    BY Zenon DEF Reflects
  <1>11. Selected \subseteq Accounts
    BY TraceAssumption
  <1> HIDE DEF C, D, r, last, gone, kept, zero, lone
  \* an account with deletions has a last one
  <1>12. ASSUME NEW a \in Selected, OfAccount(D, a) # {}
         PROVE  \E d \in gone : d.address = a
    <2>1. PICK d \in OfAccount(D, a) : \A e \in OfAccount(D, a) : e.ordinal <= d.ordinal
      <3>1. \A d \in OfAccount(D, a) : d.ordinal \in Nat /\ d.ordinal <= n
        BY <1>5 DEF OfAccount
      <3> QED
        BY <1>12, <3>1, LastRecord
    <2> QED
      BY <2>1, <1>2 DEF OfAccount
  \* the last deletion of an account comes after the others
  <1>13. ASSUME NEW d \in gone, NEW e \in OfAccount(D, d.address)
         PROVE  e.ordinal <= d.ordinal
    BY <1>2 DEF OfAccount
  \* a change later than every deletion of its account leaves a kept value
  <1>14. ASSUME NEW k \in Kinds, NEW a \in Selected, NEW s \in Slots \cup {None},
                NEW c \in OfKey(C, k, a, s), \A d \in gone : d.address = a => d.ordinal < c.ordinal
         PROVE  \E v \in kept : v.kind = k /\ v.address = a /\ v.slot = s
    <2>1. PICK e \in OfKey(C, k, a, s) : \A f \in OfKey(C, k, a, s) : f.ordinal <= e.ordinal
      <3>1. \A f \in OfKey(C, k, a, s) : f.ordinal \in Nat /\ f.ordinal <= n
        BY <1>4 DEF OfKey
      <3> QED
        BY <3>1, LastRecord
    <2>2. e.kind = k /\ e.address = a /\ e.slot = s /\ e \in C /\ c.ordinal <= e.ordinal /\ c \in C
      BY <2>1 DEF OfKey
    <2>3. e \in LastChanges(Collected(b))
      BY <1>3, <2>1, <2>2
    <2>4. Value(e) \in last
      BY <1>6, <2>3
    <2>5. \A d \in gone : d.address = a => e.ordinal > d.ordinal
      BY <1>14, <1>2, <1>4, <1>5, <2>2
    <2>6. Value(e) \in kept
      BY <1>7, <2>2, <2>4, <2>5, ValueFields
    <2> QED
      BY <2>2, <2>6, ValueFields
  \* what a kept value is
  <1>15. ASSUME NEW v \in kept
         PROVE  \E c \in C : /\ v = Value(c) /\ c.address \in Selected
                             /\ \A e \in OfKey(C, c.kind, c.address, c.slot) : e.ordinal <= c.ordinal
                             /\ \A d \in OfAccount(D, c.address) : d.ordinal <= c.ordinal
                             /\ c.new = At(w, c.kind, c.address, c.slot)
    <2>1. PICK c : /\ v = Value(c) /\ c \in C /\ c.address \in Selected
                   /\ \A e \in OfKey(C, c.kind, c.address, c.slot) : e.ordinal <= c.ordinal
      BY <1>3, <1>6, <1>7
    <2>2. \A d \in gone : d.address = c.address => d.ordinal <= c.ordinal
      BY <1>7, <2>1, ValueFields, <1>2, <1>4, <1>5
    <2>3. \A d \in OfAccount(D, c.address) : d.ordinal <= c.ordinal
      <3>1. SUFFICES ASSUME NEW d \in OfAccount(D, c.address) PROVE d.ordinal <= c.ordinal
        OBVIOUS
      <3>2. PICK g \in gone : g.address = c.address
        BY <1>12, <2>1
      <3>3. d.ordinal <= g.ordinal /\ g.ordinal <= c.ordinal
        BY <1>13, <2>2, <3>2
      <3>4. d \in D /\ g \in D
        BY <1>2 DEF OfAccount
      <3> QED
        BY <1>4, <1>5, <2>1, <3>3, <3>4
    <2>4. c \in OfKey(C, c.kind, c.address, c.slot)
      BY <2>1 DEF OfKey
    <2>5. IsKey(c.kind, c.address, c.slot) /\ c.kind \in Kinds /\ c.address \in Accounts
          /\ c.slot \in Slots \cup {None}
      BY <1>4, <2>1 DEF IsKey
    <2>6. c.new = At(w, c.kind, c.address, c.slot)
      BY <1>10, <2>1, <2>3, <2>4, <2>5 DEF Follows
    <2> QED
      BY <2>1, <2>3, <2>6
  \* what a zero value is
  <1>16. ASSUME NEW z \in lone
         PROVE  \E d \in gone : /\ z.kind \in Kinds \ {"storage"} /\ z.address = d.address
                                /\ z.slot = None /\ z.ordinal = d.ordinal
                                /\ z.value = At(w, z.kind, z.address, None)
    <2>1. PICK k \in Kinds \ {"storage"}, d \in gone :
              z = [kind |-> k, address |-> d.address, slot |-> None,
                       value |-> Zero(k), ordinal |-> d.ordinal]
      BY <1>8, <1>9
    <2>2. IsKey(k, d.address, None) /\ d \in OfAccount(D, d.address) /\ d.address \in Selected
      BY <1>2, <1>5 DEF IsKey, OfAccount
    <2>3. \A c \in OfKey(C, k, d.address, None) : c.ordinal <= d.ordinal
      <3>1. SUFFICES ASSUME NEW c \in OfKey(C, k, d.address, None), d.ordinal < c.ordinal
                     PROVE  FALSE
        BY <1>2, <1>4, <1>5 DEF OfKey
      <3>2. \A g \in gone : g.address = d.address => g.ordinal < c.ordinal
        <4>1. \A g \in gone : g.address = d.address => g.ordinal <= d.ordinal
          BY <1>2
        <4>2. c \in C
          BY DEF OfKey
        <4> QED
          BY <1>2, <1>4, <1>5, <3>1, <4>1, <4>2
      <3>3. \E v \in kept : v.kind = k /\ v.address = d.address /\ v.slot = None
        BY <1>14, <2>2, <3>2
      <3> QED
        BY <1>9, <2>1, <3>3
    <2>4. Follows(At(w, k, d.address, None), At(base, k, d.address, None), k,
                  OfKey(C, k, d.address, None), OfAccount(D, d.address))
      BY <1>10, <1>11, <2>2
    <2>5. At(w, k, d.address, None) = Zero(k)
      BY <2>2, <2>3, <2>4 DEF Follows
    <2> QED
      BY <2>1, <2>5
  <1>17. \A v \in kept \cup lone : /\ IsKey(v.kind, v.address, v.slot) /\ v.ordinal \in Nat
                                   /\ v.value = At(w, v.kind, v.address, v.slot)
    <2>1. ASSUME NEW v \in kept
          PROVE  /\ IsKey(v.kind, v.address, v.slot) /\ v.ordinal \in Nat
                 /\ v.value = At(w, v.kind, v.address, v.slot)
      BY <1>15, <1>4, ValueFields
    <2>2. ASSUME NEW v \in lone
          PROVE  /\ IsKey(v.kind, v.address, v.slot) /\ v.ordinal \in Nat
                 /\ v.value = At(w, v.kind, v.address, v.slot)
      BY <1>16, <1>2, <1>5, <1>11 DEF IsKey
    <2> QED
      BY <2>1, <2>2
  <1>18. \A v \in kept \cup lone, u \in kept \cup lone :
          v.kind = u.kind /\ v.address = u.address /\ v.slot = u.slot => v.ordinal = u.ordinal
    <2>1. SUFFICES ASSUME NEW v \in kept \cup lone, NEW u \in kept \cup lone,
                          v.kind = u.kind, v.address = u.address, v.slot = u.slot
                   PROVE  v.ordinal = u.ordinal
      OBVIOUS
    <2>2. CASE v \in kept /\ u \in kept
      <3>1. PICK c \in C : v = Value(c) /\ \A e \in OfKey(C, c.kind, c.address, c.slot) :
                                               e.ordinal <= c.ordinal
        BY <1>15, <2>2
      <3>2. PICK f \in C : u = Value(f) /\ \A e \in OfKey(C, f.kind, f.address, f.slot) :
                                               e.ordinal <= f.ordinal
        BY <1>15, <2>2
      <3>3. c.kind = f.kind /\ c.address = f.address /\ c.slot = f.slot
        BY <2>1, <3>1, <3>2, ValueFields
      <3>4. c.ordinal <= f.ordinal /\ f.ordinal <= c.ordinal
        BY <3>1, <3>2, <3>3 DEF OfKey
      <3> QED
        BY <1>4, <3>1, <3>2, <3>4, ValueFields
    <2>3. CASE v \in lone /\ u \in lone
      <3>1. PICK d \in gone : v.address = d.address /\ v.ordinal = d.ordinal
        BY <1>16, <2>3
      <3>2. PICK g \in gone : u.address = g.address /\ u.ordinal = g.ordinal
        BY <1>16, <2>3
      <3>3. d.ordinal <= g.ordinal /\ g.ordinal <= d.ordinal
        BY <1>2, <2>1, <3>1, <3>2
      <3> QED
        BY <1>2, <1>5, <3>1, <3>2, <3>3
    <2>4. CASE v \in kept /\ u \in lone
      BY <1>9, <2>1, <2>4
    <2>5. CASE v \in lone /\ u \in kept
      BY <1>9, <2>1, <2>5
    <2> QED
      BY <2>2, <2>3, <2>4, <2>5
  <1>19. \A v \in kept \cup lone, d \in gone :
            v.kind = "storage" /\ d.address = v.address
            => d.ordinal \in Nat /\ d.ordinal < v.ordinal
    BY <1>2, <1>5, <1>7, <1>16
  <1>20. ASSUME NEW k \in Kinds, NEW a \in Selected, NEW s \in Slots \cup {None}, IsKey(k, a, s),
                ~\E v \in kept \cup lone : v.kind = k /\ v.address = a /\ v.slot = s
         PROVE  IF k = "storage" /\ (\E d \in gone : d.address = a)
                THEN At(w, k, a, s) = 0 ELSE At(w, k, a, s) = At(base, k, a, s)
    <2>1. Follows(At(w, k, a, s), At(base, k, a, s), k, OfKey(C, k, a, s), OfAccount(D, a))
      BY <1>10, <1>11, <1>20
    <2>2. CASE \E d \in gone : d.address = a
      <3>1. PICK d \in gone : d.address = a
        BY <2>2
      <3>2. k = "storage"
        <4>1. SUFFICES ASSUME k # "storage" PROVE FALSE
          OBVIOUS
        <4> DEFINE z == [kind |-> k, address |-> a, slot |-> None,
                         value |-> Zero(k), ordinal |-> d.ordinal]
        <4>2. z \in zero
          BY <1>8, <3>1, <4>1
        <4>3. s = None
          BY <1>20, <4>1 DEF IsKey
        <4>4. \A v \in kept : v.kind = k => v.slot = None
          BY <1>17, <4>1 DEF IsKey
        <4>5. z \in lone
          BY <1>9, <1>20, <4>2, <4>3, <4>4
        <4> QED
          BY <1>20, <4>3, <4>5
      <3>3. \A c \in OfKey(C, k, a, s) : c.ordinal <= d.ordinal
        <4>1. SUFFICES ASSUME NEW c \in OfKey(C, k, a, s), d.ordinal < c.ordinal PROVE FALSE
          BY <1>2, <1>4, <1>5 DEF OfKey
        <4>2. \A g \in gone : g.address = a => g.ordinal < c.ordinal
          <5>1. \A g \in gone : g.address = a => g.ordinal <= d.ordinal
            BY <1>2, <3>1
          <5>2. c \in C
            BY DEF OfKey
          <5> QED
            BY <1>2, <1>4, <1>5, <4>1, <5>1, <5>2
        <4> QED
          BY <1>14, <1>20, <4>2
      <3>4. d \in OfAccount(D, a)
        BY <1>2, <3>1 DEF OfAccount
      <3>5. At(w, k, a, s) = Zero(k)
        BY <2>1, <3>3, <3>4 DEF Follows
      <3> QED
        BY <2>2, <3>2, <3>5 DEF Zero
    <2>3. CASE ~\E d \in gone : d.address = a
      <3>1. OfAccount(D, a) = {}
        BY <1>12, <2>3
      <3>2. OfKey(C, k, a, s) = {}
        BY <1>14, <1>20, <2>3
      <3> QED
        BY <2>1, <2>3, <3>1, <3>2 DEF Follows
    <2> QED
      BY <2>2, <2>3
  <1> QED
    BY <1>1, <1>17, <1>18, <1>19, <1>20 DEF Describes, r

----------------------------------------------------------------------------
(* The fold                                                                 *)

\* All of New stands at <<n, o>> with one value, and all of Old in earlier blocks.
Newest(Old, New, n, o, value) ==
    /\ New # {} /\ n \in Nat /\ o \in Nat
    /\ \A x \in Old : x.position[1] \in Nat /\ x.position[1] < n
    /\ \A x \in New : x.position[1] = n /\ x.position[2] = o /\ x.value = value

\* The rows of the last block decide, where there are any.
LEMMA ArgMaxNew ==
    ASSUME NEW Old, NEW New, NEW missing, NEW value, NEW n, NEW o, Newest(Old, New, n, o, value)
    PROVE  ArgMax(Old \cup New, missing) = value
  <1> DEFINE S == Old \cup New
             Top(v) == \A x \in S : ~Later(x.position, v.position)
  <1>1. PICK m : m \in New
    BY DEF Newest
  <1>2. \A x \in S : ~Later(x.position, m.position)
    BY <1>1 DEF Newest, Later
  <1>3. m \in S /\ Top(m)
    BY <1>1, <1>2
  <1>4. (CHOOSE v \in S : Top(v)) \in S /\ Top(CHOOSE v \in S : Top(v))
    BY <1>3, Zenon
  <1>5. \A v \in Old : Later(m.position, v.position)
    BY <1>1 DEF Newest, Later
  <1>6. \A v \in S : Top(v) => v \in New
    BY <1>3, <1>5
  <1>7. (CHOOSE v \in S : Top(v)).value = value
    BY <1>4, <1>6 DEF Newest
  <1>8. S # {}
    BY <1>1
  <1>9. ArgMax(S, missing) = (CHOOSE v \in S : Top(v)).value
    BY <1>8, Zenon DEF ArgMax
  <1> QED
    BY <1>7, <1>9

\* What a block adds to the changes and the deletions of a fold.
NewDelta(r, kind, n) ==
    {[address |-> v.address, slot |-> v.slot, value |-> v.value, position |-> <<n, v.ordinal>>] :
        v \in {w \in r.values : w.kind = kind}}
NewResets(r, n) == {[address |-> d.address, position |-> <<n, d.ordinal>>] : d \in r.resets}

LEMMA DeltaStep ==
    ASSUME NEW R \in Seq(Rows), NEW r, NEW kind, NEW number \in 0..Len(R)
    PROVE  Delta(Append(R, r), kind, number + 1, Len(R) + 1) =
               Delta(R, kind, number + 1, Len(R)) \cup NewDelta(r, kind, Len(R) + 1)
  <1> DEFINE N == Len(R)
             Q == Append(R, r)
  <1>1. N \in Nat /\ Q[N + 1] = r /\ \A n \in 1..N : Q[n] = R[n]
    OBVIOUS
  <1> HIDE DEF N, Q
  <1>2. (number + 1)..(N + 1) = ((number + 1)..N) \cup {N + 1}
    BY <1>1 DEF N
  <1>3. \A n \in (number + 1)..N : NewDelta(Q[n], kind, n) = NewDelta(R[n], kind, n)
    BY <1>1
  <1>4. Delta(Q, kind, number + 1, N + 1) = UNION {NewDelta(Q[n], kind, n) : n \in (number + 1)..(N + 1)}
    BY Zenon DEF Delta, NewDelta
  <1>5. Delta(R, kind, number + 1, N) = UNION {NewDelta(R[n], kind, n) : n \in (number + 1)..N}
    BY Zenon DEF Delta, NewDelta
  <1>6. Delta(Q, kind, number + 1, N + 1) = Delta(R, kind, number + 1, N) \cup NewDelta(r, kind, N + 1)
    BY <1>1, <1>2, <1>3, <1>4, <1>5
  <1> QED
    BY <1>6 DEF N, Q

LEMMA ResetsStep ==
    ASSUME NEW R \in Seq(Rows), NEW r, NEW number \in 0..Len(R)
    PROVE  Resets(Append(R, r), number + 1, Len(R) + 1) =
               Resets(R, number + 1, Len(R)) \cup NewResets(r, Len(R) + 1)
  <1> DEFINE N == Len(R)
             Q == Append(R, r)
  <1>1. N \in Nat /\ Q[N + 1] = r /\ \A n \in 1..N : Q[n] = R[n]
    OBVIOUS
  <1> HIDE DEF N, Q
  <1>2. (number + 1)..(N + 1) = ((number + 1)..N) \cup {N + 1}
    BY <1>1 DEF N
  <1>3. \A n \in (number + 1)..N : NewResets(Q[n], n) = NewResets(R[n], n)
    BY <1>1
  <1>4. Resets(Q, number + 1, N + 1) = UNION {NewResets(Q[n], n) : n \in (number + 1)..(N + 1)}
    BY Zenon DEF Resets, NewResets
  <1>5. Resets(R, number + 1, N) = UNION {NewResets(R[n], n) : n \in (number + 1)..N}
    BY Zenon DEF Resets, NewResets
  <1>6. Resets(Q, number + 1, N + 1) = Resets(R, number + 1, N) \cup NewResets(r, N + 1)
    BY <1>1, <1>2, <1>3, <1>4, <1>5
  <1> QED
    BY <1>6 DEF N, Q

HasValues(S, r, kind) ==
    \A v \in r.values :
        v.kind = kind => \E x \in S : x.address = v.address /\ x.slot = v.slot
HasResets(S, r) == \A d \in r.resets : \E x \in S : x.address = d.address

LEMMA NewDeltaHas ==
    ASSUME NEW r, NEW kind, NEW n
    PROVE  HasValues(NewDelta(r, kind, n), r, kind)
  <1> SUFFICES ASSUME NEW v \in r.values, v.kind = kind
               PROVE  \E x \in NewDelta(r, kind, n) : x.address = v.address /\ x.slot = v.slot
    BY DEF HasValues
  <1> DEFINE x == [address |-> v.address, slot |-> v.slot, value |-> v.value,
                   position |-> <<n, v.ordinal>>]
  <1>1. x \in NewDelta(r, kind, n)
    BY DEF NewDelta
  <1>2. x.address = v.address /\ x.slot = v.slot
    OBVIOUS
  <1> HIDE DEF x
  <1> QED
    BY <1>1, <1>2

LEMMA NewResetsHas ==
    ASSUME NEW r, NEW n
    PROVE  HasResets(NewResets(r, n), r)
  <1> SUFFICES ASSUME NEW d \in r.resets
               PROVE  \E x \in NewResets(r, n) : x.address = d.address
    BY DEF HasResets
  <1> DEFINE x == [address |-> d.address, position |-> <<n, d.ordinal>>]
  <1>1. x \in NewResets(r, n)
    BY DEF NewResets
  <1>2. x.address = d.address
    OBVIOUS
  <1> HIDE DEF x
  <1> QED
    BY <1>1, <1>2

\* Everything a fold has seen stands at the base or in one of its blocks.
LEMMA DeltaPositions ==
    ASSUME NEW R, NEW kind, NEW number \in Nat, NEW N \in Nat
    PROVE  \A x \in Delta(R, kind, number + 1, N) : x.position[1] \in (number + 1)..N
  <1> DEFINE I == (number + 1)..N
             D == Delta(R, kind, number + 1, N)
             F(n) == NewDelta(R[n], kind, n)
  <1>1. D = UNION {F(n) : n \in I}
    BY Zenon DEF Delta, NewDelta
  <1>2. \A n : \A x \in F(n) : x.position[1] = n
    BY DEF NewDelta
  <1> HIDE DEF I, D, F
  <1>3. \A x \in D : \E n \in I : x \in F(n)
    BY ONLY <1>1, Zenon
  <1>4. \A x \in D : x.position[1] \in I
    BY ONLY <1>2, <1>3, Zenon
  <1> QED
    BY <1>4 DEF I, D

LEMMA ResetPositions ==
    ASSUME NEW R, NEW number \in Nat, NEW N \in Nat
    PROVE  \A x \in Resets(R, number + 1, N) : x.position[1] \in (number + 1)..N
  <1> DEFINE I == (number + 1)..N
             D == Resets(R, number + 1, N)
             F(n) == NewResets(R[n], n)
  <1>1. D = UNION {F(n) : n \in I}
    BY Zenon DEF Resets, NewResets
  <1>2. \A n : \A x \in F(n) : x.position[1] = n
    BY DEF NewResets
  <1> HIDE DEF I, D, F
  <1>3. \A x \in D : \E n \in I : x \in F(n)
    BY ONLY <1>1, Zenon
  <1>4. \A x \in D : x.position[1] \in I
    BY ONLY <1>2, <1>3, Zenon
  <1> QED
    BY <1>4 DEF I, D

\* observed_fields: one more block.
LEMMA FieldStep ==
    ASSUME NEW R \in Seq(Rows), NEW r, NEW number \in 0..Len(R), NEW base, NEW w, NEW before,
           Describes(r, w, before), NEW kind \in Kinds \ {"storage"}, NEW a \in Selected,
           ObservedFields(base, number, R, Len(R), kind, a) = At(before, kind, a, None)
    PROVE  ObservedFields(base, number, Append(R, r), Len(R) + 1, kind, a) = At(w, kind, a, None)
  <1> DEFINE N == Len(R)
             Old == {v \in Delta(R, kind, number + 1, N) : v.address = a}
             New == {v \in NewDelta(r, kind, N + 1) : v.address = a}
  <1>1. N \in Nat /\ number \in Nat
    OBVIOUS
  <1>2. {v \in Delta(Append(R, r), kind, number + 1, N + 1) : v.address = a} = Old \cup New
    BY DeltaStep
  <1>3. IsKey(kind, a, None)
    BY TraceAssumption DEF IsKey
  <1>4. ObservedFields(base, number, Append(R, r), N + 1, kind, a) = ArgMax(Old \cup New, base[a][kind])
    BY <1>2, Zenon DEF ObservedFields
  <1>5. ObservedFields(base, number, R, N, kind, a) = ArgMax(Old, base[a][kind])
    BY Zenon DEF ObservedFields
  <1>6. \A v \in r.values : v.kind = kind => v.slot = None
    BY DEF Describes, IsKey
  <1>7. CASE New = {}
    <2>1. Old \cup New = Old
      BY <1>7
    <2>2. ~\E v \in r.values : v.kind = kind /\ v.address = a /\ v.slot = None
      <3>1. HasValues(NewDelta(r, kind, N + 1), r, kind)
        BY NewDeltaHas
      <3> QED
        BY <1>7, <3>1 DEF HasValues
    <2>3. At(w, kind, a, None) = At(before, kind, a, None)
      BY <1>3, <2>2 DEF Describes
    <2> QED
      BY <1>4, <1>5, <2>1, <2>3, Zenon
  <1>8. CASE New # {}
    <2>1. PICK v \in r.values : v.kind = kind /\ v.address = a
      BY <1>8 DEF NewDelta
    <2>2. \A u \in r.values : u.kind = kind /\ u.address = a =>
              u.ordinal = v.ordinal /\ u.value = At(w, kind, a, None)
      BY <1>6, <2>1 DEF Describes
    <2>3. \A x \in New : x.position[1] = N + 1 /\ x.position[2] = v.ordinal
                         /\ x.value = At(w, kind, a, None)
      BY <2>2 DEF NewDelta
    <2>4. \A x \in Old : x.position[1] \in Nat /\ x.position[1] < N + 1
      <3>1. \A x \in Delta(R, kind, number + 1, N) : x.position[1] \in (number + 1)..N
        BY <1>1, DeltaPositions
      <3> HIDE DEF N
      <3> QED
        BY <1>1, <3>1
    <2>5. v.ordinal \in Nat
      BY <2>1 DEF Describes
    <2> HIDE DEF N, Old, New
    <2>6. N + 1 \in Nat
      BY <1>1
    <2>7. Newest(Old, New, N + 1, v.ordinal, At(w, kind, a, None))
      BY <1>8, <2>3, <2>4, <2>5, <2>6 DEF Newest
    <2>8. ArgMax(Old \cup New, base[a][kind]) = At(w, kind, a, None)
      BY <2>7, ArgMaxNew
    <2> QED
      BY <1>4, <2>8 DEF N
  <1> QED
    BY <1>7, <1>8

\* A slot as a fold returns it.
StorageAt(base, number, R, to, a, s) ==
    ArgMax({v \in UnionStorage(base, number, R, to) : v.address = a /\ v.slot = s}, 0)

\* union_storage: one more block.
LEMMA StorageStep ==
    ASSUME NEW R \in Seq(Rows), NEW r, NEW number \in 0..Len(R), NEW base, NEW w, NEW before,
           Describes(r, w, before), NEW a \in Selected, NEW s \in Slots,
           StorageAt(base, number, R, Len(R), a, s) = At(before, "storage", a, s)
    PROVE  StorageAt(base, number, Append(R, r), Len(R) + 1, a, s) = At(w, "storage", a, s)
  <1> DEFINE N == Len(R)
             Seen == Inherited(base, number) \cup Delta(R, "storage", number + 1, N)
             Gone == Resets(R, number + 1, N)
             Fresh == NewDelta(r, "storage", N + 1)
             Wiped == NewResets(r, N + 1)
             Kept(S, G) == {v \in S : \A x \in G : x.address = v.address => Later(v.position, x.position)}
             Mine(S) == {v \in S : v.address = a /\ v.slot = s}
  <1>1. N \in Nat /\ number \in Nat /\ number <= N
    OBVIOUS
  <1>2. UnionStorage(base, number, R, N) = Kept(Seen, Gone)
    BY Zenon DEF UnionStorage
  <1>3. UnionStorage(base, number, Append(R, r), N + 1) = Kept(Seen \cup Fresh, Gone \cup Wiped)
    <2>1. Inherited(base, number) \cup Delta(Append(R, r), "storage", number + 1, N + 1) = Seen \cup Fresh
      BY DeltaStep
    <2>2. Resets(Append(R, r), number + 1, N + 1) = Gone \cup Wiped
      BY ResetsStep
    <2> QED
      BY <2>1, <2>2, Zenon DEF UnionStorage
  <1>4. \A x \in Seen : x.position[1] \in Nat /\ x.position[1] < N + 1
    BY <1>1, DeltaPositions DEF Inherited
  <1>5. \A x \in Gone : x.position[1] \in Nat /\ x.position[1] < N + 1
    BY <1>1, ResetPositions
  <1>6. \A x \in Fresh : /\ x.position[1] = N + 1
                         /\ \E v \in r.values : /\ v.kind = "storage" /\ v.address = x.address
                                                /\ v.slot = x.slot /\ v.value = x.value
                                                /\ v.ordinal = x.position[2]
    BY DEF NewDelta
  <1>7. \A x \in Wiped : /\ x.position[1] = N + 1
                         /\ \E d \in r.resets : d.address = x.address /\ d.ordinal = x.position[2]
    BY DEF NewResets
  <1>8. (\E x \in Wiped : x.address = a) <=> (\E d \in r.resets : d.address = a)
    <2>1. HasResets(Wiped, r)
      BY NewResetsHas
    <2> HIDE DEF Wiped
    <2> QED
      BY <1>7, <2>1 DEF HasResets
  <1>9. Mine(Fresh) = {} => ~\E v \in r.values : v.kind = "storage" /\ v.address = a /\ v.slot = s
    <2>1. HasValues(Fresh, r, "storage")
      BY NewDeltaHas
    <2> HIDE DEF Fresh
    <2> QED
      BY <2>1 DEF HasValues
  <1>10. IsKey("storage", a, s)
    BY TraceAssumption DEF IsKey, Kinds
  <1> HIDE DEF N, Seen, Gone, Fresh, Wiped
  <1>11. \A x \in Fresh, y \in Gone \cup Wiped : y.address = x.address => Later(x.position, y.position)
    <2>1. ASSUME NEW x \in Fresh, NEW y \in Gone PROVE Later(x.position, y.position)
      BY <1>1, <1>5, <1>6 DEF Later
    <2>2. ASSUME NEW x \in Fresh, NEW y \in Wiped, y.address = x.address
          PROVE  Later(x.position, y.position)
      <3>1. PICK v \in r.values : /\ v.kind = "storage" /\ v.address = x.address
                                  /\ v.ordinal = x.position[2]
        BY <1>6
      <3>2. PICK d \in r.resets : d.address = y.address /\ d.ordinal = y.position[2]
        BY <1>7
      <3>3. d.ordinal \in Nat /\ d.ordinal < v.ordinal /\ v.ordinal \in Nat
        BY <2>2, <3>1, <3>2 DEF Describes
      <3> QED
        BY <1>6, <1>7, <3>1, <3>2, <3>3 DEF Later
    <2> QED
      BY <2>1, <2>2
  <1>12. \A x \in Seen, y \in Wiped : ~Later(x.position, y.position)
    BY <1>1, <1>4, <1>7 DEF Later
  <1> DEFINE Old == Mine(Kept(Seen, Gone \cup Wiped))
  <1>13. Mine(Kept(Seen \cup Fresh, Gone \cup Wiped)) = Old \cup Mine(Fresh)
    BY <1>11
  <1>14. CASE Mine(Fresh) # {}
    <2>1. PICK x : x \in Fresh /\ x.address = a /\ x.slot = s
      BY <1>14
    <2>2. PICK v \in r.values : v.kind = "storage" /\ v.address = a /\ v.slot = s
      BY <1>6, <2>1
    <2>3. \A u \in r.values : u.kind = "storage" /\ u.address = a /\ u.slot = s =>
              u.ordinal = v.ordinal /\ u.value = At(w, "storage", a, s)
      BY <2>2 DEF Describes
    <2>4. \A y \in Mine(Fresh) : /\ y.position[1] = N + 1 /\ y.position[2] = v.ordinal
                                 /\ y.value = At(w, "storage", a, s)
      BY <1>6, <2>3
    <2>5. \A y \in Old : y.position[1] \in Nat /\ y.position[1] < N + 1
      BY <1>4
    <2>6. v.ordinal \in Nat
      BY <2>2 DEF Describes
    <2> DEFINE New == Mine(Fresh)
    <2> HIDE DEF Old, New
    <2>7. New # {}
      BY <1>14 DEF New
    <2>8. \A y \in New : /\ y.position[1] = N + 1 /\ y.position[2] = v.ordinal
                         /\ y.value = At(w, "storage", a, s)
      BY <2>4 DEF New
    <2>9. N + 1 \in Nat
      BY <1>1
    <2>10. Newest(Old, New, N + 1, v.ordinal, At(w, "storage", a, s))
      BY <2>5, <2>6, <2>7, <2>8, <2>9 DEF Newest
    <2>11. ArgMax(Old \cup New, 0) = At(w, "storage", a, s)
      BY <2>10, ArgMaxNew
    <2> QED
      BY <1>3, <1>13, <2>11, Zenon DEF New, N, StorageAt
  <1>15. CASE Mine(Fresh) = {} /\ \E d \in r.resets : d.address = a
    <2>1. Old = {}
      BY <1>8, <1>12, <1>15
    <2>2. Mine(Kept(Seen \cup Fresh, Gone \cup Wiped)) = {}
      BY <1>13, <1>15, <2>1
    <2>3. ArgMax({}, 0) = 0
      BY DEF ArgMax
    <2>4. At(w, "storage", a, s) = 0
      BY <1>9, <1>10, <1>15 DEF Describes, Kinds
    <2> QED
      BY <1>3, <2>2, <2>3, <2>4 DEF N, StorageAt
  <1>16. CASE Mine(Fresh) = {} /\ ~\E d \in r.resets : d.address = a
    <2>1. Old = Mine(Kept(Seen, Gone))
      BY <1>8, <1>16
    <2>2. Mine(Kept(Seen \cup Fresh, Gone \cup Wiped)) = Mine(Kept(Seen, Gone))
      BY <1>13, <1>16, <2>1
    <2>3. At(w, "storage", a, s) = At(before, "storage", a, s)
      BY <1>9, <1>10, <1>16 DEF Describes, Kinds
    <2> QED
      BY <1>2, <1>3, <2>2, <2>3 DEF N, StorageAt
  <1> QED
    BY <1>14, <1>15, <1>16

\* A fold to its own base is the base.
LEMMA FoldSelf ==
    ASSUME NEW R, NEW n \in Nat, NEW w \in Worlds
    PROVE  Folded(Observed(w), n, R, n) = Observed(w)
  <1> DEFINE b == Observed(w)
  <1>1. Selected \subseteq Accounts
    BY TraceAssumption
  <1>2. \A a \in Selected : b[a] = w[a] /\ w[a] \in AccountStates
    BY <1>1 DEF Observed, Worlds
  <1> HIDE DEF b
  <1>3. (n + 1)..n = {}
    OBVIOUS
  <1>4. \A kind : Delta(R, kind, n + 1, n) = {}
    BY <1>3, Zenon DEF Delta
  <1>5. Resets(R, n + 1, n) = {}
    BY <1>3, Zenon DEF Resets
  <1>6. ASSUME NEW kind, NEW a PROVE ObservedFields(b, n, R, n, kind, a) = b[a][kind]
    <2>1. {v \in Delta(R, kind, n + 1, n) : v.address = a} = {}
      BY <1>4
    <2> QED
      BY <2>1, Zenon DEF ObservedFields, ArgMax
  <1>7. UnionStorage(b, n, R, n) = Inherited(b, n)
    BY <1>4, <1>5 DEF UnionStorage
  <1>8. ASSUME NEW a \in Selected, NEW s \in Slots
        PROVE  StorageAt(b, n, R, n, a, s) = b[a].storage[s]
    <2> DEFINE New == {v \in Inherited(b, n) : v.address = a /\ v.slot = s}
               x == [address |-> a, slot |-> s, value |-> b[a].storage[s], position |-> <<n, 0>>]
    <2>1. x \in New
      BY DEF Inherited
    <2>2. \A y \in New : y.position[1] = n /\ y.position[2] = 0 /\ y.value = b[a].storage[s]
      BY DEF Inherited
    <2> HIDE DEF New, x
    <2>3. New # {} /\ {} \cup New = New
      BY <2>1
    <2>4. Newest({}, New, n, 0, b[a].storage[s])
      BY <2>2, <2>3 DEF Newest
    <2>6. ArgMax({} \cup New, 0) = b[a].storage[s]
      BY <2>4, ArgMaxNew
    <2>5. {v \in UnionStorage(b, n, R, n) : v.address = a /\ v.slot = s} = New
      BY <1>7, Zenon DEF New
    <2> QED
      BY <2>3, <2>6, <2>5 DEF StorageAt
  <1> DEFINE F == Folded(b, n, R, n)
  <1>9. F = [a \in Selected |->
               [nonce |-> ObservedFields(b, n, R, n, "nonce", a),
                balance |-> ObservedFields(b, n, R, n, "balance", a),
                code |-> ObservedFields(b, n, R, n, "code", a),
                storage |-> [s \in Slots |-> StorageAt(b, n, R, n, a, s)]]]
    BY Zenon DEF Folded, StorageAt
  <1> HIDE DEF F
  <1>10. ASSUME NEW a \in Selected PROVE F[a] = w[a]
    <2>1. [s \in Slots |-> StorageAt(b, n, R, n, a, s)] = w[a].storage
      <3>1. w[a].storage \in [Slots -> Nat] /\ b[a].storage = w[a].storage
        BY <1>2 DEF AccountStates
      <3>2. \A s \in Slots : StorageAt(b, n, R, n, a, s) = w[a].storage[s]
        BY <1>8, <3>1
      <3> QED
        BY <3>1, <3>2
    <2>2. /\ ObservedFields(b, n, R, n, "nonce", a) = w[a].nonce
          /\ ObservedFields(b, n, R, n, "balance", a) = w[a].balance
          /\ ObservedFields(b, n, R, n, "code", a) = w[a].code
      BY <1>2, <1>6 DEF AccountStates
    <2>3. F[a] = [nonce |-> w[a].nonce, balance |-> w[a].balance, code |-> w[a].code,
                  storage |-> w[a].storage]
      BY <1>9, <2>1, <2>2
    <2> QED
      BY <1>2, <2>3 DEF AccountStates
  <1>11. F = [a \in Selected |-> w[a]]
    BY <1>9, <1>10
  <1> QED
    BY <1>11 DEF Observed, F, b

\* The fold over one more block, of a row that describes the step to w.
LEMMA FoldStep ==
    ASSUME NEW R \in Seq(Rows), NEW r, NEW number \in 0..Len(R), NEW base,
           NEW w \in Worlds, NEW before \in Worlds, Describes(r, w, before),
           Folded(base, number, R, Len(R)) = Observed(before)
    PROVE  Folded(base, number, Append(R, r), Len(R) + 1) = Observed(w)
  <1> DEFINE N == Len(R)
             Q == Append(R, r)
             F == Folded(base, number, R, N)
             G == Folded(base, number, Q, N + 1)
  <1>1. Selected \subseteq Accounts
    BY TraceAssumption
  <1>2. F = [a \in Selected |->
               [nonce |-> ObservedFields(base, number, R, N, "nonce", a),
                balance |-> ObservedFields(base, number, R, N, "balance", a),
                code |-> ObservedFields(base, number, R, N, "code", a),
                storage |-> [s \in Slots |-> StorageAt(base, number, R, N, a, s)]]]
    BY Zenon DEF Folded, StorageAt
  <1>3. G = [a \in Selected |->
               [nonce |-> ObservedFields(base, number, Q, N + 1, "nonce", a),
                balance |-> ObservedFields(base, number, Q, N + 1, "balance", a),
                code |-> ObservedFields(base, number, Q, N + 1, "code", a),
                storage |-> [s \in Slots |-> StorageAt(base, number, Q, N + 1, a, s)]]]
    BY Zenon DEF Folded, StorageAt
  <1>4. \A a \in Selected : F[a] = before[a]
    BY DEF Observed
  <1>5. \A a \in Selected : before[a] \in AccountStates /\ w[a] \in AccountStates
    BY <1>1 DEF Worlds
  <1> HIDE DEF N, Q, F, G
  <1>6. ASSUME NEW a \in Selected PROVE G[a] = w[a]
    <2>1. /\ ObservedFields(base, number, R, N, "nonce", a) = before[a].nonce
          /\ ObservedFields(base, number, R, N, "balance", a) = before[a].balance
          /\ ObservedFields(base, number, R, N, "code", a) = before[a].code
          /\ \A s \in Slots : StorageAt(base, number, R, N, a, s) = before[a].storage[s]
      <3> DEFINE st == [s \in Slots |-> StorageAt(base, number, R, N, a, s)]
      <3>1. before[a] = [nonce |-> ObservedFields(base, number, R, N, "nonce", a),
                         balance |-> ObservedFields(base, number, R, N, "balance", a),
                         code |-> ObservedFields(base, number, R, N, "code", a),
                         storage |-> st]
        BY <1>2, <1>4
      <3>2. \A s \in Slots : st[s] = StorageAt(base, number, R, N, a, s)
        OBVIOUS
      <3> HIDE DEF st
      <3>3. st = before[a].storage
        BY <3>1
      <3> QED
        BY <3>1, <3>2, <3>3
    <2>2. ASSUME NEW kind \in {"nonce", "balance", "code"}
          PROVE  ObservedFields(base, number, Q, N + 1, kind, a) = At(w, kind, a, None)
      <3>1. ObservedFields(base, number, R, N, kind, a) = At(before, kind, a, None)
        BY <2>1, <1>5 DEF At, AccountStates
      <3>2. kind \in Kinds \ {"storage"}
        BY DEF Kinds
      <3> QED
        BY <3>1, <3>2, FieldStep DEF N, Q
    <2>3. ASSUME NEW s \in Slots
          PROVE  StorageAt(base, number, Q, N + 1, a, s) = w[a].storage[s]
      <3>1. StorageAt(base, number, R, N, a, s) = At(before, "storage", a, s)
        BY <2>1 DEF At
      <3>2. StorageAt(base, number, Q, N + 1, a, s) = At(w, "storage", a, s)
        BY <3>1, StorageStep DEF N, Q
      <3> QED
        BY <3>2 DEF At
    <2>4. [s \in Slots |-> StorageAt(base, number, Q, N + 1, a, s)] = w[a].storage
      <3>1. w[a].storage \in [Slots -> Nat]
        BY <1>5 DEF AccountStates
      <3> QED
        BY <2>3, <3>1
    <2>5. /\ At(w, "nonce", a, None) = w[a].nonce
          /\ At(w, "balance", a, None) = w[a].balance
          /\ At(w, "code", a, None) = w[a].code
      BY <1>5 DEF At, AccountStates
    <2>6. G[a] = [nonce |-> w[a].nonce, balance |-> w[a].balance, code |-> w[a].code,
                  storage |-> w[a].storage]
      BY <1>3, <2>2, <2>4, <2>5
    <2> QED
      BY <1>5, <2>6 DEF AccountStates
  <1>7. G = [a \in Selected |-> w[a]]
    BY <1>3, <1>6
  <1> QED
    BY <1>7 DEF Observed, G, N, Q

----------------------------------------------------------------------------
(* The tables and the types of what the two modules return                  *)

LEMMA ProjectType ==
    ASSUME NEW b, Settled(b) \in SUBSET Changes, AllDeletions(b) \in SUBSET DeletionRecords
    PROVE  Project(b) \in Rows
  <1> DEFINE last == {Value(c) : c \in LastChanges(Collected(b))}
             gone == {d \in Deletions(b) : d.address \in Selected}
             kept == {v \in last : \A d \in gone : d.address = v.address =>
                         v.ordinal > d.ordinal \/ (v.ordinal = d.ordinal /\ v.kind # "storage")}
             zero == {[kind |-> k, address |-> d.address, slot |-> None,
                       value |-> Zero(k), ordinal |-> d.ordinal] :
                          k \in Kinds \ {"storage"}, d \in gone}
             lone == {z \in zero : \A v \in kept : <<v.kind, v.address>> # <<z.kind, z.address>>}
             Vals == [kind : Kinds, address : Selected, slot : Slots \cup {None},
                      value : Nat \cup Codes, ordinal : Nat]
  <1>1. Project(b) = [values |-> kept \cup lone, resets |-> gone]
    BY DEF Project, Values
  <1>2. gone \subseteq [address : Selected, ordinal : Nat]
    <2>1. ASSUME NEW d \in gone PROVE d \in [address : Selected, ordinal : Nat]
      <3>1. d \in DeletionRecords /\ d.address \in Selected
        BY DeletionsLast
      <3> QED
        BY <3>1 DEF DeletionRecords
    <2> QED
      BY <2>1
  <1>3. ASSUME NEW v \in last PROVE v \in Vals
    <2>1. PICK c \in LastChanges(Collected(b)) : v = Value(c)
      OBVIOUS
    <2>2. c \in Changes /\ c.address \in Selected
      BY CollectedSettled DEF LastChanges
    <2> QED
      BY <2>1, <2>2 DEF Value, Changes
  <1> HIDE DEF last, gone
  <1>4. ASSUME NEW z \in zero PROVE z \in Vals
    <2>1. PICK k \in Kinds \ {"storage"}, d \in gone :
              z = [kind |-> k, address |-> d.address, slot |-> None,
                   value |-> Zero(k), ordinal |-> d.ordinal]
      OBVIOUS
    <2>2. Zero(k) \in Nat \cup Codes
      BY DEF Zero, Codes
    <2>3. d.address \in Selected /\ d.ordinal \in Nat
      BY <1>2
    <2> QED
      BY <2>1, <2>2, <2>3
  <1>5. kept \cup lone \subseteq Vals
    BY <1>3, <1>4
  <1> HIDE DEF kept, lone
  <1> QED
    BY <1>1, <1>2, <1>5 DEF Rows

\* db_out upserts the last change of each key, or one of the last of its two
\* spellings.
LEMMA CurrentOf ==
    ASSUME NEW b, NEW trimmed, NEW x, x \in CurrentState(Collected(b), trimmed)
    PROVE  \E c \in Settled(b) :
               /\ c.address \in Selected
               /\ x = [kind |-> c.kind, address |-> c.address, slot |-> c.slot, value |-> c.new]
               /\ Key(c) \notin Respelled(Collected(b)) =>
                    \A e \in OfKey(Settled(b), c.kind, c.address, c.slot) : e.ordinal <= c.ordinal
  <1>1. PICK c \in Collected(b) :
            /\ x = [kind |-> c.kind, address |-> c.address, slot |-> c.slot, value |-> c.new]
            /\ \A e \in Collected(b) : RawKey(c) = RawKey(e) => e.ordinal <= c.ordinal
    BY DEF CurrentState
  <1>2. c \in Settled(b) /\ c.address \in Selected
    BY CollectedSettled
  <1>3. \A e \in OfKey(Settled(b), c.kind, c.address, c.slot) : e \in Collected(b) /\ Key(c) = Key(e)
    BY <1>2, CollectedSettled DEF OfKey, Key
  <1>4. ASSUME Key(c) \notin Respelled(Collected(b)), NEW e \in Collected(b), Key(c) = Key(e)
        PROVE  RawKey(c) = RawKey(e)
    BY <1>4 DEF Respelled
  <1> QED
    BY <1>1, <1>2, <1>3, <1>4

LEMMA UpsertType ==
    ASSUME NEW b, Settled(b) \in SUBSET Changes, NEW T \in SUBSET Entries, NEW trimmed
    PROVE  Upsert(T, b, trimmed) \in SUBSET Entries
  <1>1. ASSUME NEW x \in CurrentState(Collected(b), trimmed) PROVE x \in Entries
    <2>1. PICK c \in Settled(b) :
               /\ c.address \in Selected
               /\ x = [kind |-> c.kind, address |-> c.address, slot |-> c.slot, value |-> c.new]
      BY CurrentOf
    <2>2. c \in Changes /\ IsKey(c.kind, c.address, c.slot)
      BY KeyOfChange
    <2> QED
      BY <2>1, <2>2 DEF Changes, Entries
  <1> QED
    BY <1>1 DEF Upsert

\* The rows of T whose keys are not in `odd` hold the values of w of every
\* account outside `gone`.
UpToDate(T, w, gone, odd) ==
    \A x \in T : x.address \notin gone /\ Key(x) \notin odd => x.value = At(w, x.kind, x.address, x.slot)

\* A block's upserts keep the tables current.
LEMMA UpsertStep ==
    ASSUME NEW b, NEW w, NEW base, NEW n \in Nat, NEW T \in SUBSET Entries, NEW gone,
           NEW odd, NEW trimmed, BlockInv(b, n),
           Reflects(w, base, Settled(b), AllDeletions(b)), UpToDate(T, base, gone, odd)
    PROVE  UpToDate(Upsert(T, b, trimmed), w, gone \cup {d.address : d \in Project(b).resets},
                    (odd \ {Key(c) : c \in Collected(b)}) \cup Respelled(Collected(b)))
  <1> DEFINE C == Settled(b)
             D == AllDeletions(b)
             all == gone \cup {d.address : d \in Project(b).resets}
             new == CurrentState(Collected(b), trimmed)
             twice == Respelled(Collected(b))
             still == (odd \ {Key(c) : c \in Collected(b)}) \cup twice
  <1>1. \A k \in Kinds, a \in Accounts, s \in Slots \cup {None} : IsKey(k, a, s) =>
            Follows(At(w, k, a, s), At(base, k, a, s), k, OfKey(C, k, a, s), OfAccount(D, a))
    BY Zenon DEF Reflects
  <1>2. C \in SUBSET Changes /\ \A c \in C : c.ordinal \in Nat /\ c.ordinal <= n
    BY DEF BlockInv, Changes
  <1>3. \A d \in D : d.address \in Accounts /\ d.ordinal \in Nat /\ d.ordinal <= n
    BY DEF BlockInv, DeletionRecords
  <1>4. \A d \in D : (\A e \in D : e.address = d.address => e.ordinal <= d.ordinal)
                     /\ d.address \in Selected => d \in Project(b).resets
    BY DeletionsLast DEF Project
  <1> HIDE DEF C, D, twice
  <1>5. ASSUME NEW a \in Selected, a \notin all PROVE OfAccount(D, a) = {}
    <2>1. SUFFICES ASSUME OfAccount(D, a) # {} PROVE FALSE
      OBVIOUS
    <2>2. \A d \in OfAccount(D, a) : d.ordinal \in Nat /\ d.ordinal <= n
      BY <1>3 DEF OfAccount
    <2>3. PICK d \in OfAccount(D, a) : \A e \in OfAccount(D, a) : e.ordinal <= d.ordinal
      BY <2>1, <2>2, LastRecord
    <2>4. d \in Project(b).resets /\ d.address = a
      BY <1>4, <2>3 DEF OfAccount
    <2> QED
      BY <1>5, <2>4
  <1>6. ASSUME NEW x \in Upsert(T, b, trimmed), x.address \notin all, Key(x) \notin still
        PROVE  x.value = At(w, x.kind, x.address, x.slot)
    <2>1. CASE x \in new
      <3>1. PICK c \in C :
               /\ c.address \in Selected
               /\ x = [kind |-> c.kind, address |-> c.address, slot |-> c.slot, value |-> c.new]
               /\ Key(c) \notin twice =>
                    \A e \in OfKey(C, c.kind, c.address, c.slot) : e.ordinal <= c.ordinal
        BY <2>1, CurrentOf DEF C, twice
      <3>2. OfAccount(D, c.address) = {}
        BY <1>5, <1>6, <3>1
      <3>3. IsKey(c.kind, c.address, c.slot) /\ c.kind \in Kinds /\ c.address \in Accounts
            /\ c.slot \in Slots \cup {None}
        BY <1>2, KeyOfChange DEF Changes
      <3>4. c \in OfKey(C, c.kind, c.address, c.slot)
        BY DEF OfKey
      <3>5. Key(c) \notin twice
        BY <1>6, <3>1 DEF Key
      <3>6. c.new = At(w, c.kind, c.address, c.slot)
        BY <1>1, <3>1, <3>2, <3>3, <3>4, <3>5 DEF Follows
      <3> QED
        BY <3>1, <3>6
    <2>2. CASE x \notin new
      <3>1. x \in T /\ \A y \in new : Key(y) # Key(x)
        BY <2>2 DEF Upsert
      <3>2. x \in Entries /\ x.address \in Selected /\ IsKey(x.kind, x.address, x.slot)
            /\ x.kind \in Kinds /\ x.address \in Accounts /\ x.slot \in Slots \cup {None}
        BY <3>1, TraceAssumption DEF Entries
      <3>3. OfAccount(D, x.address) = {}
        BY <1>5, <1>6, <3>2
      <3>4. ASSUME NEW c \in Collected(b), Key(c) = Key(x) PROVE FALSE
        <4> DEFINE K == OfKey(C, x.kind, x.address, x.slot)
        <4>1. \A e \in K : /\ e.ordinal \in Nat /\ e.ordinal <= n /\ e \in C
                           /\ e.kind = x.kind /\ e.address = x.address /\ e.slot = x.slot
          BY <1>2 DEF OfKey
        <4>2. \A e \in Collected(b) : Key(e) = Key(x) => e \in K
          BY CollectedSettled DEF Key, OfKey, C
        <4>3. K # {}
          BY <3>4, <4>2
        <4> HIDE DEF K
        <4>4. PICK last \in K : \A e \in K : e.ordinal <= last.ordinal
          BY <4>1, <4>3, LastRecord
        <4>5. last \in Collected(b) /\ Key(last) = Key(x)
          BY <3>2, <4>1, CollectedSettled DEF Key, C
        <4>6. Key(last) \notin Respelled(Collected(b))
          BY <1>6, <4>5 DEF twice
        <4>7. \A e \in Collected(b) : RawKey(last) = RawKey(e) => e.ordinal <= last.ordinal
          <5>1. \A e \in Collected(b) : RawKey(last) = RawKey(e) => Key(e) = Key(x)
            BY <4>5 DEF RawKey
          <5> QED
            BY <4>2, <4>4, <5>1
        <4> DEFINE y == [kind |-> last.kind, address |-> last.address, slot |-> last.slot,
                         value |-> last.new]
        <4>8. y \in new
          BY <4>5, <4>6, <4>7 DEF CurrentState
        <4>9. Key(y) = Key(x)
          BY <4>5 DEF Key
        <4> QED
          BY <3>1, <4>8, <4>9
      <3>5. x.value = At(base, x.kind, x.address, x.slot)
        BY <1>6, <3>1, <3>4 DEF UpToDate
      <3>6. OfKey(C, x.kind, x.address, x.slot) = {}
        <4>1. \A c \in OfKey(C, x.kind, x.address, x.slot) : c \in Collected(b) /\ Key(c) = Key(x)
          BY <3>2, CollectedSettled DEF Key, OfKey, C
        <4> QED
          BY <3>4, <4>1
      <3>7. At(w, x.kind, x.address, x.slot) = At(base, x.kind, x.address, x.slot)
        BY <1>1, <3>2, <3>3, <3>6 DEF Follows
      <3> QED
        BY <3>5, <3>7
    <2> QED
      BY <2>1, <2>2
  <1> HIDE DEF all, still, new
  <1>7. UpToDate(Upsert(T, b, trimmed), w, all, still)
    BY Zenon, <1>6 DEF UpToDate
  <1> QED
    BY <1>7 DEF all, still, twice

----------------------------------------------------------------------------
(* One field of one account                                                 *)

\* A used account stays used.
Keeps(w, v) == \A a \in Accounts : ~FreeIn(w, a) => ~FreeIn(v, a)

LEMMA SetNonce ==
    ASSUME NEW w \in Worlds, NEW a \in Accounts, NEW x \in Nat
    PROVE  LET v == [w EXCEPT ![a].nonce = x]
           IN  /\ v \in Worlds /\ Updated(w, v, "nonce", a, None, x)
               /\ x # 0 => Keeps(w, v) /\ ~FreeIn(v, a)
  <1> DEFINE v == [w EXCEPT ![a].nonce = x]
  <1>1. v = [b \in Accounts |-> IF b = a THEN [w[b] EXCEPT !.nonce = x] ELSE w[b]]
    BY DEF Worlds
  <1>2. \A b \in Accounts : w[b] \in AccountStates
    BY DEF Worlds
  <1>3. \A b \in Accounts : v[b] = IF b = a THEN [w[b] EXCEPT !.nonce = x] ELSE w[b]
    BY <1>1
  <1>4. /\ v[a] \in AccountStates /\ v[a].nonce = x /\ v[a].balance = w[a].balance
        /\ v[a].code = w[a].code /\ v[a].storage = w[a].storage
    BY <1>2, <1>3 DEF AccountStates
  <1>5. v \in Worlds
    BY <1>1, <1>2, <1>3, <1>4 DEF Worlds
  <1> HIDE DEF v
  <1>6. ASSUME NEW k \in Kinds, NEW b \in Accounts, NEW r \in Slots \cup {None}, IsKey(k, b, r)
        PROVE  At(v, k, b, r) = IF k = "nonce" /\ b = a /\ r = None THEN x ELSE At(w, k, b, r)
    <2>1. CASE b = a
      BY <1>2, <1>4, <1>6, <2>1 DEF At, IsKey, Kinds, AccountStates
    <2>2. CASE b # a
      BY <1>3, <2>2 DEF At
    <2> QED
      BY <2>1, <2>2
  <1>7. x # 0 => Keeps(w, v) /\ ~FreeIn(v, a)
    BY <1>3, <1>4 DEF Keeps, FreeIn
  <1> QED
    BY <1>5, <1>6, <1>7 DEF Updated, v

LEMMA SetBalance ==
    ASSUME NEW w \in Worlds, NEW a \in Accounts, NEW x \in Nat
    PROVE  LET v == [w EXCEPT ![a].balance = x]
           IN  v \in Worlds /\ Updated(w, v, "balance", a, None, x) /\ Keeps(w, v)
  <1> DEFINE v == [w EXCEPT ![a].balance = x]
  <1>1. v = [b \in Accounts |-> IF b = a THEN [w[b] EXCEPT !.balance = x] ELSE w[b]]
    BY DEF Worlds
  <1>2. \A b \in Accounts : w[b] \in AccountStates
    BY DEF Worlds
  <1>3. \A b \in Accounts : v[b] = IF b = a THEN [w[b] EXCEPT !.balance = x] ELSE w[b]
    BY <1>1
  <1>4. /\ v[a] \in AccountStates /\ v[a].nonce = w[a].nonce /\ v[a].balance = x
        /\ v[a].code = w[a].code /\ v[a].storage = w[a].storage
    BY <1>2, <1>3 DEF AccountStates
  <1>5. v \in Worlds
    BY <1>1, <1>2, <1>3, <1>4 DEF Worlds
  <1> HIDE DEF v
  <1>6. ASSUME NEW k \in Kinds, NEW b \in Accounts, NEW r \in Slots \cup {None}, IsKey(k, b, r)
        PROVE  At(v, k, b, r) = IF k = "balance" /\ b = a /\ r = None THEN x ELSE At(w, k, b, r)
    <2>1. CASE b = a
      BY <1>2, <1>4, <1>6, <2>1 DEF At, IsKey, Kinds, AccountStates
    <2>2. CASE b # a
      BY <1>3, <2>2 DEF At
    <2> QED
      BY <2>1, <2>2
  <1>7. Keeps(w, v)
    BY <1>3, <1>4 DEF Keeps, FreeIn
  <1> QED
    BY <1>5, <1>6, <1>7 DEF Updated, v

LEMMA SetCode ==
    ASSUME NEW w \in Worlds, NEW a \in Accounts, NEW x \in Codes
    PROVE  LET v == [w EXCEPT ![a].code = x]
           IN  /\ v \in Worlds /\ Updated(w, v, "code", a, None, x)
               /\ x # None => Keeps(w, v)
  <1> DEFINE v == [w EXCEPT ![a].code = x]
  <1>1. v = [b \in Accounts |-> IF b = a THEN [w[b] EXCEPT !.code = x] ELSE w[b]]
    BY DEF Worlds
  <1>2. \A b \in Accounts : w[b] \in AccountStates
    BY DEF Worlds
  <1>3. \A b \in Accounts : v[b] = IF b = a THEN [w[b] EXCEPT !.code = x] ELSE w[b]
    BY <1>1
  <1>4. /\ v[a] \in AccountStates /\ v[a].nonce = w[a].nonce /\ v[a].balance = w[a].balance
        /\ v[a].code = x /\ v[a].storage = w[a].storage
    BY <1>2, <1>3 DEF AccountStates
  <1>5. v \in Worlds
    BY <1>1, <1>2, <1>3, <1>4 DEF Worlds
  <1> HIDE DEF v
  <1>6. ASSUME NEW k \in Kinds, NEW b \in Accounts, NEW r \in Slots \cup {None}, IsKey(k, b, r)
        PROVE  At(v, k, b, r) = IF k = "code" /\ b = a /\ r = None THEN x ELSE At(w, k, b, r)
    <2>1. CASE b = a
      BY <1>2, <1>4, <1>6, <2>1 DEF At, IsKey, Kinds, AccountStates
    <2>2. CASE b # a
      BY <1>3, <2>2 DEF At
    <2> QED
      BY <2>1, <2>2
  <1>7. x # None => Keeps(w, v)
    BY <1>3, <1>4 DEF Keeps, FreeIn
  <1> QED
    BY <1>5, <1>6, <1>7 DEF Updated, v

LEMMA SetStorage ==
    ASSUME NEW w \in Worlds, NEW a \in Accounts, NEW s \in Slots, NEW x \in Nat
    PROVE  LET v == [w EXCEPT ![a].storage[s] = x]
           IN  v \in Worlds /\ Updated(w, v, "storage", a, s, x) /\ Keeps(w, v)
  <1> DEFINE v == [w EXCEPT ![a].storage[s] = x]
  <1>1. v = [b \in Accounts |-> IF b = a THEN [w[b] EXCEPT !.storage[s] = x] ELSE w[b]]
    BY DEF Worlds
  <1>2. \A b \in Accounts : w[b] \in AccountStates
    BY DEF Worlds
  <1>3. \A b \in Accounts : v[b] = IF b = a THEN [w[b] EXCEPT !.storage[s] = x] ELSE w[b]
    BY <1>1
  <1>4. /\ v[a] \in AccountStates /\ v[a].nonce = w[a].nonce /\ v[a].balance = w[a].balance
        /\ v[a].code = w[a].code
        /\ v[a].storage = [w[a].storage EXCEPT ![s] = x]
    BY <1>2, <1>3 DEF AccountStates
  <1>5. v \in Worlds
    BY <1>1, <1>2, <1>3, <1>4 DEF Worlds
  <1>8. w[a].storage \in [Slots -> Nat]
    BY <1>2 DEF AccountStates
  <1> HIDE DEF v
  <1>6. ASSUME NEW k \in Kinds, NEW b \in Accounts, NEW r \in Slots \cup {None}, IsKey(k, b, r)
        PROVE  At(v, k, b, r) = IF k = "storage" /\ b = a /\ r = s THEN x ELSE At(w, k, b, r)
    <2>1. CASE b = a /\ k = "storage"
      BY <1>4, <1>6, <1>8, <2>1 DEF At, IsKey
    <2>2. CASE b # a
      BY <1>3, <2>2 DEF At
    <2>3. CASE b = a /\ k # "storage"
      BY <1>2, <1>4, <2>3 DEF At, Kinds, AccountStates
    <2> QED
      BY <2>1, <2>2, <2>3
  <1>7. Keeps(w, v)
    BY <1>3, <1>4 DEF Keeps, FreeIn
  <1> QED
    BY <1>5, <1>6, <1>7 DEF Updated, v

----------------------------------------------------------------------------
(* execution_address                                                        *)

\* A delegated call comes after the call that made it.
Parented(calls) ==
    \A j \in DOMAIN calls : calls[j].type = "delegate" => calls[j].parent \in 1..(j - 1)

LEMMA ExecIs ==
    ASSUME NEW calls, \E g : IsExec(g, calls)
    PROVE  \E e : IsExec(e, calls) /\ \A i : ExecutionAddress(calls, i) = e[i]
  <1> DEFINE e == CHOOSE g : IsExec(g, calls)
  <1>1. IsExec(e, calls)
    BY Zenon
  <1>2. \A i : ExecutionAddress(calls, i) = e[i]
    BY Zenon DEF ExecutionAddress, IsExec
  <1> HIDE DEF e
  <1> QED
    BY <1>1, <1>2

LEMMA ExecDef ==
    ASSUME NEW calls, \E g : IsExec(g, calls), NEW i \in DOMAIN calls
    PROVE  ExecutionAddress(calls, i) =
               IF calls[i].type = "delegate" THEN ExecutionAddress(calls, calls[i].parent)
               ELSE calls[i].address
  <1>1. PICK e : IsExec(e, calls) /\ \A j : ExecutionAddress(calls, j) = e[j]
    BY ExecIs
  <1>2. e[i] = IF calls[i].type = "delegate" THEN e[calls[i].parent] ELSE calls[i].address
    BY <1>1 DEF IsExec
  <1> QED
    BY <1>1, <1>2

\* The address depends on the calls so far.
LEMMA ExecAgree ==
    ASSUME NEW calls, NEW others, NEW n \in Nat,
           1..n \subseteq DOMAIN calls, 1..n \subseteq DOMAIN others,
           \E g : IsExec(g, calls), \E g : IsExec(g, others),
           Parented(calls),
           \A j \in 1..n : /\ others[j].type = calls[j].type /\ others[j].parent = calls[j].parent
                           /\ others[j].address = calls[j].address
    PROVE  \A j \in 1..n : ExecutionAddress(others, j) = ExecutionAddress(calls, j)
  <1> DEFINE T == {j \in 1..n : ExecutionAddress(others, j) # ExecutionAddress(calls, j)}
  <1>1. SUFFICES ASSUME T # {} PROVE FALSE
    OBVIOUS
  <1>2. T \in SUBSET Nat
    OBVIOUS
  <1>3. PICK x \in T : \A y \in T : x <= y
    BY <1>1, <1>2, LeastNumber
  <1>4. x \in 1..n /\ ExecutionAddress(others, x) # ExecutionAddress(calls, x)
    BY <1>3
  <1>5. ExecutionAddress(calls, x) =
            IF calls[x].type = "delegate" THEN ExecutionAddress(calls, calls[x].parent)
            ELSE calls[x].address
    BY <1>4, ExecDef
  <1>6. ExecutionAddress(others, x) =
            IF others[x].type = "delegate" THEN ExecutionAddress(others, others[x].parent)
            ELSE others[x].address
    BY <1>4, ExecDef
  <1>7. calls[x].type = "delegate" /\ calls[x].parent \in 1..(x - 1)
    BY <1>4, <1>5, <1>6 DEF Parented
  <1>8. calls[x].parent \in T
    BY <1>4, <1>5, <1>6, <1>7
  <1> QED
    BY <1>2, <1>3, <1>7, <1>8

LEMMA ExecAccount ==
    ASSUME NEW t \in Transactions, NEW n, CallsInv(t, n), t.begin > 0,
           \E g : IsExec(g, t.calls), NEW i \in DOMAIN t.calls
    PROVE  ExecutionAddress(t.calls, i) \in Accounts
  <1> DEFINE T == {j \in DOMAIN t.calls : ExecutionAddress(t.calls, j) \notin Accounts}
  <1>0. t.calls \in Seq(Calls) /\ DOMAIN t.calls = 1..Len(t.calls) /\ Len(t.calls) \in Nat
    BY DEF Transactions
  <1>1. SUFFICES ASSUME T # {} PROVE FALSE
    OBVIOUS
  <1>2. T \in SUBSET Nat
    BY <1>0
  <1>3. PICK x \in T : \A y \in T : x <= y
    BY <1>1, <1>2, LeastNumber
  <1>4. x \in DOMAIN t.calls /\ ExecutionAddress(t.calls, x) \notin Accounts
    BY <1>3
  <1>5. ExecutionAddress(t.calls, x) =
            IF t.calls[x].type = "delegate" THEN ExecutionAddress(t.calls, t.calls[x].parent)
            ELSE t.calls[x].address
    BY <1>4, ExecDef
  <1>6. t.calls[x].type = "delegate" /\ t.calls[x].parent \in 1..(x - 1)
    BY <1>4, <1>5 DEF CallsInv
  <1>7. t.calls[x].parent \in T
    BY <1>0, <1>4, <1>5, <1>6
  <1> QED
    BY <1>2, <1>3, <1>6, <1>7

\* A new call leaves the addresses of the others.
LEMMA ExecAppend ==
    ASSUME NEW calls \in Seq(Calls), NEW c \in Calls, \E g : IsExec(g, calls),
           Parented(calls), c.type = "delegate" => c.parent \in 1..Len(calls)
    PROVE  \E g : IsExec(g, Append(calls, c))
  <1> DEFINE n == Len(calls)
             more == Append(calls, c)
  <1>1. PICK g : IsExec(g, calls)
    OBVIOUS
  <1>2. n \in Nat /\ DOMAIN calls = 1..n /\ DOMAIN more = 1..(n + 1) /\ more[n + 1] = c
        /\ \A j \in 1..n : more[j] = calls[j]
    OBVIOUS
  <1> DEFINE last == IF c.type = "delegate" THEN g[c.parent] ELSE c.address
  <1>3. g = [j \in 1..n |-> IF calls[j].type = "delegate" THEN g[calls[j].parent] ELSE calls[j].address]
    BY <1>1, <1>2 DEF IsExec
  <1> DEFINE h == [j \in 1..(n + 1) |-> IF j <= n THEN g[j] ELSE last]
  <1> HIDE DEF n, more, last
  <1>4. h[n + 1] = last /\ \A j \in 1..n : h[j] = g[j]
    BY <1>2
  <1>5. ASSUME NEW j \in 1..(n + 1)
        PROVE  h[j] = IF more[j].type = "delegate" THEN h[more[j].parent] ELSE more[j].address
    <2>1. CASE j = n + 1
      BY <1>2, <1>4, <2>1 DEF last, n
    <2>2. CASE j \in 1..n
      <3>1. g[j] = IF calls[j].type = "delegate" THEN g[calls[j].parent] ELSE calls[j].address
        BY <1>3, <2>2
      <3>2. calls[j].type = "delegate" => calls[j].parent \in 1..n
        BY <1>2, <2>2 DEF Parented
      <3> QED
        BY <1>2, <1>4, <2>2, <3>1, <3>2
    <2> QED
      BY <1>2, <2>1, <2>2
  <1>6. h = [j \in DOMAIN more |-> IF more[j].type = "delegate" THEN h[more[j].parent]
                                   ELSE more[j].address]
    BY <1>2, <1>5
  <1> QED
    BY <1>6 DEF IsExec, more

----------------------------------------------------------------------------
(* A change recorded in a call                                              *)

\* u is t with the changes X added to its call i, which ends in a
\* SELFDESTRUCT if `dead`.
Extends(u, t, i, X, dead) ==
    /\ u \in Transactions
    /\ u.from = t.from /\ u.nonce = t.nonce /\ u.authorities = t.authorities
    /\ u.begin = t.begin /\ Len(u.calls) = Len(t.calls)
    /\ \A j \in 1..Len(t.calls) :
          /\ u.calls[j].type = t.calls[j].type /\ u.calls[j].address = t.calls[j].address
          /\ u.calls[j].parent = t.calls[j].parent
          /\ u.calls[j].reverted <=> t.calls[j].reverted
          /\ u.calls[j].suicide <=> (IF j = i THEN dead ELSE t.calls[j].suicide)
          /\ u.calls[j].changes = IF j = i THEN t.calls[j].changes \cup X ELSE t.calls[j].changes

LEMMA TxCalls ==
    ASSUME NEW t \in Transactions
    PROVE  /\ t.calls \in Seq(Calls) /\ Len(t.calls) \in Nat
           /\ DOMAIN t.calls = 1..Len(t.calls)
           /\ \A j \in 1..Len(t.calls) :
                 /\ t.calls[j] \in Calls /\ t.calls[j].changes \in SUBSET Changes
                 /\ t.calls[j].reverted \in BOOLEAN /\ t.calls[j].suicide \in BOOLEAN
           /\ t.begin \in Nat
  <1>1. t.calls \in Seq(Calls) /\ t.begin \in Nat
    BY DEF Transactions
  <1>2. \A c \in Calls : c.changes \in SUBSET Changes /\ c.reverted \in BOOLEAN /\ c.suicide \in BOOLEAN
    BY DEF Calls
  <1> QED
    BY <1>1, <1>2

LEMMA ExtendBy ==
    ASSUME NEW t \in Transactions, NEW i \in DOMAIN t.calls, NEW X \in SUBSET Changes,
           NEW dead \in BOOLEAN, NEW c \in Calls, NEW u,
           c.type = t.calls[i].type, c.address = t.calls[i].address, c.parent = t.calls[i].parent,
           c.reverted <=> t.calls[i].reverted, c.suicide <=> dead,
           c.changes = t.calls[i].changes \cup X,
           u = [t EXCEPT !.calls = [t.calls EXCEPT ![i] = c]]
    PROVE  Extends(u, t, i, X, dead)
  <1> DEFINE d == [t.calls EXCEPT ![i] = c]
  <1>1. t.calls \in Seq(Calls) /\ DOMAIN t.calls = 1..Len(t.calls)
    BY TxCalls
  <1>2. d \in Seq(Calls) /\ Len(d) = Len(t.calls)
    BY <1>1
  <1>3. \A j \in 1..Len(t.calls) : d[j] = IF j = i THEN c ELSE t.calls[j]
    BY <1>1
  <1> HIDE DEF d
  <1>4. u = [t EXCEPT !.calls = d]
    BY DEF d
  <1>5. u \in Transactions /\ u.calls = d /\ u.from = t.from /\ u.nonce = t.nonce
        /\ u.authorities = t.authorities /\ u.begin = t.begin
    BY <1>2, <1>4 DEF Transactions
  <1>6. ASSUME NEW j \in 1..Len(t.calls)
        PROVE  /\ u.calls[j].type = t.calls[j].type /\ u.calls[j].address = t.calls[j].address
               /\ u.calls[j].parent = t.calls[j].parent
               /\ u.calls[j].reverted <=> t.calls[j].reverted
               /\ u.calls[j].suicide <=> (IF j = i THEN dead ELSE t.calls[j].suicide)
               /\ u.calls[j].changes = IF j = i THEN t.calls[j].changes \cup X ELSE t.calls[j].changes
    <2>1. CASE j = i
      BY <1>3, <1>5, <2>1
    <2>2. CASE j # i
      BY <1>3, <1>5, <2>2
    <2> QED
      BY <2>1, <2>2
  <1> QED
    BY <1>2, <1>5, <1>6 DEF Extends

LEMMA RecordChanges ==
    ASSUME NEW t \in Transactions, NEW i \in DOMAIN t.calls, NEW X \in SUBSET Changes,
           ~t.calls[i].suicide, NEW u, u = [t EXCEPT !.calls[i].changes = @ \cup X]
    PROVE  Extends(u, t, i, X, FALSE)
  <1> DEFINE c == [t.calls[i] EXCEPT !.changes = @ \cup X]
  <1>1. t.calls[i] \in Calls
    BY TxCalls
  <1>2. c \in Calls /\ c.type = t.calls[i].type /\ c.address = t.calls[i].address
        /\ c.parent = t.calls[i].parent /\ c.changes = t.calls[i].changes \cup X
    BY <1>1 DEF Calls
  <1>3. (c.reverted <=> t.calls[i].reverted) /\ (c.suicide <=> FALSE)
    BY <1>1 DEF Calls
  <1>4. u = [t EXCEPT !.calls = [t.calls EXCEPT ![i] = c]]
    BY DEF Transactions
  <1> HIDE DEF c
  <1> QED
    BY <1>2, <1>3, <1>4, ExtendBy

LEMMA RecordExit ==
    ASSUME NEW t \in Transactions, NEW i \in DOMAIN t.calls, NEW X \in SUBSET Changes,
           ~t.calls[i].suicide, NEW e \in Nat, NEW u,
           u = [t EXCEPT !.calls[i].end = e, !.calls[i].changes = @ \cup X]
    PROVE  Extends(u, t, i, X, FALSE)
  <1> DEFINE c == [t.calls[i] EXCEPT !.end = e, !.changes = @ \cup X]
  <1>1. t.calls[i] \in Calls
    BY TxCalls
  <1>2. c \in Calls /\ c.type = t.calls[i].type /\ c.address = t.calls[i].address
        /\ c.parent = t.calls[i].parent /\ c.changes = t.calls[i].changes \cup X
    BY <1>1 DEF Calls
  <1>3. (c.reverted <=> t.calls[i].reverted) /\ (c.suicide <=> FALSE)
    BY <1>1 DEF Calls
  <1>4. i \in 1..Len(t.calls) /\ t.calls \in Seq(Calls)
    BY TxCalls
  <1>5. u = [t EXCEPT !.calls = [t.calls EXCEPT ![i] = c]]
    BY Zenon
  <1> HIDE DEF c
  <1> QED
    BY <1>2, <1>3, <1>5, ExtendBy

LEMMA RecordSuicide ==
    ASSUME NEW t \in Transactions, NEW i \in DOMAIN t.calls, NEW X \in SUBSET Changes,
           NEW e \in Nat, NEW u,
           u = [t EXCEPT !.calls[i].suicide = TRUE, !.calls[i].end = e,
                         !.calls[i].changes = @ \cup X]
    PROVE  Extends(u, t, i, X, TRUE)
  <1> DEFINE c == [t.calls[i] EXCEPT !.suicide = TRUE, !.end = e, !.changes = @ \cup X]
  <1>1. t.calls[i] \in Calls
    BY TxCalls
  <1>2. c \in Calls /\ c.type = t.calls[i].type /\ c.address = t.calls[i].address
        /\ c.parent = t.calls[i].parent /\ c.changes = t.calls[i].changes \cup X
    BY <1>1 DEF Calls
  <1>3. (c.reverted <=> t.calls[i].reverted) /\ (c.suicide <=> TRUE)
    BY <1>1 DEF Calls
  <1>4. i \in 1..Len(t.calls) /\ t.calls \in Seq(Calls)
    BY TxCalls
  <1>5. u = [t EXCEPT !.calls = [t.calls EXCEPT ![i] = c]]
    BY Zenon
  <1> HIDE DEF c
  <1> QED
    BY <1>2, <1>3, <1>5, ExtendBy

----------------------------------------------------------------------------
(* What a recorded change leaves true                                       *)

LEMMA EffectiveUnion ==
    ASSUME NEW A, NEW B
    PROVE  Effective(A \cup B) = Effective(A) \cup Effective(B)
  BY DEF Effective

LEMMA BelowIs ==
    ASSUME NEW calls, NEW n, NEW c
    PROVE  c \in Below(calls, n) <=>
               \E j \in DOMAIN calls : j < n /\ ~calls[j].reverted /\ c \in Effective(calls[j].changes)
  BY DEF Below, Committed

\* The changes in force are typed and have happened.
LEMMA LiveType ==
    ASSUME NEW t \in Transactions, NEW n \in Nat, CallsInv(t, n)
    PROVE  Live(t) \in SUBSET Changes /\ \A c \in Live(t) : c.ordinal <= n
  <1>1. /\ DOMAIN t.calls = 1..Len(t.calls) /\ 1 \in 1..Len(t.calls)
        /\ \A j \in DOMAIN t.calls : t.calls[j].changes \in SUBSET Changes
    BY TxCalls DEF CallsInv
  <1>2. \A j \in DOMAIN t.calls : \A c \in t.calls[j].changes : c.ordinal <= n
    BY DEF CallsInv
  <1>3. \A c \in BeforeRoot(t) : c \in Changes /\ c.ordinal <= n
    BY <1>1, <1>2 DEF BeforeRoot, Effective
  <1>4. \A c \in Below(t.calls, Len(t.calls) + 1) : c \in Changes /\ c.ordinal <= n
    BY <1>1, <1>2, BelowIs DEF Effective
  <1> QED
    BY <1>3, <1>4 DEF Live

LEMMA ExtendsIs ==
    ASSUME NEW t \in Transactions, NEW u, NEW i, NEW X, NEW dead, Extends(u, t, i, X, dead)
    PROVE  /\ DOMAIN t.calls = 1..Len(t.calls) /\ DOMAIN u.calls = 1..Len(t.calls)
           /\ Len(t.calls) \in Nat /\ Len(u.calls) = Len(t.calls)
           /\ u.begin = t.begin /\ t.begin \in Nat
           /\ \A j \in DOMAIN t.calls : t.calls[j].changes \in SUBSET Changes
  <1>1. /\ DOMAIN t.calls = 1..Len(t.calls) /\ Len(t.calls) \in Nat /\ t.begin \in Nat
        /\ \A j \in DOMAIN t.calls : t.calls[j].changes \in SUBSET Changes
    BY TxCalls
  <1>2. u \in Transactions /\ Len(u.calls) = Len(t.calls) /\ u.begin = t.begin
    BY DEF Extends
  <1>3. DOMAIN u.calls = 1..Len(u.calls)
    BY <1>2, TxCalls
  <1> QED
    BY <1>1, <1>2, <1>3

LEMMA ExtendsFirst ==
    ASSUME NEW t \in Transactions, NEW u, NEW i, NEW X, NEW dead, Extends(u, t, i, X, dead),
           1 \in DOMAIN t.calls
    PROVE  /\ u.calls[1].type = t.calls[1].type
           /\ u.calls[1].reverted <=> t.calls[1].reverted
           /\ u.calls[1].changes = IF i = 1 THEN t.calls[1].changes \cup X
                                   ELSE t.calls[1].changes
  <1>1. 1 \in 1..Len(t.calls)
    BY TxCalls
  <1> QED
    BY <1>1 DEF Extends

LEMMA ExtendBelow ==
    ASSUME NEW t \in Transactions, NEW u, NEW i \in DOMAIN t.calls, NEW X, NEW dead,
           Extends(u, t, i, X, dead), ~t.calls[i].reverted, NEW n \in Nat
    PROVE  Below(u.calls, n) = IF i < n THEN Below(t.calls, n) \cup Effective(X)
                               ELSE Below(t.calls, n)
  <1>1. DOMAIN t.calls = 1..Len(t.calls) /\ DOMAIN u.calls = DOMAIN t.calls
    BY ExtendsIs
  <1>2. ASSUME NEW j \in DOMAIN t.calls, NEW c
        PROVE  ~u.calls[j].reverted /\ c \in Effective(u.calls[j].changes) <=>
                   \/ ~t.calls[j].reverted /\ c \in Effective(t.calls[j].changes)
                   \/ j = i /\ c \in Effective(X)
    <2>1. u.calls[j].reverted <=> t.calls[j].reverted
      BY <1>1 DEF Extends
    <2>2. u.calls[j].changes = IF j = i THEN t.calls[j].changes \cup X ELSE t.calls[j].changes
      BY <1>1 DEF Extends
    <2>3. CASE j = i
      BY <2>1, <2>2, <2>3, EffectiveUnion
    <2>4. CASE j # i
      BY <2>1, <2>2, <2>4
    <2> QED
      BY <2>3, <2>4
  <1>3. ASSUME NEW c
        PROVE  c \in Below(u.calls, n) <=> c \in Below(t.calls, n) \/ (i < n /\ c \in Effective(X))
    <2>1. c \in Below(u.calls, n) <=>
            \E j \in DOMAIN t.calls : j < n /\ (~u.calls[j].reverted /\ c \in Effective(u.calls[j].changes))
      BY <1>1, BelowIs
    <2>2. c \in Below(t.calls, n) <=>
            \E j \in DOMAIN t.calls : j < n /\ (~t.calls[j].reverted /\ c \in Effective(t.calls[j].changes))
      BY BelowIs
    <2> QED
      BY <1>2, <2>1, <2>2
  <1> QED
    BY <1>3

\* Changes made after the root call began are not before it.
LEMMA ExtendBeforeRoot ==
    ASSUME NEW t \in Transactions, NEW u, NEW i \in DOMAIN t.calls, NEW X \in SUBSET Changes,
           NEW dead, Extends(u, t, i, X, dead), 1 \in DOMAIN t.calls,
           t.begin > 0, \A c \in X : t.begin < c.ordinal
    PROVE  BeforeRoot(u) = BeforeRoot(t)
  <1>1. u.calls[1].changes = IF i = 1 THEN t.calls[1].changes \cup X ELSE t.calls[1].changes
    BY ExtendsFirst
  <1>2. u.begin = t.begin /\ t.begin \in Nat
    BY ExtendsIs
  <1>3. \A c \in X : c.ordinal \in Nat
    BY DEF Changes
  <1> QED
    BY <1>1, <1>2, <1>3 DEF BeforeRoot, Effective

LEMMA ExtendLive ==
    ASSUME NEW t \in Transactions, NEW u, NEW i \in DOMAIN t.calls, NEW X \in SUBSET Changes,
           NEW dead, Extends(u, t, i, X, dead), ~t.calls[i].reverted, ~t.calls[1].reverted,
           1 \in DOMAIN t.calls
    PROVE  Live(u) = Live(t) \cup Effective(X)
  <1>1. ~u.calls[1].reverted /\ Len(u.calls) = Len(t.calls) /\ Len(t.calls) + 1 \in Nat
        /\ i < Len(t.calls) + 1
    <2>1. i \in 1..Len(t.calls) /\ Len(t.calls) \in Nat /\ Len(u.calls) = Len(t.calls)
      BY ExtendsIs
    <2>2. ~u.calls[1].reverted
      BY ExtendsFirst
    <2> QED
      BY <2>1, <2>2
  <1>2. Below(u.calls, Len(t.calls) + 1) = Below(t.calls, Len(t.calls) + 1) \cup Effective(X)
    <2> DEFINE n == Len(t.calls) + 1
    <2>1. n \in Nat /\ i < n
      BY <1>1
    <2> HIDE DEF n
    <2>2. Below(u.calls, n) = Below(t.calls, n) \cup Effective(X)
      BY <2>1, ExtendBelow, ZenonT(30)
    <2> QED
      BY <2>2 DEF n
  <1> QED
    BY <1>1, <1>2 DEF Live

\* fs2 is the beginning of fs.
Initial(fs2, fs) ==
    /\ fs2 \in Seq(Frames) /\ Len(fs2) <= Len(fs)
    /\ \A p \in 1..Len(fs2) : fs2[p] = fs[p]

LEMMA EmptySeq ==
    ASSUME NEW T, NEW s \in Seq(T), s # <<>>
    PROVE  Len(s) > 0
  OBVIOUS

LEMMA PopFrames ==
    ASSUME NEW fs \in Seq(Frames), fs # <<>>
    PROVE  LET fs2 == SubSeq(fs, 1, Len(fs) - 1)
           IN  Initial(fs2, fs) /\ Len(fs2) = Len(fs) - 1 /\ Len(fs) > 0
  <1> DEFINE fs2 == SubSeq(fs, 1, Len(fs) - 1)
  <1>1. Len(fs) \in Nat /\ Len(fs) > 0
    BY EmptySeq
  <1>2. fs2 \in Seq(Frames)
    BY <1>1
  <1>3. Len(fs2) = Len(fs) - 1
    <2>1. \A m \in 0..Len(fs) : Len(SubSeq(fs, 1, m)) = m
      OBVIOUS
    <2>2. Len(fs) - 1 \in 0..Len(fs)
      BY <1>1
    <2> QED
      BY <2>1, <2>2
  <1>5. \A p \in 1..(Len(fs) - 1) : fs2[p] = fs[p]
    BY <1>1
  <1> HIDE DEF fs2
  <1>4. Initial(fs2, fs) /\ Len(fs2) = Len(fs) - 1 /\ Len(fs) > 0
    BY <1>1, <1>2, <1>3, <1>5 DEF Initial
  <1> QED
    BY <1>4 DEF fs2

\* The innermost frame, its call and its account.
LEMMA TopFrame ==
    ASSUME NEW t \in Transactions, NEW fs \in Seq(Frames), FramesInv(t, fs), fs # <<>>
    PROVE  LET f == fs[Len(fs)]
           IN  /\ f \in Frames /\ f.call \in DOMAIN t.calls /\ f.call \in Nat
               /\ ~t.calls[f.call].reverted /\ ~t.calls[f.call].suicide
               /\ ~t.calls[1].reverted /\ 1 \in DOMAIN t.calls
               /\ \A p \in 1..Len(fs) : fs[p].call <= f.call /\ fs[p].call \in Nat
               /\ \A p \in 1..(Len(fs) - 1) : fs[p].call < f.call
  <1>1. Len(fs) \in Nat /\ Len(fs) > 0 /\ DOMAIN fs = 1..Len(fs)
    BY EmptySeq
  <1>8. \A p \in 1..Len(fs) : fs[p] \in Frames
    BY <1>1
  <1>2. \A p \in 1..Len(fs) : fs[p] \in Frames /\ fs[p].call \in Nat
    BY <1>8 DEF Frames
  <1>3. 1 \in DOMAIN fs /\ Len(fs) \in DOMAIN fs
    BY <1>1
  <1>4. fs[1].call = 1
    BY DEF FramesInv
  <1>5. ~t.calls[1].reverted /\ 1 \in DOMAIN t.calls
    BY <1>3, <1>4 DEF FramesInv
  <1>6. \A p \in 1..(Len(fs) - 1) : fs[p].call < fs[Len(fs)].call
    BY <1>1, <1>3 DEF FramesInv
  <1>7. \A p \in 1..Len(fs) : fs[p].call <= fs[Len(fs)].call
    BY <1>1, <1>2, <1>6
  <1> QED
    BY <1>2, <1>3, <1>5, <1>6, <1>7 DEF FramesInv

LEMMA ExtendWorld ==
    ASSUME NEW t \in Transactions, NEW u, NEW fs \in Seq(Frames), NEW fs2, fs # <<>>,
           NEW X \in SUBSET Changes, NEW dead, Extends(u, t, fs[Len(fs)].call, X, dead),
           FramesInv(t, fs), Initial(fs2, fs), t.begin > 0, \A c \in X : t.begin < c.ordinal,
           NEW w, NEW v, NEW base, NEW S, NEW D, WorldInv(w, base, S, D, t, fs),
           Reflects(v, base, (S \cup Live(t)) \cup Effective(X), D)
    PROVE  WorldInv(v, base, S, D, u, fs2)
  <1> DEFINE i == fs[Len(fs)].call
  <1>1. /\ i \in DOMAIN t.calls /\ i \in Nat /\ ~t.calls[i].reverted /\ ~t.calls[1].reverted
        /\ \A p \in 1..Len(fs) : fs[p].call <= i /\ fs[p].call \in Nat
    BY TopFrame
  <1>2. 1 \in DOMAIN t.calls
    BY TopFrame
  <1> HIDE DEF i
  <1>3. Live(u) = Live(t) \cup Effective(X)
    BY <1>1, <1>2, ExtendLive DEF i
  <1>4. BeforeRoot(u) = BeforeRoot(t)
    BY <1>1, <1>2, ExtendBeforeRoot DEF i
  <1>5. ASSUME NEW p \in DOMAIN fs2
        PROVE  Reflects(fs2[p].world, base, S \cup LiveBelow(u, fs2[p].call), D)
    <2>1. p \in 1..Len(fs) /\ p \in DOMAIN fs /\ fs2[p] = fs[p]
      BY DEF Initial
    <2>2. fs[p].call <= i /\ fs[p].call \in Nat
      BY <1>1, <2>1
    <2>3. Below(u.calls, fs[p].call) = Below(t.calls, fs[p].call)
      <3> DEFINE m == fs[p].call
      <3>1. Extends(u, t, i, X, dead)
        BY DEF i
      <3>2. m \in Nat /\ ~(i < m)
        BY <1>1, <2>2
      <3> HIDE DEF m
      <3>3. Below(u.calls, m) = IF i < m THEN Below(t.calls, m) \cup Effective(X)
                               ELSE Below(t.calls, m)
        <4>1. i \in DOMAIN t.calls /\ ~t.calls[i].reverted
          BY <1>1
        <4>2. m \in Nat
          BY <3>2
        <4> HIDE DEF WorldInv
        <4> QED
          BY ONLY <3>1, <4>1, <4>2, ExtendBelow, t \in Transactions, ZenonT(30)
      <3> QED
        BY <3>2, <3>3 DEF m
    <2>4. LiveBelow(u, fs[p].call) = LiveBelow(t, fs[p].call)
      BY <1>4, <2>3 DEF LiveBelow
    <2> QED
      BY <2>1, <2>4 DEF WorldInv
  <1>6. (S \cup Live(t)) \cup Effective(X) = S \cup Live(u)
    BY <1>3
  <1> QED
    BY <1>5, <1>6 DEF WorldInv

LEMMA ExtendCalls ==
    ASSUME NEW t \in Transactions, NEW u, NEW i \in DOMAIN t.calls, NEW X \in SUBSET Changes,
           NEW dead, Extends(u, t, i, X, dead), NEW n \in Nat, NEW m \in Nat, n <= m,
           CallsInv(t, n), \A c \in X : n < c.ordinal /\ c.ordinal <= m
    PROVE  CallsInv(u, m)
  <1>1. DOMAIN t.calls = 1..Len(t.calls) /\ DOMAIN u.calls = 1..Len(t.calls)
        /\ Len(t.calls) \in Nat /\ t.begin \in Nat
        /\ \A j \in DOMAIN t.calls : t.calls[j].changes \in SUBSET Changes
    BY ExtendsIs
  <1>2. Len(u.calls) > 0 /\ u.calls[1].type # "delegate" /\ u.begin <= m
    <2>1. Len(t.calls) > 0 /\ 1 \in DOMAIN t.calls /\ t.begin <= n
      BY <1>1 DEF CallsInv
    <2>2. u.calls[1].type = t.calls[1].type
      BY <2>1, ExtendsFirst
    <2>3. Len(u.calls) = Len(t.calls) /\ u.begin = t.begin
      BY ExtendsIs
    <2> QED
      BY <1>1, <2>1, <2>2, <2>3 DEF CallsInv
  <1>3. ASSUME NEW j \in DOMAIN u.calls
        PROVE  /\ j > 1 \/ u.begin > 0 => u.calls[j].address \in Accounts
               /\ u.calls[j].type = "delegate" => u.calls[j].parent \in 1..(j - 1)
    BY <1>1 DEF CallsInv, Extends
  <1>4. ASSUME NEW j \in DOMAIN u.calls, NEW c \in u.calls[j].changes
        PROVE  0 < c.ordinal /\ c.ordinal <= m
    <2>1. c \in t.calls[j].changes \/ c \in X
      BY <1>1 DEF Extends
    <2>2. c.ordinal \in Nat
      BY <1>1, <2>1 DEF Changes
    <2> QED
      BY <1>1, <2>1, <2>2 DEF CallsInv
  <1> QED
    BY <1>2, <1>3, <1>4 DEF CallsInv

\* Changes of the execution after ordinal n.
Executed(X, n) == \A c \in X : n < c.ordinal /\ c.reason # "gas"

LEMMA ExtendRoot ==
    ASSUME NEW t \in Transactions, NEW u, NEW i \in DOMAIN t.calls, NEW X \in SUBSET Changes,
           NEW dead, Extends(u, t, i, X, dead), NEW n \in Nat,
           CallsInv(t, n), RootInv(t), t.begin > 0, Executed(X, n)
    PROVE  RootInv(u)
  <1> USE DEF Executed
  <1>1. /\ DOMAIN t.calls = 1..Len(t.calls) /\ Len(t.calls) \in Nat /\ t.begin \in Nat
        /\ 1 \in DOMAIN t.calls /\ t.begin <= n
        /\ t.calls[1].changes \in SUBSET Changes
    BY TxCalls DEF CallsInv
  <1>2. u.calls[1].changes = IF i = 1 THEN t.calls[1].changes \cup X ELSE t.calls[1].changes
    BY <1>1 DEF Extends
  <1>3. \A c \in t.calls[1].changes : c.ordinal \in Nat /\ c.ordinal <= n
    BY <1>1 DEF CallsInv, Changes
  <1>4. \A c \in X : c.ordinal \in Nat /\ t.begin < c.ordinal
    BY <1>1 DEF Changes
  <1>5. u.from = t.from /\ u.nonce = t.nonce /\ u.authorities = t.authorities /\ u.begin = t.begin
    BY DEF Extends
  <1>6. \A c : OwnNonce(u, c) <=> OwnNonce(t, c)
    BY <1>5 DEF OwnNonce
  <1>7. ASSUME NEW c \in u.calls[1].changes
        PROVE  IF u.begin = 0 \/ c.ordinal < u.begin
               THEN \/ c.kind = "balance" /\ c.reason = "gas"
                    \/ OwnNonce(u, c) /\ \A d \in u.calls[1].changes : c.ordinal <= d.ordinal
                    \/ c.kind \in {"nonce", "code"} /\ c.address \in u.authorities
               ELSE u.begin < c.ordinal /\ c.reason # "gas"
    <2>1. CASE c \in t.calls[1].changes
      <3>1. \A d \in X : c.ordinal <= d.ordinal
        BY <1>3, <1>4, <2>1
      <3> QED
        BY <1>2, <1>5, <1>6, <2>1, <3>1 DEF RootInv
    <2>2. CASE c \in X
      BY <1>1, <1>4, <1>5, <2>2
    <2> QED
      BY <1>2, <2>1, <2>2
  <1>8. ASSUME u.from # None
        PROVE  \E c \in u.calls[1].changes :
                   /\ OwnNonce(u, c) /\ (u.begin = 0 \/ c.ordinal < u.begin)
                   /\ \A d \in u.calls[1].changes : d = c \/ c.ordinal < d.ordinal
    <2>1. PICK c \in t.calls[1].changes :
                   /\ OwnNonce(t, c) /\ (t.begin = 0 \/ c.ordinal < t.begin)
                   /\ \A d \in t.calls[1].changes : d = c \/ c.ordinal < d.ordinal
      BY <1>5, <1>8 DEF RootInv
    <2>2. \A d \in X : c.ordinal < d.ordinal
      BY <1>3, <1>4, <2>1
    <2> QED
      BY <1>2, <1>5, <1>6, <2>1, <2>2
  <1> QED
    BY <1>7, <1>8 DEF RootInv

LEMMA ExtendFrames ==
    ASSUME NEW t \in Transactions, NEW u, NEW fs \in Seq(Frames), NEW fs2, fs # <<>>,
           NEW X, NEW dead \in BOOLEAN, Extends(u, t, fs[Len(fs)].call, X, dead),
           FramesInv(t, fs), Initial(fs2, fs), dead => Len(fs2) < Len(fs)
    PROVE  FramesInv(u, fs2)
  <1> DEFINE i == fs[Len(fs)].call
  <1>1. /\ \A p \in 1..(Len(fs) - 1) : fs[p].call < i
        /\ \A p \in 1..Len(fs) : fs[p].call \in Nat
        /\ i \in Nat /\ ~t.calls[i].suicide
    BY TopFrame
  <1>2. DOMAIN fs2 = 1..Len(fs2) /\ Len(fs2) \in Nat /\ Len(fs) \in Nat /\ DOMAIN fs = 1..Len(fs)
        /\ \A p \in DOMAIN fs2 : fs2[p] = fs[p] /\ p \in DOMAIN fs
    BY DEF Initial
  <1>3. DOMAIN u.calls = 1..Len(t.calls) /\ DOMAIN t.calls = 1..Len(t.calls)
    BY TxCalls DEF Extends
  <1>4. ASSUME NEW p \in DOMAIN fs2
        PROVE  /\ fs2[p].call \in DOMAIN u.calls
               /\ ~u.calls[fs2[p].call].reverted /\ ~u.calls[fs2[p].call].suicide
    <2>1. /\ fs[p].call \in 1..Len(t.calls) /\ ~t.calls[fs[p].call].reverted
          /\ ~t.calls[fs[p].call].suicide
      BY <1>2, <1>3 DEF FramesInv
    <2>2. ~u.calls[fs[p].call].reverted
      BY <2>1 DEF Extends
    <2>3. dead => fs[p].call # i
      BY <1>1, <1>2
    <2>4. u.calls[fs[p].call].suicide <=> (IF fs[p].call = i THEN dead ELSE t.calls[fs[p].call].suicide)
      BY <2>1 DEF Extends
    <2>5. ~u.calls[fs[p].call].suicide
      BY <2>1, <2>3, <2>4
    <2> QED
      BY <1>2, <1>3, <2>1, <2>2, <2>5
  <1>5. \A p \in DOMAIN fs2 : \A q \in DOMAIN fs2 : p < q => fs2[p].call < fs2[q].call
    BY <1>2 DEF FramesInv
  <1>6. fs2 # <<>> => fs2[1].call = 1
    BY <1>2 DEF FramesInv
  <1> QED
    BY <1>4, <1>5, <1>6 DEF FramesInv

\* The fate of the accounts once a call has recorded more, or ended itself.
LEMMA ExtendExec ==
    ASSUME NEW t \in Transactions, NEW u, NEW i, NEW X, NEW dead, Extends(u, t, i, X, dead),
           NEW n, CallsInv(t, n), \E g : IsExec(g, t.calls)
    PROVE  /\ \E g : IsExec(g, u.calls)
           /\ \A j \in DOMAIN t.calls :
                 ExecutionAddress(u.calls, j) = ExecutionAddress(t.calls, j)
  <1>1. DOMAIN t.calls = 1..Len(t.calls) /\ DOMAIN u.calls = 1..Len(t.calls)
        /\ Len(t.calls) \in Nat
    BY ExtendsIs
  <1>2. \A j \in 1..Len(t.calls) :
          /\ u.calls[j].type = t.calls[j].type /\ u.calls[j].parent = t.calls[j].parent
          /\ u.calls[j].address = t.calls[j].address
    BY DEF Extends
  <1>3. PICK g : IsExec(g, t.calls)
    OBVIOUS
  <1>4. IsExec(g, u.calls)
    BY <1>1, <1>2, <1>3, ZenonT(30) DEF IsExec
  <1>5. Parented(t.calls)
    BY DEF CallsInv, Parented
  <1>6. \A j \in 1..Len(t.calls) : ExecutionAddress(u.calls, j) = ExecutionAddress(t.calls, j)
    <2> DEFINE calls == t.calls
               others == u.calls
               m == Len(t.calls)
    <2>1. m \in Nat /\ 1..m \subseteq DOMAIN calls /\ 1..m \subseteq DOMAIN others
      BY <1>1
    <2>2. (\E e : IsExec(e, calls)) /\ (\E e : IsExec(e, others)) /\ Parented(calls)
      BY <1>3, <1>4, <1>5
    <2>3. \A j \in 1..m : /\ others[j].type = calls[j].type /\ others[j].parent = calls[j].parent
                          /\ others[j].address = calls[j].address
      BY <1>2
    <2> HIDE DEF calls, others, m
    <2>4. \A j \in 1..m : ExecutionAddress(others, j) = ExecutionAddress(calls, j)
      BY ONLY <2>1, <2>2, <2>3, ExecAgree
    <2> QED
      BY <2>4 DEF calls, others, m
  <1> QED
    BY <1>1, <1>4, <1>6

\* DoomedBelow, and the accounts of the calls that ended themselves, as sets of calls.
LEMMA DoomedIs ==
    ASSUME NEW calls, NEW n, NEW cancun, NEW made, NEW a
    PROVE  a \in DoomedBelow(calls, n, cancun, made) <=>
             \E j \in DOMAIN calls :
                /\ ~calls[j].reverted /\ calls[j].suicide
                /\ j < n /\ (~cancun \/ ExecutionAddress(calls, j) \in made)
                /\ a = ExecutionAddress(calls, j)
  BY DEF DoomedBelow, Suicides, Committed

LEMMA CreatedIs ==
    ASSUME NEW calls, NEW n, NEW a
    PROVE  a \in CreatedBelow(calls, n) <=>
             \E j \in DOMAIN calls : /\ ~calls[j].reverted /\ calls[j].type = "create"
                                     /\ j < n /\ a = calls[j].address
  BY DEF CreatedBelow, Committed

SameExec(t, u) ==
    \A j \in DOMAIN t.calls : /\ ExecutionAddress(t.calls, j) \in Accounts
                              /\ ExecutionAddress(u.calls, j) = ExecutionAddress(t.calls, j)

\* Call i of t records more, and ends itself if `dead`: seen from call m on, the
\* state w becomes v and the accounts to delete become gone2.
FateStep(t, u, i, X, dead, m, w, v, made, gone, gone2, cancun) ==
    /\ t \in Transactions /\ i \in DOMAIN t.calls /\ dead \in BOOLEAN
    /\ Extends(u, t, i, X, dead) /\ ~t.calls[i].reverted /\ ~t.calls[i].suicide
    /\ SameExec(t, u) /\ m \in Nat /\ Keeps(w, v) /\ cancun \in BOOLEAN
    /\ FateAt(t.calls, m, w, made, gone, cancun)
    /\ dead /\ i < m => ~FreeIn(v, ExecutionAddress(t.calls, i))
    /\ gone2 = IF dead /\ i < m /\ (~cancun \/ ExecutionAddress(t.calls, i) \in made)
               THEN gone \cup {ExecutionAddress(t.calls, i)} ELSE gone

LEMMA ExtendFateAt ==
    ASSUME NEW t, NEW u, NEW i, NEW X, NEW dead, NEW m, NEW w, NEW v, NEW made, NEW gone,
           NEW gone2, NEW cancun, FateStep(t, u, i, X, dead, m, w, v, made, gone, gone2, cancun)
    PROVE  FateAt(u.calls, m, v, made, gone2, cancun)
  <1>0. /\ t \in Transactions /\ i \in DOMAIN t.calls /\ dead \in BOOLEAN
        /\ Extends(u, t, i, X, dead) /\ ~t.calls[i].reverted /\ ~t.calls[i].suicide
        /\ SameExec(t, u) /\ m \in Nat /\ Keeps(w, v) /\ cancun \in BOOLEAN
        /\ FateAt(t.calls, m, w, made, gone, cancun)
        /\ dead /\ i < m => ~FreeIn(v, ExecutionAddress(t.calls, i))
        /\ gone2 = IF dead /\ i < m /\ (~cancun \/ ExecutionAddress(t.calls, i) \in made)
                   THEN gone \cup {ExecutionAddress(t.calls, i)} ELSE gone
    BY DEF FateStep
  <1> DEFINE E(j) == ExecutionAddress(t.calls, j)
  <1> USE <1>0 DEF SameExec
  <1>1. DOMAIN u.calls = DOMAIN t.calls /\ DOMAIN t.calls = 1..Len(t.calls)
    BY ExtendsIs
  <1>2. ASSUME NEW j \in DOMAIN t.calls
        PROVE  /\ u.calls[j].type = t.calls[j].type /\ u.calls[j].address = t.calls[j].address
               /\ u.calls[j].reverted <=> t.calls[j].reverted
               /\ u.calls[j].suicide <=> t.calls[j].suicide \/ (j = i /\ dead)
    <2>1. j \in 1..Len(t.calls)
      BY <1>1
    <2>2. u.calls[j].suicide <=> (IF j = i THEN dead ELSE t.calls[j].suicide)
      BY <2>1 DEF Extends
    <2>3. u.calls[j].suicide <=> t.calls[j].suicide \/ (j = i /\ dead)
      BY <2>2
    <2> QED
      BY <2>1, <2>3 DEF Extends
  <1>3. made = CreatedBelow(u.calls, m)
    <2>1. \A a : a \in CreatedBelow(u.calls, m) <=> a \in CreatedBelow(t.calls, m)
      BY <1>1, <1>2, CreatedIs
    <2> QED
      BY <2>1 DEF FateAt
  <1>4. gone2 = DoomedBelow(u.calls, m, cancun, made)
    <2>1. gone = DoomedBelow(t.calls, m, cancun, made)
      BY DEF FateAt
    <2>2. ASSUME NEW a
          PROVE  a \in DoomedBelow(u.calls, m, cancun, made) <=>
                     \/ a \in DoomedBelow(t.calls, m, cancun, made)
                     \/ dead /\ i < m /\ (~cancun \/ E(i) \in made) /\ a = E(i)
      <3> DEFINE P(j) == j < m /\ (~cancun \/ E(j) \in made) /\ a = E(j)
      <3>1. a \in DoomedBelow(t.calls, m, cancun, made) <=>
               \E j \in DOMAIN t.calls : ~t.calls[j].reverted /\ t.calls[j].suicide /\ P(j)
        BY DoomedIs
      <3>2. a \in DoomedBelow(u.calls, m, cancun, made) <=>
               \E j \in DOMAIN u.calls :
                  /\ ~u.calls[j].reverted /\ u.calls[j].suicide
                  /\ j < m /\ (~cancun \/ ExecutionAddress(u.calls, j) \in made)
                  /\ a = ExecutionAddress(u.calls, j)
        BY DoomedIs
      <3>3. a \in DoomedBelow(u.calls, m, cancun, made) <=>
               \E j \in DOMAIN t.calls : ~u.calls[j].reverted /\ u.calls[j].suicide /\ P(j)
        BY <1>1, <3>2
      <3> HIDE DEF P
      <3>4. a \in DoomedBelow(u.calls, m, cancun, made) <=>
               a \in DoomedBelow(t.calls, m, cancun, made) \/ (dead /\ P(i))
        BY <1>2, <3>1, <3>3
      <3> QED
        BY <3>4 DEF P
    <2> QED
      BY <2>1, <2>2
  <1>5. ASSUME NEW j \in Suicides(u.calls), j < m
        PROVE  ~FreeIn(v, ExecutionAddress(u.calls, j))
    <2>1. j \in DOMAIN t.calls /\ ~u.calls[j].reverted /\ u.calls[j].suicide
      BY <1>1 DEF Suicides, Committed
    <2>2. CASE j = i /\ dead
      BY <1>5, <2>1, <2>2
    <2>3. CASE t.calls[j].suicide
      <3>1. j \in Suicides(t.calls)
        BY <1>2, <2>1, <2>3 DEF Suicides, Committed
      <3>2. ~FreeIn(w, E(j)) /\ E(j) \in Accounts
        BY <1>5, <2>1, <3>1 DEF FateAt
      <3> QED
        BY <2>1, <3>2 DEF Keeps
    <2> QED
      BY <1>2, <2>1, <2>2, <2>3
  <1> HIDE DEF E
  <1>6. FateAt(u.calls, m, v, made, gone2, cancun)
    BY <1>3, <1>4, <1>5 DEF FateAt
  <1> QED
    BY <1>6

\* The same of the innermost of the open frames fs, which leaves fs2 open.
FateChange(t, u, fs, fs2, X, dead, n, w, v, made, gone, gone2, cancun) ==
    /\ t \in Transactions /\ fs \in Seq(Frames) /\ fs # <<>> /\ dead \in BOOLEAN
    /\ Extends(u, t, fs[Len(fs)].call, X, dead)
    /\ FramesInv(t, fs) /\ Initial(fs2, fs) /\ (dead => Len(fs2) < Len(fs))
    /\ CallsInv(t, n) /\ t.begin > 0 /\ Keeps(w, v) /\ cancun \in BOOLEAN
    /\ FateInv(t, fs, w, made, gone, cancun) /\ (dead => ~FreeIn(v, fs[Len(fs)].self))
    /\ gone2 = IF dead /\ (~cancun \/ fs[Len(fs)].self \in made)
               THEN gone \cup {fs[Len(fs)].self} ELSE gone

LEMMA ExtendFate ==
    ASSUME NEW t, NEW u, NEW fs, NEW fs2, NEW X, NEW dead, NEW n, NEW w, NEW v,
           NEW made, NEW gone, NEW gone2, NEW cancun,
           FateChange(t, u, fs, fs2, X, dead, n, w, v, made, gone, gone2, cancun)
    PROVE  FateInv(u, fs2, v, made, gone2, cancun)
  <1>0. /\ t \in Transactions /\ fs \in Seq(Frames) /\ fs # <<>> /\ dead \in BOOLEAN
        /\ Extends(u, t, fs[Len(fs)].call, X, dead)
        /\ FramesInv(t, fs) /\ Initial(fs2, fs) /\ (dead => Len(fs2) < Len(fs))
        /\ CallsInv(t, n) /\ t.begin > 0 /\ Keeps(w, v) /\ cancun \in BOOLEAN
        /\ FateInv(t, fs, w, made, gone, cancun) /\ (dead => ~FreeIn(v, fs[Len(fs)].self))
        /\ gone2 = IF dead /\ (~cancun \/ fs[Len(fs)].self \in made)
                   THEN gone \cup {fs[Len(fs)].self} ELSE gone
    BY DEF FateChange
  <1> USE <1>0
  <1> DEFINE i == fs[Len(fs)].call
             self == fs[Len(fs)].self
             L == Len(t.calls) + 1
  <1>1. /\ i \in DOMAIN t.calls /\ i \in Nat /\ ~t.calls[i].reverted /\ ~t.calls[i].suicide
        /\ \A p \in 1..(Len(fs) - 1) : fs[p].call < i
        /\ \A p \in 1..Len(fs) : fs[p].call <= i /\ fs[p].call \in Nat
    BY TopFrame
  <1>2. /\ Len(t.calls) \in Nat /\ Len(u.calls) = Len(t.calls) /\ DOMAIN t.calls = 1..Len(t.calls)
    BY ExtendsIs
  <1>3. L \in Nat /\ i < L /\ L = Len(u.calls) + 1
    BY <1>1, <1>2
  <1>4. Len(fs) \in DOMAIN fs /\ DOMAIN fs = 1..Len(fs) /\ Len(fs) \in Nat
    BY EmptySeq
  <1>5. /\ \E g : IsExec(g, t.calls)
        /\ FateAt(t.calls, L, w, made, gone, cancun)
        /\ self = ExecutionAddress(t.calls, i)
        /\ \A p \in DOMAIN fs :
              /\ fs[p].self = ExecutionAddress(t.calls, fs[p].call)
              /\ FateAt(t.calls, fs[p].call, fs[p].world, fs[p].created, fs[p].doomed, cancun)
    BY <1>4 DEF FateInv
  <1>6. Extends(u, t, i, X, dead)
    OBVIOUS
  <1>7. /\ \E g : IsExec(g, u.calls)
        /\ \A j \in DOMAIN t.calls :
              ExecutionAddress(u.calls, j) = ExecutionAddress(t.calls, j)
    BY <1>5, ExtendExec
  <1>8. SameExec(t, u)
    BY <1>5, <1>7, ExecAccount DEF SameExec
  <1>9. dead => ~FreeIn(v, self)
    OBVIOUS
  <1>13. gone2 = IF dead /\ (~cancun \/ self \in made) THEN gone \cup {self} ELSE gone
    OBVIOUS
  <1> HIDE DEF i, self, L
  <1>10. FateAt(u.calls, L, v, made, gone2, cancun)
    <2>1. dead /\ i < L => ~FreeIn(v, ExecutionAddress(t.calls, i))
      BY <1>5, <1>9
    <2>2. gone2 = IF dead /\ i < L /\ (~cancun \/ ExecutionAddress(t.calls, i) \in made)
                  THEN gone \cup {ExecutionAddress(t.calls, i)} ELSE gone
      BY <1>3, <1>5, <1>13
    <2> QED
      <3>1. FateStep(t, u, i, X, dead, L, w, v, made, gone, gone2, cancun)
        BY <1>1, <1>3, <1>5, <1>6, <1>8, <2>1, <2>2 DEF FateStep
      <3> QED
        BY ONLY <3>1, ExtendFateAt
  <1>11. ASSUME NEW p \in DOMAIN fs2
         PROVE  /\ fs2[p].self = ExecutionAddress(u.calls, fs2[p].call)
                /\ FateAt(u.calls, fs2[p].call, fs2[p].world, fs2[p].created, fs2[p].doomed, cancun)
    <2>1. p \in 1..Len(fs) /\ p \in DOMAIN fs /\ fs2[p] = fs[p] /\ (dead => p \in 1..(Len(fs) - 1))
      BY <1>4 DEF Initial
    <2> DEFINE m == fs[p].call
               f == fs[p]
    <2>2. m \in DOMAIN t.calls /\ m \in Nat /\ ~(i < m)
      BY <1>1, <2>1 DEF FramesInv
    <2>3. FateAt(t.calls, m, f.world, f.created, f.doomed, cancun)
      BY <1>5, <2>1
    <2>4. Keeps(f.world, f.world)
      BY DEF Keeps
    <2> HIDE DEF m, f
    <2>5. f.doomed = IF dead /\ i < m /\ (~cancun \/ ExecutionAddress(t.calls, i) \in f.created)
                     THEN f.doomed \cup {ExecutionAddress(t.calls, i)} ELSE f.doomed
      BY <2>2
    <2>6. FateAt(u.calls, m, f.world, f.created, f.doomed, cancun)
      <3>1. FateStep(t, u, i, X, dead, m, f.world, f.world, f.created, f.doomed, f.doomed, cancun)
        BY <1>1, <1>6, <1>8, <2>2, <2>3, <2>4, <2>5 DEF FateStep
      <3> QED
        BY ONLY <3>1, ExtendFateAt
    <2> QED
      BY <1>5, <1>7, <2>1, <2>2, <2>6 DEF m, f
  <1>12. FateInv(u, fs2, v, made, gone2, cancun)
    BY <1>3, <1>7, <1>10, <1>11 DEF FateInv
  <1> QED
    BY <1>12

----------------------------------------------------------------------------
(* Steps of an execution                                                    *)

\* The record c tells how the state w became v.
Records(c, w, v) ==
    /\ c \in Changes /\ c.old = At(w, c.kind, c.address, c.slot)
    /\ Updated(w, v, c.kind, c.address, c.slot, c.new)

Reasons == {None, "gas", "transfer", "suicide", "block"}

\* c records at ordinal o that a field of account a becomes x, as the state w becomes v.
FieldWrite(c, w, v, kind, a, x, o, reason) ==
    /\ c = Change(kind, a, None, w[a][kind], x, o, reason)
    /\ Updated(w, v, kind, a, None, x)

LEMMA FieldRecord ==
    ASSUME NEW w \in Worlds, NEW v, NEW kind \in {"balance", "nonce", "code"}, NEW a \in Accounts,
           NEW x \in Nat \cup Codes, NEW o \in Nat, NEW reason \in Reasons, NEW c,
           FieldWrite(c, w, v, kind, a, x, o, reason)
    PROVE  /\ Records(c, w, v) /\ c.kind = kind /\ c.address = a /\ c.slot = None
           /\ c.old = w[a][kind] /\ c.new = x /\ c.ordinal = o /\ c.reason = reason
  <1>0. c = Change(kind, a, None, w[a][kind], x, o, reason) /\ Updated(w, v, kind, a, None, x)
    BY DEF FieldWrite
  <1>1. /\ c.kind = kind /\ c.address = a /\ c.slot = None
        /\ c.old = w[a][kind] /\ c.new = x /\ c.ordinal = o /\ c.reason = reason
    BY <1>0 DEF Change
  <1>2. w[a] \in AccountStates
    BY DEF Worlds
  <1>3. w[a][kind] \in Nat \cup Codes
    BY <1>2 DEF AccountStates
  <1>4. c \in Changes
    BY <1>0, <1>1, <1>3 DEF Change, Changes, Kinds, Reasons
  <1>5. At(w, kind, a, None) = w[a][kind]
    BY DEF At
  <1>6. Records(c, w, v)
    BY ONLY <1>0, <1>1, <1>4, <1>5 DEF Records
  <1> QED
    BY <1>1, <1>6

\* c records that account a's balance becomes x, just after ordinal n.
BalanceChange(c, w, v, a, x, n, reason) ==
    /\ c = Change("balance", a, None, w[a]["balance"], x, n + 1, reason)
    /\ v = [w EXCEPT ![a].balance = x]
Marked(c, o, reason) == c.kind = "balance" /\ c.ordinal = o /\ c.reason = reason

LEMMA BalanceRecord ==
    ASSUME NEW w \in Worlds, NEW a \in Accounts, NEW x \in Nat, NEW n \in Nat,
           NEW reason \in Reasons, NEW c, NEW v, BalanceChange(c, w, v, a, x, n, reason)
    PROVE  Records(c, w, v) /\ Marked(c, n + 1, reason)
  <1> DEFINE o == n + 1
  <1>1. o \in Nat
    OBVIOUS
  <1>2. Updated(w, v, "balance", a, None, x)
    BY SetBalance DEF BalanceChange
  <1>3. c = Change("balance", a, None, w[a]["balance"], x, o, reason)
    BY DEF BalanceChange
  <1> HIDE DEF o
  <1>4. /\ Records(c, w, v) /\ c.kind = "balance" /\ c.ordinal = o /\ c.reason = reason
    <2>1. "balance" \in {"balance", "nonce", "code"} /\ x \in Nat \cup Codes
      OBVIOUS
    <2>2. FieldWrite(c, w, v, "balance", a, x, o, reason)
      BY ONLY <1>2, <1>3 DEF FieldWrite
    <2> QED
      BY ONLY <1>1, <2>1, <2>2, FieldRecord, w \in Worlds, a \in Accounts, reason \in Reasons
  <1> QED
    BY <1>4 DEF Marked, o

LEMMA CodeRecord ==
    ASSUME NEW w \in Worlds, NEW v, NEW a \in Accounts, NEW x \in Codes, NEW o \in Nat,
           Updated(w, v, "code", a, None, x)
    PROVE  LET c == Change("code", a, None, w[a]["code"], x, o, None)
           IN  /\ Records(c, w, v) /\ c.kind = "code" /\ c.address = a
               /\ c.new = x /\ c.ordinal = o /\ c.reason = None
  <1>1. "code" \in {"balance", "nonce", "code"} /\ x \in Nat \cup Codes /\ None \in Reasons
    BY DEF Reasons
  <1> SUFFICES ASSUME NEW c, c = Change("code", a, None, w[a]["code"], x, o, None)
               PROVE  /\ Records(c, w, v) /\ c.kind = "code" /\ c.address = a
                      /\ c.new = x /\ c.ordinal = o /\ c.reason = None
    OBVIOUS
  <1>2. FieldWrite(c, w, v, "code", a, x, o, None)
    BY DEF FieldWrite
  <1> QED
    BY ONLY <1>1, <1>2, FieldRecord, w \in Worlds, a \in Accounts, o \in Nat

LEMMA StorageRecord ==
    ASSUME NEW w \in Worlds, NEW v, NEW a \in Accounts, NEW s \in Slots, NEW x \in Nat, NEW o \in Nat,
           Updated(w, v, "storage", a, s, x)
    PROVE  LET c == Change("storage", a, s, w[a].storage[s], x, o, None)
           IN  /\ Records(c, w, v) /\ c.kind = "storage" /\ c.address = a /\ c.slot = s
               /\ c.new = x /\ c.ordinal = o /\ c.reason = None
  <1> DEFINE c == Change("storage", a, s, w[a].storage[s], x, o, None)
  <1>1. /\ c.kind = "storage" /\ c.address = a /\ c.slot = s /\ c.old = w[a].storage[s]
        /\ c.new = x /\ c.ordinal = o /\ c.reason = None
    BY DEF Change
  <1>2. w[a] \in AccountStates
    BY DEF Worlds
  <1>3. w[a].storage[s] \in Nat
    BY <1>2 DEF AccountStates
  <1>4. c \in Changes
    BY <1>1, <1>3 DEF Change, Changes, Kinds
  <1>5. At(w, "storage", a, s) = w[a].storage[s]
    BY DEF At
  <1> HIDE DEF c
  <1>6. Records(c, w, v)
    BY <1>1, <1>4, <1>5 DEF Records
  <1> QED
    BY <1>1, <1>6 DEF c

\* An open call is one of a transaction whose root call has begun.
LEMMA RunningTx ==
    ASSUME TraceInv, Running
    PROVE  /\ tx # None /\ tx \in Transactions /\ tx.begin \in Nat /\ tx.begin > 0
           /\ frames \in Seq(Frames) /\ frames # <<>> /\ ~halted
           /\ CallsInv(tx, ordinal) /\ FramesInv(tx, frames) /\ RootInv(tx)
           /\ FateInv(tx, frames, world, created, doomed, block.cancun)
           /\ block.cancun \in BOOLEAN /\ ordinal \in Nat /\ tx.begin <= ordinal
           /\ Current \in DOMAIN tx.calls /\ Current \in Nat
           /\ ~tx.calls[Current].reverted /\ ~tx.calls[Current].suicide
           /\ Self \in Accounts /\ Len(frames) > 0
  <1>1. tx # None /\ frames # <<>> /\ ~halted /\ tx.begin # 0
    BY DEF TraceInv, IdleInv, Running
  <1>2. tx \in Transactions /\ frames \in Seq(Frames) /\ block \in Blocks /\ ordinal \in Nat
    BY <1>1 DEF TraceInv, TypeInv
  <1>3. /\ CallsInv(tx, ordinal) /\ FramesInv(tx, frames) /\ RootInv(tx)
        /\ FateInv(tx, frames, world, created, doomed, block.cancun)
    BY <1>1 DEF TraceInv, TxInv
  <1>4. tx.begin \in Nat
    BY <1>2, TxCalls
  <1>5. block.cancun \in BOOLEAN
    BY <1>2 DEF Blocks
  <1>6. /\ frames[Len(frames)] \in Frames /\ Current \in DOMAIN tx.calls /\ Current \in Nat
        /\ ~tx.calls[Current].reverted /\ ~tx.calls[Current].suicide
    <2>1. tx \in Transactions /\ frames \in Seq(Frames) /\ FramesInv(tx, frames) /\ frames # <<>>
      BY <1>1, <1>2, <1>3
    <2> QED
      BY ONLY <2>1, TopFrame DEF Current
  <1>7. Self \in Accounts
    BY <1>6 DEF Self, Frames
  <1> QED
    BY <1>1, <1>2, <1>3, <1>4, <1>5, <1>6, <1>7, EmptySeq DEF CallsInv

\* Between the states of a transaction what the block has recorded stands.
LEMMA SameBlock ==
    ASSUME TraceInv, UNCHANGED <<block, states>>, ordinal' \in Nat, ordinal <= ordinal'
    PROVE  BlockInv(block, ordinal)'
  <1>1. ordinal \in Nat /\ BlockInv(block, ordinal)
    BY DEF TraceInv, TypeInv
  <1>2. \A c \in Settled(block) : c.ordinal \in Nat /\ c.ordinal <= ordinal
    BY <1>1 DEF BlockInv, Changes
  <1>3. \A d \in AllDeletions(block) : d.ordinal \in Nat /\ d.ordinal <= ordinal
    BY <1>1 DEF BlockInv, DeletionRecords
  <1>4. (\A c \in Settled(block) : c.ordinal <= ordinal') /\ \A d \in AllDeletions(block) : d.ordinal <= ordinal'
    BY <1>1, <1>2, <1>3
  <1>5. BlockInv(block, ordinal')
    BY <1>1, <1>4 DEF BlockInv
  <1> QED
    BY <1>5

\* A change recorded after all others is reflected.
LEMMA RecordReflected ==
    ASSUME NEW w, NEW v, NEW base, NEW C \in SUBSET Changes, NEW D, NEW n \in Nat, NEW c,
           Records(c, w, v), \A e \in C : e.ordinal <= n,
           \A d \in D : d.ordinal \in Nat /\ d.ordinal <= n, n < c.ordinal,
           Reflects(w, base, C, D)
    PROVE  Reflects(v, base, C \cup Effective({c}), D)
  <1>1. c \in Changes /\ c.ordinal \in Nat
    BY DEF Records, Changes
  <1>2. \A e \in C : e.ordinal \in Nat
    BY DEF Changes
  <1>3. \A e \in C : e.ordinal < c.ordinal
    BY <1>1, <1>2
  <1>4. \A d \in D : d.ordinal \in Nat /\ d.ordinal < c.ordinal
    BY <1>1
  <1> QED
    BY <1>1, <1>3, <1>4, AddChange DEF Records

\* X is at most one record, and tells how w became v after ordinal n.
Recorded(X, w, v, n, m) ==
    \/ X = {} /\ v = w
    \/ \E c : X = {c} /\ Records(c, w, v) /\ n < c.ordinal /\ c.ordinal <= m /\ c.reason # "gas"

LEMMA RecordedReflected ==
    ASSUME NEW w, NEW v, NEW base, NEW C \in SUBSET Changes, NEW D, NEW n \in Nat, NEW m, NEW X,
           Recorded(X, w, v, n, m), \A e \in C : e.ordinal <= n,
           \A d \in D : d.ordinal \in Nat /\ d.ordinal <= n,
           Reflects(w, base, C, D)
    PROVE  Reflects(v, base, C \cup Effective(X), D)
  <1>1. CASE X = {} /\ v = w
    <2>1. C \cup Effective(X) = C
      BY <1>1 DEF Effective
    <2> QED
      BY <1>1, <2>1
  <1>2. CASE \E c : X = {c} /\ Records(c, w, v) /\ n < c.ordinal /\ c.ordinal <= m /\ c.reason # "gas"
    BY <1>2, RecordReflected
  <1> QED
    BY <1>1, <1>2 DEF Recorded

LEMMA RecordStep ==
    ASSUME TraceInv, Running, NEW X, NEW dead \in BOOLEAN,
           Extends(tx', tx, Current, X, dead),
           frames' = frames \/ frames' = SubSeq(frames, 1, Len(frames) - 1),
           dead => frames' = SubSeq(frames, 1, Len(frames) - 1),
           ordinal' \in Nat, ordinal < ordinal', Recorded(X, world, world', ordinal, ordinal'),
           world' \in Worlds, Keeps(world, world'), dead => ~FreeIn(world', Self),
           doomed' = IF dead /\ (~block.cancun \/ Self \in created) THEN doomed \cup {Self}
                     ELSE doomed,
           UNCHANGED <<block, created, halted, output, work>>
    PROVE  TraceInv'
  <1> DEFINE f == frames[Len(frames)]
  <1>1. /\ tx # None /\ tx \in Transactions /\ tx.begin \in Nat /\ tx.begin > 0
        /\ frames \in Seq(Frames) /\ frames # <<>> /\ ~halted
        /\ CallsInv(tx, ordinal) /\ FramesInv(tx, frames) /\ RootInv(tx)
        /\ FateInv(tx, frames, world, created, doomed, block.cancun)
        /\ block.cancun \in BOOLEAN /\ ordinal \in Nat /\ tx.begin <= ordinal
        /\ Current \in DOMAIN tx.calls
    BY RunningTx
  <1>2. X \in SUBSET Changes
    BY DEF Recorded, Records
  <1>3. \A c \in X : ordinal < c.ordinal /\ c.ordinal <= ordinal' /\ c.reason # "gas"
    BY DEF Recorded
  <1>4. \A c \in X : tx.begin < c.ordinal
    BY <1>1, <1>2, <1>3 DEF Changes
  <1>5. Initial(frames', frames) /\ (dead => Len(frames') < Len(frames))
    <2>1. CASE frames' = frames
      <3>1. Initial(frames', frames)
        BY <1>1, <2>1 DEF Initial
      <3>2. dead => Len(SubSeq(frames, 1, Len(frames) - 1)) < Len(frames)
        BY <1>1, PopFrames
      <3> QED
        BY <2>1, <3>1, <3>2
    <2>2. CASE frames' = SubSeq(frames, 1, Len(frames) - 1)
      BY <1>1, <2>2, PopFrames
    <2> QED
      BY <2>1, <2>2
  <1>6. tx' \in Transactions /\ tx' # None /\ tx'.begin = tx.begin
    BY TraceAssumption DEF Extends
  <1>7. CallsInv(tx', ordinal')
    <2>1. ordinal <= ordinal'
      BY <1>1
    <2> QED
      BY <1>1, <1>2, <1>3, <2>1, ExtendCalls
  <1>8. FramesInv(tx', frames')
    <2>1. /\ tx \in Transactions /\ frames \in Seq(Frames) /\ frames # <<>>
          /\ FramesInv(tx, frames) /\ Initial(frames', frames) /\ (dead => Len(frames') < Len(frames))
          /\ Extends(tx', tx, frames[Len(frames)].call, X, dead) /\ dead \in BOOLEAN
      BY <1>1, <1>5 DEF Current
    <2> QED
      BY ONLY <2>1, ExtendFrames
  <1>9. RootInv(tx')
    <2>1. Executed(X, ordinal)
      BY <1>3 DEF Executed
    <2>2. /\ tx \in Transactions /\ X \in SUBSET Changes /\ Current \in DOMAIN tx.calls
          /\ CallsInv(tx, ordinal) /\ RootInv(tx) /\ tx.begin > 0 /\ ordinal \in Nat
          /\ Extends(tx', tx, Current, X, dead)
      BY <1>1, <1>2
    <2> QED
      BY ONLY <2>1, <2>2, ExtendRoot
  <1>10. FateInv(tx', frames', world', created', doomed', block'.cancun)
    <2>1. /\ tx \in Transactions /\ frames \in Seq(Frames) /\ frames # <<>> /\ tx.begin > 0
          /\ FramesInv(tx, frames) /\ Initial(frames', frames) /\ (dead => Len(frames') < Len(frames))
          /\ Extends(tx', tx, frames[Len(frames)].call, X, dead) /\ dead \in BOOLEAN
          /\ CallsInv(tx, ordinal) /\ Keeps(world, world') /\ block.cancun \in BOOLEAN
          /\ FateInv(tx, frames, world, created, doomed, block.cancun)
          /\ (dead => ~FreeIn(world', frames[Len(frames)].self))
      BY <1>1, <1>5 DEF Current, Self
    <2>2. doomed' = IF dead /\ (~block.cancun \/ frames[Len(frames)].self \in created)
                    THEN doomed \cup {frames[Len(frames)].self} ELSE doomed
      BY DEF Self
    <2>3. FateInv(tx', frames', world', created, doomed', block.cancun)
      <3>1. FateChange(tx, tx', frames, frames', X, dead, ordinal, world, world', created,
                       doomed, doomed', block.cancun)
        BY ONLY <2>1, <2>2 DEF FateChange
      <3> QED
        BY ONLY <3>1, ExtendFate
    <2> QED
      BY <2>3
  <1>11. TxInv'
    BY <1>7, <1>8, <1>9, <1>10 DEF TxInv
  <1>12. IdleInv'
    BY <1>1, <1>6 DEF IdleInv
  <1>13. BlockInv(block, ordinal)'
    BY <1>1, SameBlock DEF output
  <1>14. TypeInv'
    <2>1. created \in SUBSET Accounts /\ doomed \in SUBSET Accounts /\ Self \in Accounts
      BY RunningTx DEF TraceInv, TypeInv
    <2>2. doomed' \in SUBSET Accounts /\ created' \in SUBSET Accounts
      BY <2>1
    <2>3. frames' \in Seq(Frames)
      BY <1>5 DEF Initial
    <2> QED
      BY <1>6, <2>2, <2>3 DEF TraceInv, TypeInv, output
  <1>15. StateInv'
    <2>1. CASE Rejected(block)
      BY <2>1 DEF StateInv
    <2>2. CASE ~Rejected(block)
      <3> DEFINE S == Settled(block)
                 D == AllDeletions(block)
      <3>1. WorldInv(world, Base, S, D, tx, frames)
        BY <1>1, <2>2 DEF TraceInv, StateInv
      <3>2. S \in SUBSET Changes /\ (\A c \in S : c.ordinal <= ordinal)
            /\ \A d \in D : d.ordinal \in Nat /\ d.ordinal <= ordinal
        BY DEF TraceInv, BlockInv, DeletionRecords
      <3>3. Live(tx) \in SUBSET Changes /\ \A c \in Live(tx) : c.ordinal <= ordinal
        BY <1>1, LiveType
      <3>4. Reflects(world, Base, S \cup Live(tx), D)
        BY <3>1 DEF WorldInv
      <3>5. Reflects(world', Base, (S \cup Live(tx)) \cup Effective(X), D)
        <4> DEFINE C == S \cup Live(tx)
        <4>1. C \in SUBSET Changes /\ \A c \in C : c.ordinal <= ordinal
          BY <3>2, <3>3
        <4> HIDE DEF C, S, D
        <4> QED
          BY <1>1, <3>2, <3>4, <4>1, RecordedReflected DEF C
      <3> HIDE DEF S, D
      <3>6. WorldInv(world', Base, S, D, tx', frames')
        <4>1. /\ tx \in Transactions /\ frames \in Seq(Frames) /\ frames # <<>> /\ tx.begin > 0
              /\ FramesInv(tx, frames) /\ Initial(frames', frames) /\ X \in SUBSET Changes
              /\ Extends(tx', tx, frames[Len(frames)].call, X, dead)
          BY <1>1, <1>2, <1>5 DEF Current
        <4> QED
          BY ONLY <1>4, <3>1, <3>5, <4>1, ExtendWorld
      <3>7. WorldInv(world, Base, Settled(block), AllDeletions(block), tx, frames)'
        BY <3>6 DEF S, D, Base, output
      <3> QED
        BY <1>6, <3>7 DEF StateInv
    <2> QED
      BY <2>1, <2>2
  <1> QED
    BY <1>11, <1>12, <1>13, <1>14, <1>15 DEF TraceInv

LEMMA TickNat ==
    ASSUME NEW n \in Nat, n > 0, ordinal \in Nat, Tick(n)
    PROVE  ordinal' = ordinal + n /\ ordinal' \in Nat /\ ordinal < ordinal'
  BY DEF Tick

LEMMA WriteStep ==
    ASSUME TraceInv, NEW s \in Slots, NEW x \in Nat, Write(s, x)
    PROVE  TraceInv'
  <1> DEFINE c == Change("storage", Self, s, world[Self].storage[s], x, ordinal + 1, None)
  <1>1. Running /\ Self \in Accounts /\ Current \in DOMAIN tx.calls /\ ~tx.calls[Current].suicide
        /\ tx \in Transactions /\ ordinal \in Nat /\ world \in Worlds
    BY RunningTx DEF Write, Executing, TraceInv, TypeInv
  <1>2. ordinal' = ordinal + 1 /\ ordinal' \in Nat /\ ordinal < ordinal'
    BY <1>1, TickNat DEF Write
  <1>3. world' = [world EXCEPT ![Self].storage[s] = x]
    BY DEF Write
  <1>4. world' \in Worlds /\ Updated(world, world', "storage", Self, s, x) /\ Keeps(world, world')
    BY <1>1, <1>3, SetStorage
  <1>5. Records(c, world, world') /\ c.ordinal = ordinal + 1 /\ c.reason = None
    <2> DEFINE o == ordinal + 1
    <2>1. o \in Nat
      BY <1>1
    <2> HIDE DEF o
    <2>3. Self \in Accounts /\ world \in Worlds
      BY <1>1
    <2>2. LET d == Change("storage", Self, s, world[Self].storage[s], x, o, None)
          IN  Records(d, world, world') /\ d.ordinal = o /\ d.reason = None
      BY ONLY <2>3, s \in Slots, x \in Nat, <1>4, <2>1, StorageRecord
    <2> QED
      BY <2>2 DEF o
  <1>6. tx' = [tx EXCEPT !.calls[Current].changes = @ \cup {c}]
    BY DEF Write
  <1> HIDE DEF c
  <1>7. c \in Changes
    BY <1>5 DEF Records
  <1>8. Extends(tx', tx, Current, {c}, FALSE)
    <2>1. {c} \in SUBSET Changes
      BY <1>7
    <2> QED
      BY <1>1, <1>6, <2>1, RecordChanges
  <1>9. Recorded({c}, world, world', ordinal, ordinal')
    BY <1>1, <1>2, <1>5, TraceAssumption DEF Recorded
  <1>10. frames' = frames /\ doomed' = doomed /\ UNCHANGED <<block, created, halted, output, work>>
    BY DEF Write
  <1> QED
    BY <1>1, <1>2, <1>4, <1>8, <1>9, <1>10, RecordStep

LEMMA TransferStep ==
    ASSUME TraceInv, NEW a \in Accounts, NEW x \in Nat, Transfer(a, x)
    PROVE  TraceInv'
  <1> DEFINE c == Change("balance", a, None, world[a]["balance"], x, ordinal + 1, "transfer")
  <1>1. Running /\ Current \in DOMAIN tx.calls /\ ~tx.calls[Current].suicide
        /\ tx \in Transactions /\ ordinal \in Nat /\ world \in Worlds
    BY RunningTx DEF Transfer, TraceInv, TypeInv
  <1>2. ordinal' = ordinal + 1 /\ ordinal' \in Nat /\ ordinal < ordinal'
    BY <1>1, TickNat DEF Transfer
  <1>3. world' = [world EXCEPT ![a].balance = x]
    BY DEF Transfer
  <1>4. world' \in Worlds /\ Updated(world, world', "balance", a, None, x) /\ Keeps(world, world')
    BY <1>1, <1>3, SetBalance
  <1>5. Records(c, world, world') /\ c.ordinal = ordinal + 1 /\ c.reason = "transfer"
    <2>1. BalanceChange(c, world, world', a, x, ordinal, "transfer")
      BY <1>3 DEF BalanceChange
    <2>2. "transfer" \in Reasons /\ x \in Nat /\ a \in Accounts /\ world \in Worlds /\ ordinal \in Nat
      BY <1>1 DEF Reasons
    <2> HIDE DEF c
    <2> QED
      BY ONLY <2>1, <2>2, BalanceRecord DEF Marked
  <1>6. tx' = [tx EXCEPT !.calls[Current].changes = @ \cup {c}]
    BY DEF Transfer, Field
  <1> HIDE DEF c
  <1>8. Extends(tx', tx, Current, {c}, FALSE)
    <2>1. {c} \in SUBSET Changes
      BY <1>5 DEF Records
    <2> QED
      BY <1>1, <1>6, <2>1, RecordChanges
  <1>9. Recorded({c}, world, world', ordinal, ordinal')
    BY <1>1, <1>2, <1>5 DEF Recorded
  <1>10. frames' = frames /\ doomed' = doomed /\ UNCHANGED <<block, created, halted, output, work>>
    BY DEF Transfer
  <1> QED
    BY <1>1, <1>2, <1>4, <1>8, <1>9, <1>10, RecordStep

LEMMA ExitStep ==
    ASSUME TraceInv, Exit
    PROVE  TraceInv'
  <1> DEFINE a == tx.calls[Current].address
             c == Change("code", a, None, world[a]["code"], "code", ordinal + 1, None)
             X == IF tx.calls[Current].type = "create" THEN {c} ELSE {}
  <1>1. Running /\ Current \in DOMAIN tx.calls /\ ~tx.calls[Current].suicide /\ tx.begin > 0
        /\ tx \in Transactions /\ ordinal \in Nat /\ world \in Worlds /\ CallsInv(tx, ordinal)
    BY RunningTx DEF Exit, TraceInv, TypeInv
  <1>2. a \in Accounts
    BY <1>1 DEF CallsInv
  <1>3. Tick(Cardinality(X) + 1)
    BY DEF Exit, Field
  <1>4. Cardinality(X) = IF tx.calls[Current].type = "create" THEN 1 ELSE 0
    BY FS_EmptySet, FS_Singleton
  <1>5. ordinal' \in Nat /\ ordinal < ordinal' /\ ordinal + 1 <= ordinal'
    BY <1>1, <1>3, <1>4 DEF Tick
  <1>6. tx' = [tx EXCEPT !.calls[Current].end = ordinal', !.calls[Current].changes = @ \cup X]
    BY DEF Exit, Field
  <1>7. world' = IF tx.calls[Current].type = "create" THEN [world EXCEPT ![a].code = "code"] ELSE world
    BY DEF Exit
  <1>8. frames' = SubSeq(frames, 1, Len(frames) - 1) /\ doomed' = doomed
        /\ UNCHANGED <<block, created, halted, output, work>>
    BY DEF Exit, Pop
  <1> HIDE DEF a
  <1>9. /\ world' \in Worlds /\ Keeps(world, world') /\ X \in SUBSET Changes
        /\ Recorded(X, world, world', ordinal, ordinal')
    <2>1. CASE tx.calls[Current].type = "create"
      <3>0. "code" \in Codes /\ "code" # None /\ "gas" # None
        BY TraceAssumption DEF Codes
      <3>1. world' \in Worlds /\ Updated(world, world', "code", a, None, "code") /\ Keeps(world, world')
        BY <1>1, <1>2, <1>7, <2>1, <3>0, SetCode
      <3>2. Records(c, world, world') /\ c.ordinal = ordinal + 1 /\ c.reason = None
        <4> DEFINE o == ordinal + 1
        <4>1. o \in Nat /\ None \in Reasons /\ "code" \in Nat \cup Codes
          BY <1>1, <3>0 DEF Reasons
        <4> HIDE DEF o
        <4>3. world \in Worlds
          BY <1>1
        <4>4. "code" \in Codes
          BY <3>0
        <4>2. LET d == Change("code", a, None, world[a]["code"], "code", o, None)
              IN  Records(d, world, world') /\ d.ordinal = o /\ d.reason = None
          BY ONLY <4>3, <4>4, <1>2, <3>1, <4>1, CodeRecord
        <4> QED
          BY <4>2 DEF o
      <3> HIDE DEF c
      <3>3. X = {c}
        BY <2>1
      <3>4. c \in Changes
        BY <3>2 DEF Records
      <3>5. ordinal < c.ordinal /\ c.ordinal <= ordinal' /\ c.reason # "gas"
        BY <1>1, <1>5, <3>0, <3>2
      <3> QED
        BY <3>1, <3>2, <3>3, <3>4, <3>5 DEF Recorded
    <2>2. CASE tx.calls[Current].type # "create"
      BY <1>1, <1>7, <2>2 DEF Recorded, Keeps
    <2> QED
      BY <2>1, <2>2
  <1> HIDE DEF X
  <1>10. Extends(tx', tx, Current, X, FALSE)
    BY <1>1, <1>5, <1>6, <1>9, RecordExit
  <1> QED
    BY <1>1, <1>5, <1>8, <1>9, <1>10, RecordStep

LEMMA SelfDestructStep ==
    ASSUME TraceInv, SelfDestruct
    PROVE  TraceInv'
  <1> DEFINE c == Change("balance", Self, None, world[Self]["balance"], 0, ordinal + 1, "suicide")
  <1>1. Running /\ ~Free(Self) /\ Self \in Accounts /\ Current \in DOMAIN tx.calls
        /\ tx \in Transactions /\ ordinal \in Nat /\ world \in Worlds
    BY RunningTx DEF SelfDestruct, Executing, TraceInv, TypeInv
  <1>2. ordinal' = ordinal + 2 /\ ordinal' \in Nat /\ ordinal < ordinal'
    BY <1>1, TickNat DEF SelfDestruct
  <1>3. world' = [world EXCEPT ![Self].balance = 0]
    BY DEF SelfDestruct
  <1>4. world' \in Worlds /\ Updated(world, world', "balance", Self, None, 0) /\ Keeps(world, world')
    BY <1>1, <1>3, SetBalance
  <1>5. Records(c, world, world') /\ c.ordinal = ordinal + 1 /\ c.reason = "suicide"
    <2>1. BalanceChange(c, world, world', Self, 0, ordinal, "suicide")
      BY <1>3 DEF BalanceChange
    <2>2. "suicide" \in Reasons /\ 0 \in Nat /\ Self \in Accounts /\ world \in Worlds /\ ordinal \in Nat
      BY <1>1 DEF Reasons
    <2> HIDE DEF c
    <2> QED
      BY ONLY <2>1, <2>2, BalanceRecord DEF Marked
  <1>6. tx' = [tx EXCEPT !.calls[Current].suicide = TRUE, !.calls[Current].end = ordinal + 2,
                         !.calls[Current].changes = @ \cup {c}]
    BY DEF SelfDestruct, Field
  <1> HIDE DEF c
  <1>7. Extends(tx', tx, Current, {c}, TRUE)
    <2>1. {c} \in SUBSET Changes /\ ordinal + 2 \in Nat
      BY <1>1, <1>5 DEF Records
    <2> QED
      BY <1>1, <1>6, <2>1, RecordSuicide
  <1>8. Recorded({c}, world, world', ordinal, ordinal')
    BY <1>1, <1>2, <1>5 DEF Recorded
  <1>9. ~FreeIn(world', Self)
    BY <1>1, <1>4 DEF Keeps, FreeIn, Free
  <1>10. doomed' = IF TRUE /\ (~block.cancun \/ Self \in created) THEN doomed \cup {Self} ELSE doomed
    BY DEF SelfDestruct
  <1>11. frames' = SubSeq(frames, 1, Len(frames) - 1)
         /\ UNCHANGED <<block, created, halted, output, work>>
    BY DEF SelfDestruct, Pop
  <1> QED
    BY <1>1, <1>2, <1>4, <1>7, <1>8, <1>9, <1>10, <1>11, RecordStep

\* A step inside a transaction.
LEMMA TxStep ==
    ASSUME TraceInv, tx' # None, tx' \in Transactions, frames' \in Seq(Frames),
           created' \in SUBSET Accounts, doomed' \in SUBSET Accounts, world' \in Worlds,
           ordinal' \in Nat, ordinal <= ordinal', ~halted, IdleInv',
           CallsInv(tx', ordinal'), FramesInv(tx', frames'), RootInv(tx'),
           FateInv(tx', frames', world', created', doomed', block.cancun),
           \/ Rejected(block)
           \/ WorldInv(world', Base, Settled(block), AllDeletions(block), tx', frames'),
           UNCHANGED <<block, halted, output, work>>
    PROVE  TraceInv'
  <1>1. TypeInv'
    BY DEF TraceInv, TypeInv, output
  <1>2. BlockInv(block, ordinal)'
    BY SameBlock DEF output
  <1>3. TxInv'
    BY DEF TxInv
  <1>4. StateInv'
    <2>1. Base' = Base /\ block' = block
      BY DEF Base, output
    <2>2. CASE Rejected(block)
      BY <2>1, <2>2 DEF StateInv
    <2>3. CASE WorldInv(world', Base, Settled(block), AllDeletions(block), tx', frames')
      BY <2>1, <2>3 DEF StateInv
    <2> QED
      BY <2>2, <2>3
  <1> QED
    BY <1>1, <1>2, <1>3, <1>4 DEF TraceInv

\* The calls in force before call k of `others` are those before call m of
\* `calls`, as they were.
SeenAs(calls, m, others, k) ==
    /\ {j \in Committed(calls) : j < m} = {j \in Committed(others) : j < k}
    /\ \A j \in Committed(calls) :
          j < m => /\ others[j].type = calls[j].type /\ others[j].address = calls[j].address
                   /\ others[j].suicide <=> calls[j].suicide
                   /\ others[j].changes = calls[j].changes
                   /\ ExecutionAddress(others, j) = ExecutionAddress(calls, j)

LEMMA SeenBelow ==
    ASSUME NEW calls, NEW m, NEW others, NEW k, SeenAs(calls, m, others, k)
    PROVE  Below(others, k) = Below(calls, m)
  <1> DEFINE J == {j \in Committed(calls) : j < m}
  <1>1. J = {j \in Committed(others) : j < k}
    BY DEF SeenAs
  <1>2. \A j \in J : others[j].changes = calls[j].changes
    BY DEF SeenAs
  <1>3. Below(others, k) = UNION {Effective(others[j].changes) : j \in J}
    BY <1>1 DEF Below
  <1>4. Below(calls, m) = UNION {Effective(calls[j].changes) : j \in J}
    BY DEF Below
  <1> HIDE DEF J
  <1> QED
    BY <1>2, <1>3, <1>4

LEMMA SeenFate ==
    ASSUME NEW calls, NEW m, NEW others, NEW k, SeenAs(calls, m, others, k),
           NEW w, NEW made, NEW gone, NEW cancun, FateAt(calls, m, w, made, gone, cancun)
    PROVE  FateAt(others, k, w, made, gone, cancun)
  <1> DEFINE J == {j \in Committed(calls) : j < m}
             E(j) == ExecutionAddress(calls, j)
             F(j) == ExecutionAddress(others, j)
  <1>1. J = {j \in Committed(others) : j < k}
    BY DEF SeenAs
  <1>2. \A j \in J : /\ others[j].type = calls[j].type /\ others[j].address = calls[j].address
                     /\ others[j].suicide <=> calls[j].suicide
                     /\ F(j) = E(j)
    BY DEF SeenAs
  <1>3. CreatedBelow(others, k) = CreatedBelow(calls, m)
    <2>1. CreatedBelow(others, k) = {others[j].address : j \in {i \in J : others[i].type = "create"}}
      BY <1>1 DEF CreatedBelow
    <2>2. CreatedBelow(calls, m) = {calls[j].address : j \in {i \in J : calls[i].type = "create"}}
      BY DEF CreatedBelow
    <2> HIDE DEF J, E, F
    <2> QED
      BY <1>2, <2>1, <2>2
  <1>4. DoomedBelow(others, k, cancun, made) = DoomedBelow(calls, m, cancun, made)
    <2>1. DoomedBelow(others, k, cancun, made) =
            {F(j) : j \in {i \in J : others[i].suicide /\ (~cancun \/ F(i) \in made)}}
      BY <1>1 DEF DoomedBelow, Suicides
    <2>2. DoomedBelow(calls, m, cancun, made) =
            {E(j) : j \in {i \in J : calls[i].suicide /\ (~cancun \/ E(i) \in made)}}
      BY DEF DoomedBelow, Suicides
    <2> HIDE DEF J, E, F
    <2> QED
      BY <1>2, <2>1, <2>2
  <1>5. ASSUME NEW j \in Suicides(others), j < k
        PROVE  ~FreeIn(w, F(j))
    <2>1. j \in J /\ others[j].suicide
      BY <1>1, <1>5 DEF Suicides
    <2>2. j \in Suicides(calls) /\ j < m
      BY <1>2, <2>1 DEF Suicides
    <2>3. ~FreeIn(w, E(j))
      BY <2>2 DEF FateAt
    <2> QED
      BY <1>2, <2>1, <2>3
  <1> QED
    BY <1>3, <1>4, <1>5 DEF FateAt

----------------------------------------------------------------------------
(* A new call                                                               *)

Appends(u, t, c) ==
    /\ u \in Transactions /\ c \in Calls
    /\ u.from = t.from /\ u.nonce = t.nonce /\ u.authorities = t.authorities
    /\ u.begin = t.begin /\ u.calls = Append(t.calls, c)

LEMMA AppendIs ==
    ASSUME NEW t \in Transactions, NEW u, NEW c, Appends(u, t, c)
    PROVE  /\ DOMAIN t.calls = 1..Len(t.calls) /\ DOMAIN u.calls = 1..(Len(t.calls) + 1)
           /\ Len(t.calls) \in Nat /\ Len(u.calls) = Len(t.calls) + 1
           /\ u.begin = t.begin /\ t.begin \in Nat
           /\ \A j \in 1..Len(t.calls) : u.calls[j] = t.calls[j]
           /\ u.calls[Len(t.calls) + 1] = c
  BY TxCalls DEF Appends

LEMMA AppendExec ==
    ASSUME NEW t \in Transactions, NEW u, NEW c, Appends(u, t, c), NEW n, CallsInv(t, n),
           \E g : IsExec(g, t.calls), c.type = "delegate" => c.parent \in 1..Len(t.calls)
    PROVE  /\ \E g : IsExec(g, u.calls)
           /\ \A j \in 1..Len(t.calls) : ExecutionAddress(u.calls, j) = ExecutionAddress(t.calls, j)
           /\ ExecutionAddress(u.calls, Len(t.calls) + 1) =
                  IF c.type = "delegate" THEN ExecutionAddress(t.calls, c.parent) ELSE c.address
  <1>1. /\ DOMAIN t.calls = 1..Len(t.calls) /\ DOMAIN u.calls = 1..(Len(t.calls) + 1)
        /\ Len(t.calls) \in Nat /\ u.calls[Len(t.calls) + 1] = c
        /\ \A j \in 1..Len(t.calls) : u.calls[j] = t.calls[j]
    BY AppendIs
  <1>2. t.calls \in Seq(Calls) /\ c \in Calls /\ u.calls = Append(t.calls, c)
    BY TxCalls DEF Appends
  <1>3. Parented(t.calls)
    BY DEF CallsInv, Parented
  <1>4. \E g : IsExec(g, u.calls)
    BY <1>2, <1>3, ExecAppend
  <1>5. \A j \in 1..Len(t.calls) : ExecutionAddress(u.calls, j) = ExecutionAddress(t.calls, j)
    <2> DEFINE calls == t.calls
               others == u.calls
               m == Len(t.calls)
    <2>1. m \in Nat /\ 1..m \subseteq DOMAIN calls /\ 1..m \subseteq DOMAIN others
      BY <1>1
    <2>2. (\E e : IsExec(e, calls)) /\ (\E e : IsExec(e, others)) /\ Parented(calls)
      BY <1>3, <1>4
    <2>3. \A j \in 1..m : /\ others[j].type = calls[j].type /\ others[j].parent = calls[j].parent
                          /\ others[j].address = calls[j].address
      BY <1>1
    <2> HIDE DEF calls, others, m
    <2>4. \A j \in 1..m : ExecutionAddress(others, j) = ExecutionAddress(calls, j)
      BY ONLY <2>1, <2>2, <2>3, ExecAgree
    <2> QED
      BY <2>4 DEF calls, others, m
  <1>6. ExecutionAddress(u.calls, Len(t.calls) + 1) =
            IF c.type = "delegate" THEN ExecutionAddress(u.calls, c.parent) ELSE c.address
    <2> DEFINE k == Len(t.calls) + 1
    <2>1. k \in DOMAIN u.calls /\ u.calls[k] = c
      BY <1>1
    <2> HIDE DEF k
    <2>2. ExecutionAddress(u.calls, k) =
            IF u.calls[k].type = "delegate" THEN ExecutionAddress(u.calls, u.calls[k].parent)
            ELSE u.calls[k].address
      BY <1>4, <2>1, ExecDef
    <2> QED
      BY <2>1, <2>2 DEF k
  <1> QED
    BY <1>4, <1>5, <1>6

LEMMA AppendSees ==
    ASSUME NEW t \in Transactions, NEW u, NEW c, Appends(u, t, c), NEW m, m <= Len(t.calls) + 1,
           m \in Nat,
           \A j \in 1..Len(t.calls) : ExecutionAddress(u.calls, j) = ExecutionAddress(t.calls, j)
    PROVE  SeenAs(t.calls, m, u.calls, m)
  <1>1. /\ DOMAIN t.calls = 1..Len(t.calls) /\ DOMAIN u.calls = 1..(Len(t.calls) + 1)
        /\ Len(t.calls) \in Nat
        /\ \A j \in 1..Len(t.calls) : u.calls[j] = t.calls[j]
    BY AppendIs
  <1>2. \A j \in DOMAIN u.calls : j < m => j \in 1..Len(t.calls)
    BY <1>1
  <1>3. {j \in Committed(t.calls) : j < m} = {j \in Committed(u.calls) : j < m}
    BY <1>1, <1>2 DEF Committed
  <1>4. \A j \in Committed(t.calls) : j \in 1..Len(t.calls)
    BY <1>1 DEF Committed
  <1> QED
    BY <1>1, <1>3, <1>4 DEF SeenAs

LEMMA AppendCalls ==
    ASSUME NEW t \in Transactions, NEW u, NEW c, Appends(u, t, c), NEW n \in Nat, CallsInv(t, n),
           NEW m \in Nat, n <= m, c.address \in Accounts,
           c.type = "delegate" => c.parent \in 1..Len(t.calls),
           \A x \in c.changes : n < x.ordinal /\ x.ordinal <= m
    PROVE  CallsInv(u, m)
  <1>1. /\ DOMAIN t.calls = 1..Len(t.calls) /\ DOMAIN u.calls = 1..(Len(t.calls) + 1)
        /\ Len(t.calls) \in Nat /\ Len(u.calls) = Len(t.calls) + 1
        /\ u.begin = t.begin /\ t.begin \in Nat
        /\ \A j \in 1..Len(t.calls) : u.calls[j] = t.calls[j]
        /\ u.calls[Len(t.calls) + 1] = c
    BY AppendIs
  <1>2. Len(u.calls) > 0 /\ u.calls[1].type # "delegate" /\ u.begin <= m
    BY <1>1 DEF CallsInv
  <1>3. ASSUME NEW j \in DOMAIN u.calls
        PROVE  /\ j > 1 \/ u.begin > 0 => u.calls[j].address \in Accounts
               /\ u.calls[j].type = "delegate" => u.calls[j].parent \in 1..(j - 1)
               /\ \A x \in u.calls[j].changes : 0 < x.ordinal /\ x.ordinal <= m
    <2>1. CASE j = Len(t.calls) + 1
      <3>1. \A x \in c.changes : x.ordinal \in Nat
        BY DEF Appends, Calls, Changes
      <3> QED
        BY <1>1, <2>1, <3>1
    <2>2. CASE j \in 1..Len(t.calls)
      <3>1. \A x \in t.calls[j].changes : x.ordinal \in Nat
        BY <2>2, TxCalls DEF Changes
      <3>2. \A x \in t.calls[j].changes : 0 < x.ordinal /\ x.ordinal <= n
        BY <1>1, <2>2 DEF CallsInv
      <3>3. \A x \in t.calls[j].changes : 0 < x.ordinal /\ x.ordinal <= m
        BY <3>1, <3>2
      <3> QED
        BY <1>1, <2>2, <3>3 DEF CallsInv
    <2> QED
      BY <1>1, <2>1, <2>2
  <1> QED
    BY <1>2, <1>3 DEF CallsInv

LEMMA AppendRoot ==
    ASSUME NEW t \in Transactions, NEW u, NEW c, Appends(u, t, c), RootInv(t), 1 \in DOMAIN t.calls
    PROVE  RootInv(u)
  <1>1. u.calls[1] = t.calls[1]
    BY AppendIs
  <1>2. u.from = t.from /\ u.nonce = t.nonce /\ u.authorities = t.authorities /\ u.begin = t.begin
    BY DEF Appends
  <1> QED
    BY <1>1, <1>2 DEF RootInv, OwnNonce

LEMMA AppendFrames ==
    ASSUME NEW t \in Transactions, NEW u, NEW c, Appends(u, t, c), NEW fs \in Seq(Frames),
           fs # <<>>, FramesInv(t, fs), NEW f \in Frames, f.call = Len(t.calls) + 1,
           ~c.reverted, ~c.suicide
    PROVE  FramesInv(u, Append(fs, f))
  <1> DEFINE fs2 == Append(fs, f)
             k == Len(fs) + 1
  <1>1. /\ DOMAIN t.calls = 1..Len(t.calls) /\ DOMAIN u.calls = 1..(Len(t.calls) + 1)
        /\ Len(t.calls) \in Nat
        /\ \A j \in 1..Len(t.calls) : u.calls[j] = t.calls[j]
        /\ u.calls[Len(t.calls) + 1] = c
    BY AppendIs
  <1>2. Len(fs) \in Nat /\ DOMAIN fs = 1..Len(fs) /\ DOMAIN fs2 = 1..k /\ fs2[k] = f
        /\ \A p \in 1..Len(fs) : fs2[p] = fs[p]
    OBVIOUS
  <1>3. Len(fs) > 0
    BY EmptySeq
  <1> HIDE DEF fs2
  <1>4. \A p \in DOMAIN fs2 : p = k \/ p \in DOMAIN fs
    BY <1>2
  <1>5. \A p \in DOMAIN fs : /\ fs[p].call \in 1..Len(t.calls)
                             /\ ~t.calls[fs[p].call].reverted /\ ~t.calls[fs[p].call].suicide
    BY <1>1 DEF FramesInv
  <1>6. ASSUME NEW p \in DOMAIN fs2
        PROVE  /\ fs2[p].call \in DOMAIN u.calls
               /\ ~u.calls[fs2[p].call].reverted /\ ~u.calls[fs2[p].call].suicide
    <2>1. CASE p = k
      BY <1>1, <1>2, <2>1
    <2>2. CASE p \in DOMAIN fs
      <3>1. fs2[p] = fs[p]
        BY <1>2, <2>2
      <3>2. fs[p].call \in 1..Len(t.calls) /\ u.calls[fs[p].call] = t.calls[fs[p].call]
        BY <1>1, <1>5, <2>2
      <3> QED
        BY <1>1, <1>5, <2>2, <3>1, <3>2
    <2> QED
      BY <1>4, <2>1, <2>2
  <1>7. ASSUME NEW p \in DOMAIN fs2, NEW q \in DOMAIN fs2, p < q
        PROVE  fs2[p].call < fs2[q].call
    <2>1. p \in DOMAIN fs
      BY <1>2, <1>4, <1>7
    <2>2. CASE q = k
      BY <1>1, <1>2, <1>5, <2>1, <2>2
    <2>3. CASE q \in DOMAIN fs
      BY <1>2, <1>7, <2>1, <2>3 DEF FramesInv
    <2> QED
      BY <1>4, <2>2, <2>3
  <1>8. fs2[1].call = 1
    BY <1>2, <1>3 DEF FramesInv
  <1>9. FramesInv(u, fs2)
    BY <1>6, <1>7, <1>8 DEF FramesInv
  <1> QED
    BY <1>9 DEF fs2

\* The call c of type t.calls[..] enters an account: what is made and doomed.
Enters(t, u, c, fs, f, w, v, made, made2, gone, cancun) ==
    /\ t \in Transactions /\ Appends(u, t, c) /\ t.begin > 0
    /\ fs \in Seq(Frames) /\ fs # <<>> /\ FramesInv(t, fs) /\ f \in Frames
    /\ FateInv(t, fs, w, made, gone, cancun)
    /\ ~c.reverted /\ ~c.suicide /\ c.parent = fs[Len(fs)].call
    /\ c.type = "delegate" => c.parent \in 1..Len(t.calls)
    /\ f.call = Len(t.calls) + 1 /\ f.world = w /\ f.created = made /\ f.doomed = gone
    /\ f.self = IF c.type = "delegate" THEN fs[Len(fs)].self ELSE c.address
    /\ Keeps(w, v) /\ (c.type = "create" => FreeIn(w, c.address))
    /\ made2 = IF c.type = "create" THEN made \cup {c.address} ELSE made

LEMMA AppendFate ==
    ASSUME NEW t, NEW u, NEW c, NEW fs, NEW f, NEW w, NEW v, NEW made, NEW made2, NEW gone,
           NEW cancun, NEW n, CallsInv(t, n),
           Enters(t, u, c, fs, f, w, v, made, made2, gone, cancun)
    PROVE  FateInv(u, Append(fs, f), v, made2, gone, cancun)
  <1> DEFINE L == Len(t.calls)
             E(j) == ExecutionAddress(u.calls, j)
  <1>0. /\ t \in Transactions /\ Appends(u, t, c) /\ t.begin > 0
        /\ fs \in Seq(Frames) /\ fs # <<>> /\ FramesInv(t, fs) /\ f \in Frames
        /\ FateInv(t, fs, w, made, gone, cancun)
        /\ ~c.reverted /\ ~c.suicide /\ c.parent = fs[Len(fs)].call
        /\ (c.type = "delegate" => c.parent \in 1..L)
        /\ f.call = L + 1 /\ f.world = w /\ f.created = made /\ f.doomed = gone
        /\ f.self = (IF c.type = "delegate" THEN fs[Len(fs)].self ELSE c.address)
        /\ Keeps(w, v) /\ (c.type = "create" => FreeIn(w, c.address))
        /\ made2 = (IF c.type = "create" THEN made \cup {c.address} ELSE made)
    BY DEF Enters
  <1>1. /\ DOMAIN t.calls = 1..L /\ DOMAIN u.calls = 1..(L + 1) /\ L \in Nat
        /\ Len(u.calls) = L + 1 /\ u.calls[L + 1] = c
        /\ \A j \in 1..L : u.calls[j] = t.calls[j]
    BY <1>0, AppendIs
  <1>2. (\E g : IsExec(g, t.calls)) /\ FateAt(t.calls, L + 1, w, made, gone, cancun)
    BY <1>0 DEF FateInv
  <1>3. /\ \E g : IsExec(g, u.calls)
        /\ \A j \in 1..L : E(j) = ExecutionAddress(t.calls, j)
        /\ E(L + 1) = IF c.type = "delegate" THEN ExecutionAddress(t.calls, c.parent) ELSE c.address
    BY <1>0, <1>2, AppendExec
  <1>4. \A j \in 1..L : ExecutionAddress(t.calls, j) \in Accounts
    BY <1>0, <1>1, <1>2, ExecAccount
  <1>5. ASSUME NEW m \in Nat, m <= L + 1 PROVE SeenAs(t.calls, m, u.calls, m)
    BY <1>0, <1>3, <1>5, AppendSees
  <1>6. FateAt(u.calls, L + 1, w, made, gone, cancun)
    <2> DEFINE k == L + 1
    <2>1. k \in Nat /\ SeenAs(t.calls, k, u.calls, k)
      BY <1>1, <1>5
    <2>2. FateAt(t.calls, k, w, made, gone, cancun)
      BY <1>2
    <2> HIDE DEF k
    <2>3. FateAt(u.calls, k, w, made, gone, cancun)
      BY <2>1, <2>2, SeenFate
    <2> QED
      BY <2>3 DEF k
  <1> HIDE DEF L
  <1>7. FateAt(u.calls, L + 2, v, made2, gone, cancun)
    <2>0. \A j \in DOMAIN u.calls : j < L + 2 /\ (j < L + 1 \/ (j = L + 1 /\ u.calls[j] = c))
      BY <1>1
    <2>1. made2 = CreatedBelow(u.calls, L + 2)
      <3>1. ASSUME NEW a
            PROVE  a \in CreatedBelow(u.calls, L + 2) <=>
                      a \in CreatedBelow(u.calls, L + 1) \/ (c.type = "create" /\ a = c.address)
        <4> DEFINE Q(j) == ~u.calls[j].reverted /\ u.calls[j].type = "create" /\ a = u.calls[j].address
        <4>1. a \in CreatedBelow(u.calls, L + 2) <=> \E j \in DOMAIN u.calls : j < L + 2 /\ Q(j)
          BY CreatedIs
        <4>2. a \in CreatedBelow(u.calls, L + 1) <=> \E j \in DOMAIN u.calls : j < L + 1 /\ Q(j)
          BY CreatedIs
        <4>3. Q(L + 1) <=> c.type = "create" /\ a = c.address
          BY <1>0, <1>1
        <4>4. L + 1 \in DOMAIN u.calls
          BY <1>1
        <4> HIDE DEF Q
        <4> QED
          BY <2>0, <4>1, <4>2, <4>3, <4>4
      <3>2. made = CreatedBelow(u.calls, L + 1)
        BY <1>6 DEF FateAt
      <3> QED
        BY <1>0, <3>1, <3>2
    <2>2. ASSUME NEW j \in Suicides(u.calls), j < L + 2
          PROVE  j < L + 1 /\ ~FreeIn(w, E(j)) /\ E(j) \in Accounts
      <3>1. j \in DOMAIN u.calls /\ u.calls[j].suicide
        BY <2>2 DEF Suicides, Committed
      <3>2. j < L + 1
        BY <1>0, <2>0, <3>1
      <3>4. j \in 1..L
        BY <1>1, <3>1, <3>2
      <3>3. E(j) \in Accounts
        BY <1>3, <1>4, <3>4
      <3> QED
        BY <1>6, <3>2, <3>3 DEF FateAt
    <2>3. gone = DoomedBelow(u.calls, L + 2, cancun, made2)
      <3>1. ASSUME NEW a
            PROVE  a \in DoomedBelow(u.calls, L + 2, cancun, made2) <=>
                      a \in DoomedBelow(u.calls, L + 1, cancun, made)
        <4> DEFINE Q(j) == ~u.calls[j].reverted /\ u.calls[j].suicide /\ a = E(j)
        <4>1. a \in DoomedBelow(u.calls, L + 2, cancun, made2) <=>
                \E j \in DOMAIN u.calls : Q(j) /\ j < L + 2 /\ (~cancun \/ E(j) \in made2)
          BY DoomedIs
        <4>2. a \in DoomedBelow(u.calls, L + 1, cancun, made) <=>
                \E j \in DOMAIN u.calls : Q(j) /\ j < L + 1 /\ (~cancun \/ E(j) \in made)
          BY DoomedIs
        <4>3. ASSUME NEW j \in DOMAIN u.calls, Q(j)
              PROVE  j < L + 2 /\ j < L + 1 /\ (E(j) \in made2 <=> E(j) \in made)
          <5>1. j \in Suicides(u.calls) /\ j < L + 2
            BY <2>0, <4>3 DEF Suicides, Committed
          <5>2. j < L + 1 /\ ~FreeIn(w, E(j))
            BY <2>2, <5>1
          <5> QED
            BY <1>0, <5>1, <5>2
        <4> HIDE DEF Q, E
        <4> QED
          BY <4>1, <4>2, <4>3
      <3> QED
        BY <1>6, <3>1 DEF FateAt
    <2>4. \A j \in Suicides(u.calls) : j < L + 2 => ~FreeIn(v, E(j))
      BY <1>0, <2>2 DEF Keeps
    <2> QED
      BY <2>1, <2>3, <2>4 DEF FateAt
  <1>8. ASSUME NEW p \in DOMAIN Append(fs, f)
        PROVE  LET g == Append(fs, f)[p]
               IN  /\ g.self = E(g.call)
                   /\ FateAt(u.calls, g.call, g.world, g.created, g.doomed, cancun)
    <2>1. Len(fs) \in Nat /\ DOMAIN fs = 1..Len(fs) /\ DOMAIN Append(fs, f) = 1..(Len(fs) + 1)
      BY <1>0
    <2>2. CASE p = Len(fs) + 1
      <3>1. Append(fs, f)[p] = f
        BY <1>0, <2>2
      <3>2. Len(fs) \in DOMAIN fs
        BY <1>0, <2>1, EmptySeq
      <3>3. fs[Len(fs)].self = ExecutionAddress(t.calls, fs[Len(fs)].call)
        BY <1>0, <3>2 DEF FateInv
      <3>4. f.self = E(L + 1)
        BY <1>0, <1>3, <3>3
      <3> QED
        BY <1>0, <1>6, <3>1, <3>4
    <2>3. CASE p \in DOMAIN fs
      <3> DEFINE h == fs[p]
                 m == h.call
      <3>1. Append(fs, f)[p] = h
        BY <1>0, <2>1, <2>3
      <3>2. h.self = ExecutionAddress(t.calls, m)
            /\ FateAt(t.calls, m, h.world, h.created, h.doomed, cancun)
        BY <1>0, <2>3 DEF FateInv
      <3>3. m \in 1..L
        BY <1>0, <1>1, <2>3 DEF FramesInv
      <3>4. m \in Nat /\ m <= L + 1
        BY <1>1, <3>3
      <3> HIDE DEF h, m
      <3>5. FateAt(u.calls, m, h.world, h.created, h.doomed, cancun)
        BY <1>5, <3>2, <3>4, SeenFate
      <3>6. h.self = E(m)
        BY <1>3, <3>2, <3>3
      <3> QED
        BY <3>1, <3>5, <3>6 DEF m
    <2> QED
      BY <2>1, <2>2, <2>3
  <1>9. Len(u.calls) + 1 = L + 2
    BY <1>1
  <1> HIDE DEF E
  <1> QED
    BY <1>3, <1>7, <1>8, <1>9 DEF FateInv, E

LEMMA AppendWorld ==
    ASSUME NEW t \in Transactions, NEW u, NEW c, Appends(u, t, c), 1 \in DOMAIN t.calls,
           ~t.calls[1].reverted, ~c.reverted,
           \A j \in 1..Len(t.calls) : ExecutionAddress(u.calls, j) = ExecutionAddress(t.calls, j),
           NEW fs \in Seq(Frames), FramesInv(t, fs), NEW f, f.call = Len(t.calls) + 1,
           NEW v, NEW base, NEW S, NEW D, WorldInv(f.world, base, S, D, t, fs),
           Reflects(v, base, (S \cup Live(t)) \cup Effective(c.changes), D)
    PROVE  WorldInv(v, base, S, D, u, Append(fs, f))
  <1> DEFINE L == Len(t.calls)
  <1>1. /\ DOMAIN t.calls = 1..L /\ DOMAIN u.calls = 1..(L + 1) /\ L \in Nat
        /\ Len(u.calls) = L + 1 /\ u.calls[L + 1] = c
        /\ \A j \in 1..L : u.calls[j] = t.calls[j]
        /\ u.begin = t.begin
    BY AppendIs
  <1>2. u.calls[1] = t.calls[1] /\ L >= 1
    BY <1>1
  <1>3. BeforeRoot(u) = BeforeRoot(t)
    BY <1>1, <1>2 DEF BeforeRoot
  <1>4. ASSUME NEW m \in Nat, m <= L + 1 PROVE Below(u.calls, m) = Below(t.calls, m)
    <2>1. SeenAs(t.calls, m, u.calls, m)
      BY <1>4, AppendSees
    <2> QED
      BY <2>1, SeenBelow
  <1>5. Below(u.calls, L + 1) = Live(t)
    <2>1. L + 1 \in Nat /\ L + 1 <= L + 1
      BY <1>1
    <2> DEFINE k == L + 1
    <2> HIDE DEF k
    <2>2. Below(u.calls, k) = Below(t.calls, k)
      BY <1>4, <2>1 DEF k
    <2> QED
      BY <2>2 DEF k, Live
  <1> HIDE DEF L
  <1>6. Live(u) = Live(t) \cup Effective(c.changes)
    <2>1. Live(u) = Below(u.calls, L + 2)
      <3>1. Live(u) = Below(u.calls, Len(u.calls) + 1)
        BY <1>2 DEF Live
      <3>2. Len(u.calls) + 1 = L + 2
        BY <1>1
      <3> QED
        BY <3>1, <3>2
    <2>2. ASSUME NEW x
          PROVE  x \in Below(u.calls, L + 2) <=> x \in Below(u.calls, L + 1) \/ x \in Effective(c.changes)
      <3> DEFINE Q(j) == ~u.calls[j].reverted /\ x \in Effective(u.calls[j].changes)
      <3>1. x \in Below(u.calls, L + 2) <=> \E j \in DOMAIN u.calls : j < L + 2 /\ Q(j)
        BY BelowIs
      <3>2. x \in Below(u.calls, L + 1) <=> \E j \in DOMAIN u.calls : j < L + 1 /\ Q(j)
        BY BelowIs
      <3>3. L + 1 \in DOMAIN u.calls /\ (Q(L + 1) <=> x \in Effective(c.changes))
        BY <1>1
      <3>4. \A j \in DOMAIN u.calls : j < L + 2 /\ (j < L + 1 \/ j = L + 1)
        BY <1>1
      <3> HIDE DEF Q
      <3> QED
        BY <3>1, <3>2, <3>3, <3>4
    <2> QED
      BY <1>5, <2>1, <2>2
  <1>7. (S \cup Live(t)) \cup Effective(c.changes) = S \cup Live(u)
    BY <1>6
  <1>8. ASSUME NEW p \in DOMAIN Append(fs, f)
        PROVE  LET g == Append(fs, f)[p] IN Reflects(g.world, base, S \cup LiveBelow(u, g.call), D)
    <2>1. Len(fs) \in Nat /\ DOMAIN fs = 1..Len(fs) /\ DOMAIN Append(fs, f) = 1..(Len(fs) + 1)
      OBVIOUS
    <2>2. CASE p = Len(fs) + 1
      <3>1. Append(fs, f)[p] = f
        BY <2>2
      <3>2. L + 1 # 1
        BY <1>1, <1>2
      <3>3. LiveBelow(u, f.call) = Live(t)
        BY <1>5, <3>2 DEF LiveBelow, L
      <3>4. Reflects(f.world, base, S \cup Live(t), D)
        BY DEF WorldInv
      <3> QED
        BY <3>1, <3>3, <3>4
    <2>3. CASE p \in DOMAIN fs
      <3> DEFINE h == fs[p]
      <3>1. Append(fs, f)[p] = h
        BY <2>1, <2>3
      <3>2. h.call \in 1..L
        BY <1>1, <2>3 DEF FramesInv
      <3>3. h.call \in Nat /\ h.call <= L + 1
        BY <1>1, <3>2
      <3>4. Below(u.calls, h.call) = Below(t.calls, h.call)
        BY <1>4, <3>3
      <3>5. LiveBelow(u, h.call) = LiveBelow(t, h.call)
        BY <1>3, <3>4 DEF LiveBelow
      <3>6. Reflects(h.world, base, S \cup LiveBelow(t, h.call), D)
        BY <2>3 DEF WorldInv
      <3> QED
        BY <3>1, <3>5, <3>6
    <2>4. p = Len(fs) + 1 \/ p \in DOMAIN fs
      BY <2>1
    <2> QED
      BY <2>2, <2>3, <2>4
  <1> QED
    BY <1>7, <1>8 DEF WorldInv

\* A transaction being executed, at ordinal n.
Going(t, n, fs, w, made, gone, cancun) ==
    /\ t \in Transactions /\ t.begin > 0 /\ fs \in Seq(Frames) /\ fs # <<>>
    /\ n \in Nat /\ cancun \in BOOLEAN
    /\ CallsInv(t, n) /\ FramesInv(t, fs) /\ RootInv(t)
    /\ FateInv(t, fs, w, made, gone, cancun)

\* A change recorded in the innermost call.
Adds(u, t, i, X) == Extends(u, t, i, X, FALSE)

LEMMA GoOn ==
    ASSUME NEW t, NEW u, NEW fs, NEW i, NEW X \in SUBSET Changes, NEW n, NEW m \in Nat, NEW w,
           NEW v, NEW made, NEW gone, NEW cancun, Going(t, n, fs, w, made, gone, cancun),
           i = fs[Len(fs)].call, Adds(u, t, i, X), n <= m,
           Executed(X, n), \A c \in X : c.ordinal <= m, Keeps(w, v)
    PROVE  Going(u, m, fs, v, made, gone, cancun)
  <1> USE DEF Adds
  <1>0. /\ t \in Transactions /\ t.begin > 0 /\ fs \in Seq(Frames) /\ fs # <<>>
        /\ n \in Nat /\ cancun \in BOOLEAN
        /\ CallsInv(t, n) /\ FramesInv(t, fs) /\ RootInv(t)
        /\ FateInv(t, fs, w, made, gone, cancun)
    BY DEF Going
  <1>1. i \in DOMAIN t.calls
    BY <1>0, TopFrame
  <1>2. CallsInv(u, m)
    <2>1. \A c \in X : n < c.ordinal /\ c.ordinal <= m
      BY DEF Executed
    <2> DEFINE dead == FALSE
    <2>2. /\ t \in Transactions /\ n \in Nat /\ m \in Nat /\ n <= m /\ CallsInv(t, n)
          /\ X \in SUBSET Changes /\ Extends(u, t, i, X, dead)
      BY <1>0
    <2> HIDE DEF dead
    <2> QED
      BY ONLY <1>1, <2>1, <2>2, ExtendCalls
  <1>3. Initial(fs, fs)
    BY <1>0 DEF Initial
  <1>4. FramesInv(u, fs)
    <2>1. FALSE \in BOOLEAN /\ (FALSE => Len(fs) < Len(fs))
      OBVIOUS
    <2> QED
      BY <1>0, <1>3, <2>1, ExtendFrames
  <1>5. RootInv(u)
    BY <1>0, <1>1, ExtendRoot
  <1>6. FateChange(t, u, fs, fs, X, FALSE, n, w, v, made, gone, gone, cancun)
    BY <1>0, <1>3 DEF FateChange
  <1>7. FateInv(u, fs, v, made, gone, cancun)
    BY <1>6, ExtendFate
  <1>8. u \in Transactions /\ u.begin = t.begin
    BY DEF Extends
  <1> QED
    BY <1>0, <1>2, <1>4, <1>5, <1>7, <1>8 DEF Going

Earlier(S, D, n) ==
    /\ S \in SUBSET Changes /\ \A c \in S : c.ordinal <= n
    /\ \A d \in D : d.ordinal \in Nat /\ d.ordinal <= n

\* One more record, of what is in force so far and of the block.
LEMMA LiveReflected ==
    ASSUME NEW t \in Transactions, NEW n \in Nat, CallsInv(t, n), NEW m, NEW X, NEW w, NEW v,
           NEW base, NEW S, NEW D, Earlier(S, D, n), Recorded(X, w, v, n, m),
           Reflects(w, base, S \cup Live(t), D)
    PROVE  Reflects(v, base, (S \cup Live(t)) \cup Effective(X), D)
  <1> DEFINE C == S \cup Live(t)
  <1>1. Live(t) \in SUBSET Changes /\ \A c \in Live(t) : c.ordinal <= n
    BY LiveType
  <1>2. C \in SUBSET Changes /\ \A c \in C : c.ordinal <= n
    BY <1>1 DEF Earlier
  <1>3. \A d \in D : d.ordinal \in Nat /\ d.ordinal <= n
    BY DEF Earlier
  <1>4. Reflects(w, base, C, D)
    OBVIOUS
  <1> HIDE DEF C
  <1>5. Reflects(v, base, C \cup Effective(X), D)
    BY <1>2, <1>3, <1>4, RecordedReflected
  <1> QED
    BY <1>5 DEF C

LEMMA RecordedIs ==
    ASSUME NEW X, NEW w, NEW v, NEW n, NEW m, Recorded(X, w, v, n, m)
    PROVE  /\ X \in SUBSET Changes /\ Executed(X, n)
           /\ \A c \in X : n < c.ordinal /\ c.ordinal <= m /\ c.reason # "gas"
  BY DEF Recorded, Records, Executed

LEMMA GoOnWorld ==
    ASSUME NEW t, NEW u, NEW fs, NEW i, NEW X, NEW n, NEW m, NEW w, NEW v, NEW made, NEW gone,
           NEW cancun, Going(t, n, fs, w, made, gone, cancun),
           i = fs[Len(fs)].call, Adds(u, t, i, X), Recorded(X, w, v, n, m),
           NEW base, NEW S, NEW D, Earlier(S, D, n), WorldInv(w, base, S, D, t, fs)
    PROVE  WorldInv(v, base, S, D, u, fs)
  <1>0. /\ t \in Transactions /\ t.begin > 0 /\ fs \in Seq(Frames) /\ fs # <<>>
        /\ n \in Nat /\ CallsInv(t, n) /\ FramesInv(t, fs)
    BY DEF Going
  <1>1. X \in SUBSET Changes /\ \A c \in X : n < c.ordinal
    BY RecordedIs
  <1>2. t.begin \in Nat /\ t.begin <= n
    BY <1>0, TxCalls DEF CallsInv
  <1>3. \A c \in X : t.begin < c.ordinal
    BY <1>0, <1>1, <1>2 DEF Changes
  <1>4. Reflects(w, base, S \cup Live(t), D)
    BY DEF WorldInv
  <1>5. Reflects(v, base, (S \cup Live(t)) \cup Effective(X), D)
    BY <1>0, <1>4, LiveReflected
  <1>6. Initial(fs, fs)
    BY <1>0 DEF Initial
  <1> DEFINE dead == FALSE
  <1>7. Extends(u, t, fs[Len(fs)].call, X, dead)
    BY DEF Adds
  <1> HIDE DEF dead
  <1> QED
    BY ONLY <1>0, <1>1, <1>3, <1>5, <1>6, <1>7, WorldInv(w, base, S, D, t, fs), ExtendWorld

\* What the record of a new call is.
NewCall(c, type, a, i, X) ==
    /\ c \in Calls /\ c.type = type /\ c.address = a /\ c.parent = i /\ c.changes = X
    /\ ~c.reverted /\ ~c.suicide

LEMMA CallIs ==
    ASSUME NEW type \in {"call", "delegate", "create"}, NEW a \in Accounts, NEW i \in Nat,
           NEW X \in SUBSET Changes
    PROVE  NewCall(Call(type, a, i, X), type, a, i, X)
  BY DEF NewCall, Call, Calls

\* A call enters an account, in a frame f that returns to the state w.
LEMMA CallStep ==
    ASSUME NEW t, NEW u, NEW n, NEW m \in Nat, NEW fs, NEW f \in Frames, NEW w, NEW v, NEW made,
           NEW made2, NEW gone, NEW cancun, NEW type, NEW a \in Accounts, NEW X, NEW c,
           Going(t, n, fs, w, made, gone, cancun), n <= m,
           NewCall(c, type, a, fs[Len(fs)].call, X), Appends(u, t, c),
           Recorded(X, w, v, n, m), Keeps(w, v), type = "create" => FreeIn(w, a),
           f.call = Len(t.calls) + 1, f.world = w, f.created = made, f.doomed = gone,
           f.self = IF type = "delegate" THEN fs[Len(fs)].self ELSE a,
           made2 = IF type = "create" THEN made \cup {a} ELSE made
    PROVE  /\ Going(u, m, Append(fs, f), v, made2, gone, cancun)
           /\ \A base, S, D : Earlier(S, D, n) /\ WorldInv(w, base, S, D, t, fs)
                              => WorldInv(v, base, S, D, u, Append(fs, f))
  <1>0. /\ t \in Transactions /\ t.begin > 0 /\ fs \in Seq(Frames) /\ fs # <<>>
        /\ n \in Nat /\ cancun \in BOOLEAN
        /\ CallsInv(t, n) /\ FramesInv(t, fs) /\ RootInv(t)
        /\ FateInv(t, fs, w, made, gone, cancun)
    BY DEF Going
  <1>1. /\ fs[Len(fs)].call \in DOMAIN t.calls /\ 1 \in DOMAIN t.calls /\ ~t.calls[1].reverted
    BY <1>0, TopFrame
  <1>2. DOMAIN t.calls = 1..Len(t.calls) /\ u.begin = t.begin
    BY <1>0, AppendIs
  <1>3. /\ c \in Calls /\ c.type = type /\ c.address = a /\ c.parent = fs[Len(fs)].call
        /\ c.changes = X /\ ~c.reverted /\ ~c.suicide
    BY DEF NewCall
  <1>4. X \in SUBSET Changes /\ \A x \in X : n < x.ordinal /\ x.ordinal <= m
    BY RecordedIs
  <1>5. c.type = "delegate" => c.parent \in 1..Len(t.calls)
    BY <1>1, <1>2, <1>3
  <1>6. CallsInv(u, m)
    BY <1>0, <1>3, <1>4, <1>5, AppendCalls
  <1>7. FramesInv(u, Append(fs, f))
    BY <1>0, <1>3, AppendFrames
  <1>8. RootInv(u)
    BY <1>0, <1>1, AppendRoot
  <1>9. FateInv(u, Append(fs, f), v, made2, gone, cancun)
    <2>1. Enters(t, u, c, fs, f, w, v, made, made2, gone, cancun)
      BY <1>0, <1>3, <1>5 DEF Enters
    <2> QED
      BY <1>0, <2>1, AppendFate
  <1>10. Append(fs, f) \in Seq(Frames) /\ Append(fs, f) # <<>>
    BY <1>0
  <1>11. Going(u, m, Append(fs, f), v, made2, gone, cancun)
    BY <1>0, <1>2, <1>6, <1>7, <1>8, <1>9, <1>10 DEF Going, Appends
  <1>12. \A j \in 1..Len(t.calls) : ExecutionAddress(u.calls, j) = ExecutionAddress(t.calls, j)
    <2>1. \E g : IsExec(g, t.calls)
      BY <1>0 DEF FateInv
    <2> QED
      BY <1>0, <1>5, <2>1, AppendExec
  <1>13. ASSUME NEW base, NEW S, NEW D, Earlier(S, D, n), WorldInv(w, base, S, D, t, fs)
         PROVE  WorldInv(v, base, S, D, u, Append(fs, f))
    <2>1. Reflects(w, base, S \cup Live(t), D)
      BY <1>13 DEF WorldInv
    <2>2. Reflects(v, base, (S \cup Live(t)) \cup Effective(c.changes), D)
      BY <1>0, <1>3, <1>13, <2>1, LiveReflected
    <2>3. WorldInv(f.world, base, S, D, t, fs)
      BY <1>13
    <2> QED
      BY <1>0, <1>1, <1>3, <1>12, <2>2, <2>3, AppendWorld
  <1> QED
    BY <1>11, <1>13

LEMMA GoingTx ==
    ASSUME TraceInv, Running
    PROVE  /\ Going(tx, ordinal, frames, world, created, doomed, block.cancun)
           /\ Earlier(Settled(block), AllDeletions(block), ordinal)
           /\ \/ Rejected(block)
              \/ WorldInv(world, Base, Settled(block), AllDeletions(block), tx, frames)
  <1>1. Going(tx, ordinal, frames, world, created, doomed, block.cancun) /\ ~halted /\ tx # None
    BY RunningTx DEF Going
  <1>2. Earlier(Settled(block), AllDeletions(block), ordinal)
    BY DEF TraceInv, BlockInv, DeletionRecords, Earlier
  <1>3. \/ Rejected(block)
        \/ WorldInv(world, Base, Settled(block), AllDeletions(block), tx, frames)
    BY <1>1 DEF TraceInv, StateInv
  <1> QED
    BY <1>1, <1>2, <1>3

LEMMA EarlierLater ==
    ASSUME NEW S, NEW D, NEW n \in Nat, NEW m \in Nat, n <= m, Earlier(S, D, n)
    PROVE  Earlier(S, D, m)
  BY DEF Earlier, Changes

\* What a CREATE does to the creator, before it enters the new account.
CallerCalls(type, calls, i, c) ==
    IF type = "create" THEN [calls EXCEPT ![i].changes = @ \cup {c}] ELSE calls
CallerWorld(type, w, a) == IF type = "create" THEN [w EXCEPT ![a].nonce = @ + 1] ELSE w
CallerOrdinal(type, n) == IF type = "create" THEN n + 1 ELSE n

LEMMA EnterCaller ==
    ASSUME TraceInv, Running, NEW type, NEW c,
           c = Change("nonce", Self, None, world[Self]["nonce"], world[Self].nonce + 1,
                      ordinal + 1, None), NEW t, NEW w, NEW n,
           t = [tx EXCEPT !.calls = CallerCalls(type, tx.calls, Current, c)],
           w = CallerWorld(type, world, Self), n = CallerOrdinal(type, ordinal)
    PROVE  /\ Going(t, n, frames, w, created, doomed, block.cancun)
           /\ Earlier(Settled(block), AllDeletions(block), n)
           /\ \/ Rejected(block)
              \/ WorldInv(w, Base, Settled(block), AllDeletions(block), t, frames)
           /\ w \in Worlds /\ Keeps(world, w) /\ Len(t.calls) = Len(tx.calls)
           /\ n \in Nat /\ \A b \in Accounts : b = Self \/ w[b] = world[b]
  <1>1. /\ Going(tx, ordinal, frames, world, created, doomed, block.cancun)
        /\ Earlier(Settled(block), AllDeletions(block), ordinal)
        /\ \/ Rejected(block)
           \/ WorldInv(world, Base, Settled(block), AllDeletions(block), tx, frames)
    BY GoingTx
  <1>2. /\ Self \in Accounts /\ Current \in DOMAIN tx.calls /\ ~tx.calls[Current].suicide
        /\ tx \in Transactions /\ ordinal \in Nat /\ world \in Worlds
    BY RunningTx DEF TraceInv, TypeInv
  <1>3. CASE type = "create"
    <2>1. world[Self].nonce \in Nat
      BY <1>2 DEF Worlds, AccountStates
    <2> DEFINE x == world[Self].nonce + 1
               o == ordinal + 1
    <2>2. x \in Nat /\ x # 0 /\ o \in Nat /\ ordinal <= o /\ ordinal < o
      BY <1>2, <2>1
    <2>3. w = [world EXCEPT ![Self].nonce = x]
      BY <1>2, <1>3 DEF CallerWorld, Worlds, AccountStates
    <2>4. c = Change("nonce", Self, None, world[Self]["nonce"], x, o, None)
      OBVIOUS
    <2>5. n = o
      BY <1>3 DEF CallerOrdinal
    <2> HIDE DEF x, o
    <2>6. w \in Worlds /\ Updated(world, w, "nonce", Self, None, x) /\ Keeps(world, w)
      <3>1. LET v == [world EXCEPT ![Self].nonce = x]
            IN  v \in Worlds /\ Updated(world, v, "nonce", Self, None, x) /\ Keeps(world, v)
        BY <1>2, <2>2, SetNonce
      <3> QED
        BY <2>3, <3>1
    <2>7. Records(c, world, w) /\ c.ordinal = o /\ c.reason = None
      <3>1. "nonce" \in {"balance", "nonce", "code"} /\ None \in Reasons /\ x \in Nat \cup Codes
        BY <2>2 DEF Reasons
      <3>2. world \in Worlds /\ Self \in Accounts /\ o \in Nat
        BY <1>2, <2>2
      <3>3. FieldWrite(c, world, w, "nonce", Self, x, o, None)
        BY ONLY <2>4, <2>6 DEF FieldWrite
      <3> QED
        BY ONLY <3>1, <3>2, <3>3, FieldRecord
    <2>8. c \in Changes /\ None # "gas"
      BY <2>7, TraceAssumption DEF Records
    <2>9. Recorded({c}, world, w, ordinal, n)
      BY <1>2, <2>2, <2>5, <2>7, <2>8 DEF Recorded
    <2>10. Adds(t, tx, Current, {c})
      <3>1. t = [tx EXCEPT !.calls[Current].changes = @ \cup {c}]
        BY <1>2, <1>3 DEF CallerCalls, Transactions
      <3>2. {c} \in SUBSET Changes
        BY <2>8
      <3> QED
        BY <1>2, <3>1, <3>2, RecordChanges DEF Adds
    <2>11. Current = frames[Len(frames)].call
      BY DEF Current
    <2>12. {c} \in SUBSET Changes /\ Executed({c}, ordinal) /\ \A e \in {c} : e.ordinal <= n
      BY <2>9, RecordedIs
    <2>13. n \in Nat /\ ordinal <= n
      BY <2>2, <2>5
    <2>14. Going(t, n, frames, w, created, doomed, block.cancun)
      BY <1>1, <2>6, <2>10, <2>11, <2>12, <2>13, GoOn
    <2>15. Earlier(Settled(block), AllDeletions(block), n)
      BY <1>1, <1>2, <2>13, EarlierLater
    <2>16. \/ Rejected(block)
           \/ WorldInv(w, Base, Settled(block), AllDeletions(block), t, frames)
      BY <1>1, <2>9, <2>10, <2>11, GoOnWorld
    <2>17. Len(t.calls) = Len(tx.calls)
      BY <2>10 DEF Adds, Extends
    <2>18. \A b \in Accounts : b = Self \/ w[b] = world[b]
      BY <1>2, <2>3 DEF Worlds
    <2> QED
      BY <2>6, <2>13, <2>14, <2>15, <2>16, <2>17, <2>18
  <1>4. CASE type # "create"
    <2>1. t = tx
      BY <1>2, <1>4 DEF CallerCalls, Transactions
    <2>2. w = world /\ n = ordinal
      BY <1>4 DEF CallerWorld, CallerOrdinal
    <2>3. Keeps(world, world)
      BY DEF Keeps
    <2> QED
      BY <1>1, <1>2, <2>1, <2>2, <2>3
  <1> QED
    BY <1>3, <1>4

LEMMA EnterStep ==
    ASSUME TraceInv, NEW type \in {"call", "delegate", "create"}, NEW a \in Accounts, Enter(type, a)
    PROVE  TraceInv'
  <1> DEFINE c1 == Change("nonce", Self, None, world[Self]["nonce"], world[Self].nonce + 1,
                          ordinal + 1, None)
             t == [tx EXCEPT !.calls = CallerCalls(type, tx.calls, Current, c1)]
             w == CallerWorld(type, world, Self)
             n == CallerOrdinal(type, ordinal)
             c2 == Change("nonce", a, None, world[a]["nonce"], 1, ordinal + 2, None)
             X == IF type = "create" THEN {c2} ELSE {}
             c == Call(type, a, Current, X)
             f == Frame(Len(tx.calls) + 1, IF type = "delegate" THEN Self ELSE a, w)
  <1>1. /\ Running /\ ~halted /\ Self \in Accounts /\ Current \in DOMAIN tx.calls /\ Current \in Nat
        /\ tx \in Transactions /\ ordinal \in Nat /\ world \in Worlds /\ frames \in Seq(Frames)
        /\ created \in SUBSET Accounts /\ doomed \in SUBSET Accounts /\ Len(tx.calls) \in Nat
    BY RunningTx, TxCalls DEF Enter, Executing, TraceInv, TypeInv
  <1>2. tx' = [tx EXCEPT !.calls = Append(CallerCalls(type, tx.calls, Current, c1), c)]
    BY DEF Enter, Field, CallerCalls
  <1>3. world' = IF type = "create" THEN [w EXCEPT ![a].nonce = 1] ELSE w
    BY DEF Enter, CallerWorld
  <1>4. frames' = Append(frames, f)
    BY DEF Enter, CallerWorld
  <1>5. created' = IF type = "create" THEN created \cup {a} ELSE created
    BY DEF Enter
  <1>6. /\ type = "create" => Free(a) /\ a # Self
        /\ Tick(IF type = "create" THEN 2 ELSE 1) /\ UNCHANGED <<block, doomed, halted, output, work>>
    BY DEF Enter
  <1>7. /\ Going(t, n, frames, w, created, doomed, block.cancun)
        /\ Earlier(Settled(block), AllDeletions(block), n)
        /\ \/ Rejected(block)
           \/ WorldInv(w, Base, Settled(block), AllDeletions(block), t, frames)
        /\ w \in Worlds /\ Keeps(world, w) /\ Len(t.calls) = Len(tx.calls)
        /\ n \in Nat /\ \A b \in Accounts : b = Self \/ w[b] = world[b]
    BY <1>1, EnterCaller
  <1>8. t.calls = CallerCalls(type, tx.calls, Current, c1) /\ tx' = [t EXCEPT !.calls = Append(t.calls, c)]
    BY <1>1, <1>2 DEF Transactions
  <1>9. ordinal' \in Nat /\ n <= ordinal' /\ ordinal <= ordinal'
    BY <1>1, <1>6 DEF Tick, CallerOrdinal
  <1>10. f \in Frames /\ f.call = Len(t.calls) + 1 /\ f.world = w /\ f.created = created
         /\ f.doomed = doomed /\ f.self = IF type = "delegate" THEN Self ELSE a
    <2>1. Len(t.calls) = Len(tx.calls) /\ w \in Worlds
      BY <1>7
    <2> HIDE DEF t, w
    <2> QED
      BY <1>1, <2>1 DEF Frame, Frames
  <1>11. /\ world' \in Worlds /\ Keeps(w, world') /\ Recorded(X, w, world', n, ordinal')
         /\ (type = "create" => FreeIn(w, a))
    <2>1. CASE type = "create"
      <3>1. world[a] = w[a] /\ FreeIn(w, a)
        BY <1>6, <1>7, <2>1 DEF Free, FreeIn
      <3> DEFINE o == ordinal + 2
      <3>2. o \in Nat /\ n < o /\ o = ordinal'
        BY <1>1, <1>6, <2>1 DEF Tick, CallerOrdinal
      <3>3. c2 = Change("nonce", a, None, w[a]["nonce"], 1, o, None)
        BY <3>1
      <3> HIDE DEF c2, o, w, n
      <3>4. world' \in Worlds /\ Updated(w, world', "nonce", a, None, 1) /\ Keeps(w, world')
        <4>1. w \in Worlds /\ 1 # 0 /\ 1 \in Nat
          BY <1>7
        <4>2. LET v == [w EXCEPT ![a].nonce = 1]
              IN  v \in Worlds /\ Updated(w, v, "nonce", a, None, 1) /\ Keeps(w, v)
          BY <4>1, SetNonce
        <4> QED
          BY <1>3, <2>1, <4>2, ZenonT(30)
      <3>5. Records(c2, w, world') /\ c2.ordinal = o /\ c2.reason = None
        <4>1. "nonce" \in {"balance", "nonce", "code"} /\ None \in Reasons /\ 1 \in Nat \cup Codes
          BY <3>2 DEF Reasons
        <4>2. w \in Worlds /\ a \in Accounts /\ o \in Nat
          BY <1>7, <3>2
        <4>3. FieldWrite(c2, w, world', "nonce", a, 1, o, None)
          BY ONLY <3>3, <3>4 DEF FieldWrite
        <4> QED
          BY ONLY <4>1, <4>2, <4>3, FieldRecord
      <3>6. X = {c2} /\ None # "gas"
        BY <2>1, TraceAssumption
      <3>7. n < c2.ordinal /\ c2.ordinal <= ordinal' /\ c2.reason # "gas"
        BY <1>9, <3>2, <3>5, <3>6
      <3>8. Recorded(X, w, world', n, ordinal')
        BY <3>5, <3>6, <3>7 DEF Recorded
      <3> QED
        BY <3>1, <3>4, <3>8
    <2>2. CASE type # "create"
      <3>1. world' = w /\ X = {}
        BY <1>3, <2>2
      <3> HIDE DEF w, n, X
      <3> QED
        BY <1>7, <2>2, <3>1 DEF Recorded, Keeps
    <2> QED
      BY <2>1, <2>2
  <1> HIDE DEF X, c1, c2, w, n, t
  <1>12. NewCall(c, type, a, Current, X)
    <2>1. X \in SUBSET Changes
      BY <1>11, RecordedIs
    <2> QED
      BY <1>1, <2>1, CallIs
  <1> HIDE DEF c, f
  <1>13. Appends(tx', t, c)
    <2>1. c \in Calls
      BY <1>12 DEF NewCall
    <2>2. t \in Transactions
      BY <1>7 DEF Going
    <2>3. t.calls \in Seq(Calls)
      BY <2>2, TxCalls
    <2>4. Append(t.calls, c) \in Seq(Calls)
      BY <2>1, <2>3
    <2> QED
      BY <1>8, <2>1, <2>2, <2>4 DEF Appends, Transactions
  <1>14. /\ Going(tx', ordinal', frames', world', created', doomed, block.cancun)
         /\ \A base, S, D : Earlier(S, D, n) /\ WorldInv(w, base, S, D, t, frames)
                            => WorldInv(world', base, S, D, tx', frames')
    <2>1. NewCall(c, type, a, frames[Len(frames)].call, X)
      BY <1>12 DEF Current
    <2>2. f.self = IF type = "delegate" THEN frames[Len(frames)].self ELSE a
      BY <1>10 DEF Self
    <2> QED
      BY <1>4, <1>5, <1>7, <1>9, <1>10, <1>11, <1>13, <2>1, <2>2, CallStep
  <1>15. \/ Rejected(block)
         \/ WorldInv(world', Base, Settled(block), AllDeletions(block), tx', frames')
    BY <1>7, <1>14
  <1>16. /\ tx' \in Transactions /\ tx' # None /\ frames' \in Seq(Frames) /\ tx'.begin > 0
         /\ CallsInv(tx', ordinal') /\ FramesInv(tx', frames') /\ RootInv(tx')
         /\ FateInv(tx', frames', world', created', doomed', block.cancun)
    BY <1>6, <1>14, TraceAssumption DEF Going
  <1>17. IdleInv'
    <2>1. tx'.begin # 0
      BY <1>16, TxCalls
    <2> QED
      BY <1>1, <1>6, <1>16, <2>1 DEF IdleInv
  <1>18. created' \in SUBSET Accounts /\ doomed' \in SUBSET Accounts
    BY <1>1, <1>5, <1>6
  <1> QED
    BY <1>1, <1>6, <1>9, <1>11, <1>15, <1>16, <1>17, <1>18, TxStep

----------------------------------------------------------------------------
(* A frame that fails                                                       *)

\* u is t with its calls from i on reverted.
Reverts(u, t, i) ==
    /\ u \in Transactions
    /\ u.from = t.from /\ u.nonce = t.nonce /\ u.authorities = t.authorities
    /\ u.begin = t.begin /\ Len(u.calls) = Len(t.calls)
    /\ \A j \in 1..Len(t.calls) :
          /\ u.calls[j].type = t.calls[j].type /\ u.calls[j].address = t.calls[j].address
          /\ u.calls[j].parent = t.calls[j].parent /\ u.calls[j].changes = t.calls[j].changes
          /\ u.calls[j].suicide <=> t.calls[j].suicide
          /\ u.calls[j].reverted <=> j >= i \/ t.calls[j].reverted

LEMMA SeqOfFunction ==
    ASSUME NEW T, NEW n \in Nat, NEW d \in [1..n -> T]
    PROVE  d \in Seq(T) /\ Len(d) = n
  OBVIOUS

LEMMA RevertIs ==
    ASSUME NEW t \in Transactions, NEW i \in DOMAIN t.calls, NEW e \in Nat, NEW u,
           u = [t EXCEPT !.calls =
                  [j \in DOMAIN t.calls |->
                      IF j >= i
                      THEN [t.calls[j] EXCEPT !.reverted = TRUE, !.end = IF j = i THEN e ELSE @]
                      ELSE t.calls[j]]]
    PROVE  Reverts(u, t, i)
  <1> DEFINE d == [j \in DOMAIN t.calls |->
                      IF j >= i
                      THEN [t.calls[j] EXCEPT !.reverted = TRUE, !.end = IF j = i THEN e ELSE @]
                      ELSE t.calls[j]]
  <1>1. t.calls \in Seq(Calls) /\ DOMAIN t.calls = 1..Len(t.calls) /\ Len(t.calls) \in Nat
    BY TxCalls
  <1>2. ASSUME NEW j \in 1..Len(t.calls)
        PROVE  /\ d[j] \in Calls
               /\ d[j].type = t.calls[j].type /\ d[j].address = t.calls[j].address
               /\ d[j].parent = t.calls[j].parent /\ d[j].changes = t.calls[j].changes
               /\ d[j].suicide <=> t.calls[j].suicide
               /\ d[j].reverted <=> j >= i \/ t.calls[j].reverted
    <2>1. t.calls[j] \in Calls
      BY TxCalls
    <2>2. CASE j >= i
      <3> DEFINE x == IF j = i THEN e ELSE t.calls[j].end
      <3>0. x \in Nat
        BY <2>1 DEF Calls
      <3>1. d[j] = [t.calls[j] EXCEPT !.reverted = TRUE, !.end = x]
        BY <1>1, <2>1, <2>2 DEF Calls
      <3> HIDE DEF x, d
      <3>2. /\ d[j] \in Calls
            /\ d[j].type = t.calls[j].type /\ d[j].address = t.calls[j].address
            /\ d[j].parent = t.calls[j].parent /\ d[j].changes = t.calls[j].changes
            /\ d[j].suicide = t.calls[j].suicide /\ d[j].reverted = TRUE
        BY <2>1, <3>0, <3>1 DEF Calls
      <3> QED
        BY <2>2, <3>2
    <2>3. CASE ~(j >= i)
      <3>1. d[j] = t.calls[j]
        BY <1>1, <2>3
      <3> QED
        BY <2>1, <2>3, <3>1
    <2> QED
      BY <2>2, <2>3
  <1>3. d \in Seq(Calls) /\ Len(d) = Len(t.calls)
    <2>1. d \in [1..Len(t.calls) -> Calls]
      <3>1. d = [j \in 1..Len(t.calls) |-> d[j]]
        BY <1>1
      <3> HIDE DEF d
      <3> QED
        BY <1>2, <3>1
    <2> HIDE DEF d
    <2> QED
      BY <1>1, <2>1, SeqOfFunction
  <1> HIDE DEF d
  <1>4. u = [t EXCEPT !.calls = d]
    BY DEF d
  <1>5. u \in Transactions /\ u.calls = d /\ u.from = t.from /\ u.nonce = t.nonce
        /\ u.authorities = t.authorities /\ u.begin = t.begin
    BY <1>3, <1>4 DEF Transactions
  <1> QED
    BY <1>2, <1>3, <1>5 DEF Reverts

LEMMA RevertExec ==
    ASSUME NEW t \in Transactions, NEW u, NEW i, Reverts(u, t, i), NEW n, CallsInv(t, n),
           \E g : IsExec(g, t.calls)
    PROVE  /\ \E g : IsExec(g, u.calls)
           /\ \A j \in 1..Len(t.calls) :
                 ExecutionAddress(u.calls, j) = ExecutionAddress(t.calls, j)
  <1>1. DOMAIN t.calls = 1..Len(t.calls) /\ Len(t.calls) \in Nat
    BY TxCalls
  <1>7. DOMAIN u.calls = 1..Len(t.calls)
    BY TxCalls DEF Reverts
  <1>2. \A j \in 1..Len(t.calls) :
          /\ u.calls[j].type = t.calls[j].type /\ u.calls[j].parent = t.calls[j].parent
          /\ u.calls[j].address = t.calls[j].address
    BY DEF Reverts
  <1>3. PICK g : IsExec(g, t.calls)
    OBVIOUS
  <1>4. IsExec(g, u.calls)
    BY <1>1, <1>2, <1>3, <1>7 DEF IsExec
  <1>5. Parented(t.calls)
    BY DEF CallsInv, Parented
  <1>6. \A j \in 1..Len(t.calls) : ExecutionAddress(u.calls, j) = ExecutionAddress(t.calls, j)
    <2> DEFINE calls == t.calls
               others == u.calls
               m == Len(t.calls)
    <2>1. m \in Nat /\ 1..m \subseteq DOMAIN calls /\ 1..m \subseteq DOMAIN others
      BY <1>1, <1>7
    <2>2. (\E e : IsExec(e, calls)) /\ (\E e : IsExec(e, others)) /\ Parented(calls)
      BY <1>3, <1>4, <1>5
    <2>3. \A j \in 1..m : /\ others[j].type = calls[j].type /\ others[j].parent = calls[j].parent
                          /\ others[j].address = calls[j].address
      BY <1>2
    <2> HIDE DEF calls, others, m
    <2>4. \A j \in 1..m : ExecutionAddress(others, j) = ExecutionAddress(calls, j)
      BY ONLY <2>1, <2>2, <2>3, ExecAgree
    <2> QED
      BY <2>4 DEF calls, others, m
  <1> QED
    BY <1>4, <1>6

\* Seen from call m, or from the end, the calls are those before the failed one.
LEMMA RevertSees ==
    ASSUME NEW t \in Transactions, NEW u, NEW i \in DOMAIN t.calls, Reverts(u, t, i),
           \A j \in 1..Len(t.calls) : ExecutionAddress(u.calls, j) = ExecutionAddress(t.calls, j),
           NEW m \in Nat, NEW k \in Nat, m <= i, k = m \/ (m = i /\ k = Len(t.calls) + 1)
    PROVE  SeenAs(t.calls, m, u.calls, k)
  <1>1. DOMAIN t.calls = 1..Len(t.calls) /\ DOMAIN u.calls = 1..Len(t.calls) /\ Len(t.calls) \in Nat
    BY TxCalls DEF Reverts
  <1>2. ASSUME NEW j \in 1..Len(t.calls)
        PROVE  ~t.calls[j].reverted /\ j < m <=> ~u.calls[j].reverted /\ j < k
    <2>1. u.calls[j].reverted <=> j >= i \/ t.calls[j].reverted
      BY DEF Reverts
    <2> QED
      BY <1>1, <2>1
  <1>3. {j \in Committed(t.calls) : j < m} = {j \in Committed(u.calls) : j < k}
    BY <1>1, <1>2 DEF Committed
  <1>4. \A j \in Committed(t.calls) : j \in 1..Len(t.calls)
    BY <1>1 DEF Committed
  <1>5. \A j \in 1..Len(t.calls) :
           /\ u.calls[j].type = t.calls[j].type /\ u.calls[j].address = t.calls[j].address
           /\ u.calls[j].suicide <=> t.calls[j].suicide
           /\ u.calls[j].changes = t.calls[j].changes
    BY DEF Reverts
  <1> QED
    BY <1>3, <1>4, <1>5 DEF SeenAs

LEMMA RevertCalls ==
    ASSUME NEW t \in Transactions, NEW u, NEW i, Reverts(u, t, i), NEW n \in Nat, NEW m \in Nat,
           n <= m, CallsInv(t, n)
    PROVE  CallsInv(u, m)
  <1>1. DOMAIN t.calls = 1..Len(t.calls) /\ DOMAIN u.calls = 1..Len(t.calls) /\ Len(t.calls) \in Nat
        /\ t.begin \in Nat
    BY TxCalls DEF Reverts
  <1>2. Len(t.calls) > 0 /\ 1 \in 1..Len(t.calls) /\ t.calls[1].type # "delegate" /\ t.begin <= n
    BY <1>1 DEF CallsInv
  <1>3. Len(u.calls) > 0 /\ u.calls[1].type # "delegate" /\ u.begin <= m
    BY <1>1, <1>2 DEF Reverts
  <1>4. ASSUME NEW j \in 1..Len(t.calls)
        PROVE  /\ j > 1 \/ u.begin > 0 => u.calls[j].address \in Accounts
               /\ u.calls[j].type = "delegate" => u.calls[j].parent \in 1..(j - 1)
    <2>1. /\ u.calls[j].type = t.calls[j].type /\ u.calls[j].address = t.calls[j].address
          /\ u.calls[j].parent = t.calls[j].parent /\ u.begin = t.begin
      BY DEF Reverts
    <2>2. /\ j > 1 \/ t.begin > 0 => t.calls[j].address \in Accounts
          /\ t.calls[j].type = "delegate" => t.calls[j].parent \in 1..(j - 1)
      BY <1>1 DEF CallsInv
    <2> QED
      BY <2>1, <2>2
  <1>5. ASSUME NEW j \in 1..Len(t.calls), NEW c \in u.calls[j].changes
        PROVE  0 < c.ordinal /\ c.ordinal <= m
    <2>1. c \in t.calls[j].changes
      BY DEF Reverts
    <2>2. c.ordinal \in Nat
      BY <2>1, TxCalls DEF Changes
    <2>3. 0 < c.ordinal /\ c.ordinal <= n
      BY <1>1, <2>1 DEF CallsInv
    <2> QED
      BY <2>2, <2>3
  <1> QED
    BY <1>1, <1>3, <1>4, <1>5 DEF CallsInv

LEMMA RevertStep ==
    ASSUME TraceInv, Revert
    PROVE  TraceInv'
  <1> DEFINE f == frames[Len(frames)]
             L == Len(tx.calls)
  <1>1. /\ Running /\ ~halted /\ tx # None /\ tx \in Transactions /\ tx.begin \in Nat /\ tx.begin > 0
        /\ frames \in Seq(Frames) /\ frames # <<>> /\ ordinal \in Nat
        /\ CallsInv(tx, ordinal) /\ FramesInv(tx, frames) /\ RootInv(tx)
        /\ FateInv(tx, frames, world, created, doomed, block.cancun)
        /\ Current \in DOMAIN tx.calls
    BY RunningTx DEF Revert
  <1>2. Current \in DOMAIN tx.calls /\ Current \in Nat /\ f \in Frames /\ f.call = Current
        /\ ~tx.calls[1].reverted /\ 1 \in DOMAIN tx.calls
        /\ \A p \in 1..(Len(frames) - 1) : frames[p].call < Current /\ frames[p].call \in Nat
    <2>1. /\ f \in Frames /\ f.call \in DOMAIN tx.calls /\ f.call \in Nat
          /\ ~tx.calls[1].reverted /\ 1 \in DOMAIN tx.calls
          /\ \A p \in 1..Len(frames) : frames[p].call \in Nat
          /\ \A p \in 1..(Len(frames) - 1) : frames[p].call < f.call
      BY <1>1, TopFrame
    <2>2. \A p \in 1..(Len(frames) - 1) : p \in 1..Len(frames)
      BY <1>1
    <2> QED
      BY <2>1, <2>2 DEF Current
  <1>3. ordinal' = ordinal + 1 /\ ordinal' \in Nat /\ ordinal <= ordinal'
    <2>1. Tick(1)
      BY DEF Revert
    <2> QED
      BY <1>1, <2>1, TickNat
  <1>4. Reverts(tx', tx, Current)
    <2>1. tx' = [tx EXCEPT !.calls =
                  [j \in DOMAIN tx.calls |->
                      IF j >= Current
                      THEN [tx.calls[j] EXCEPT !.reverted = TRUE,
                                               !.end = IF j = Current THEN ordinal + 1 ELSE @]
                      ELSE tx.calls[j]]]
      BY DEF Revert
    <2>2. ordinal + 1 \in Nat
      BY <1>1
    <2> DEFINE e == ordinal + 1
    <2> HIDE DEF e
    <2> QED
      BY <1>1, <2>1, <2>2, RevertIs DEF e
  <1>5. frames' = SubSeq(frames, 1, Len(frames) - 1) /\ world' = f.world /\ created' = f.created
        /\ doomed' = f.doomed /\ UNCHANGED <<block, halted, output, work>>
    BY DEF Revert, Pop
  <1>6. Initial(frames', frames) /\ Len(frames') = Len(frames) - 1 /\ Len(frames) > 0
    BY <1>1, <1>5, PopFrames
  <1>7. /\ frames' \in Seq(Frames) /\ DOMAIN frames' = 1..(Len(frames) - 1)
        /\ \A p \in DOMAIN frames' : /\ frames'[p] = frames[p] /\ p \in DOMAIN frames
                                     /\ frames'[p].call < Current /\ frames'[p].call \in Nat
    BY <1>1, <1>2, <1>6 DEF Initial
  <1>8. /\ world' \in Worlds /\ created' \in SUBSET Accounts /\ doomed' \in SUBSET Accounts
    BY <1>2, <1>5 DEF Frames
  <1>9. tx' \in Transactions /\ tx' # None /\ tx'.begin = tx.begin
        /\ DOMAIN tx.calls = 1..L /\ DOMAIN tx'.calls = 1..L /\ L \in Nat /\ Len(tx'.calls) = L
    BY <1>1, <1>4, TxCalls, TraceAssumption DEF Reverts
  <1>10. CallsInv(tx', ordinal')
    BY <1>1, <1>3, <1>4, RevertCalls
  <1>11. FramesInv(tx', frames')
    <2>1. ASSUME NEW p \in DOMAIN frames'
          PROVE  /\ frames'[p].call \in DOMAIN tx'.calls
                 /\ ~tx'.calls[frames'[p].call].reverted /\ ~tx'.calls[frames'[p].call].suicide
      <3> DEFINE m == frames[p].call
      <3>1. m \in 1..L /\ ~tx.calls[m].reverted /\ ~tx.calls[m].suicide
        BY <1>1, <1>7, <1>9 DEF FramesInv
      <3>2. frames'[p].call = m /\ ~(m >= Current)
        BY <1>2, <1>7
      <3> HIDE DEF m
      <3>3. (tx'.calls[m].reverted <=> m >= Current \/ tx.calls[m].reverted)
            /\ (tx'.calls[m].suicide <=> tx.calls[m].suicide)
        BY <1>4, <3>1 DEF Reverts
      <3> QED
        BY <1>9, <3>1, <3>2, <3>3
    <2>2. \A p \in DOMAIN frames', q \in DOMAIN frames' : p < q => frames'[p].call < frames'[q].call
      BY <1>1, <1>7 DEF FramesInv
    <2>3. frames' # <<>> => frames'[1].call = 1
      BY <1>1, <1>7 DEF FramesInv
    <2> QED
      BY <2>1, <2>2, <2>3 DEF FramesInv
  <1>12. RootInv(tx')
    <2>1. tx'.calls[1].changes = tx.calls[1].changes
      BY <1>2, <1>4, <1>9 DEF Reverts
    <2>2. tx'.from = tx.from /\ tx'.nonce = tx.nonce /\ tx'.authorities = tx.authorities
      BY <1>4 DEF Reverts
    <2> QED
      BY <1>1, <1>9, <2>1, <2>2 DEF RootInv, OwnNonce
  <1>13. /\ \E g : IsExec(g, tx'.calls)
         /\ \A j \in 1..L : ExecutionAddress(tx'.calls, j) = ExecutionAddress(tx.calls, j)
    BY <1>1, <1>4, RevertExec DEF FateInv
  <1> DEFINE k == L + 1
  <1>14. SeenAs(tx.calls, Current, tx'.calls, k)
    <2>1. k \in Nat /\ Current <= Current
      BY <1>2, <1>9
    <2> QED
      BY <1>1, <1>2, <1>4, <1>13, <2>1, RevertSees
  <1>15. ASSUME NEW m \in Nat, m <= Current PROVE SeenAs(tx.calls, m, tx'.calls, m)
    BY <1>1, <1>2, <1>4, <1>13, <1>15, RevertSees
  <1>16. FateInv(tx', frames', world', created', doomed', block.cancun)
    <2>1. Len(frames) \in DOMAIN frames
      BY <1>1, EmptySeq
    <2>2. FateAt(tx.calls, Current, f.world, f.created, f.doomed, block.cancun)
      BY <1>1, <1>2, <2>1 DEF FateInv
    <2> HIDE DEF k, f
    <2>3. FateAt(tx'.calls, k, world', created', doomed', block.cancun)
      BY <1>5, <1>14, <2>2, SeenFate
    <2>4. ASSUME NEW p \in DOMAIN frames'
          PROVE  /\ frames'[p].self = ExecutionAddress(tx'.calls, frames'[p].call)
                 /\ FateAt(tx'.calls, frames'[p].call, frames'[p].world, frames'[p].created,
                           frames'[p].doomed, block.cancun)
      <3> DEFINE g == frames[p]
                 m == g.call
      <3>1. g.self = ExecutionAddress(tx.calls, m)
            /\ FateAt(tx.calls, m, g.world, g.created, g.doomed, block.cancun)
        BY <1>1, <1>7 DEF FateInv
      <3>2. frames'[p] = g /\ m \in Nat /\ m <= Current /\ m \in 1..L
        BY <1>1, <1>2, <1>7, <1>9 DEF FramesInv
      <3> HIDE DEF g, m
      <3>3. FateAt(tx'.calls, m, g.world, g.created, g.doomed, block.cancun)
        BY <1>15, <3>1, <3>2, SeenFate
      <3> QED
        BY <1>13, <3>1, <3>2, <3>3 DEF m
    <2>5. k = Len(tx'.calls) + 1
      BY <1>9 DEF k
    <2> QED
      BY <1>13, <2>3, <2>4, <2>5 DEF FateInv
  <1>17. IdleInv'
    BY <1>1, <1>5, <1>9 DEF IdleInv
  <1>18. ASSUME NEW base, NEW S, NEW D, WorldInv(world, base, S, D, tx, frames)
         PROVE  WorldInv(world', base, S, D, tx', frames')
    <2>1. tx'.calls[1].changes = tx.calls[1].changes /\ (tx'.calls[1].reverted <=> Current = 1)
      <3>1. 1 \in 1..L
        BY <1>2, <1>9
      <3>2. tx'.calls[1].reverted <=> 1 >= Current \/ tx.calls[1].reverted
        BY <1>4, <3>1 DEF Reverts
      <3>3. Current \in 1..L
        BY <1>2, <1>9
      <3> QED
        BY <1>2, <1>4, <3>1, <3>2, <3>3 DEF Reverts
    <2>2. BeforeRoot(tx') = BeforeRoot(tx)
      BY <1>9, <2>1 DEF BeforeRoot
    <2>3. Below(tx'.calls, k) = Below(tx.calls, Current)
      BY <1>14, SeenBelow
    <2>4. Live(tx') = LiveBelow(tx, Current)
      BY <1>9, <2>1, <2>2, <2>3 DEF Live, LiveBelow
    <2>5. Reflects(f.world, base, S \cup LiveBelow(tx, f.call), D)
      <3>1. Len(frames) \in DOMAIN frames
        BY <1>1, EmptySeq
      <3> QED
        BY <1>18, <3>1 DEF WorldInv
    <2>6. ASSUME NEW p \in DOMAIN frames'
          PROVE  Reflects(frames'[p].world, base, S \cup LiveBelow(tx', frames'[p].call), D)
      <3> DEFINE g == frames[p]
                 m == g.call
      <3>1. Reflects(g.world, base, S \cup LiveBelow(tx, m), D)
        BY <1>7, <1>18 DEF WorldInv
      <3>2. frames'[p] = g /\ m \in Nat /\ m <= Current
        BY <1>2, <1>7
      <3>3. Below(tx'.calls, m) = Below(tx.calls, m)
        BY <1>15, <3>2, SeenBelow
      <3>4. LiveBelow(tx', m) = LiveBelow(tx, m)
        BY <2>2, <3>3 DEF LiveBelow
      <3> QED
        BY <3>1, <3>2, <3>4
    <2> QED
      BY <1>2, <1>5, <2>4, <2>5, <2>6 DEF WorldInv
  <1>19. \/ Rejected(block)
         \/ WorldInv(world', Base, Settled(block), AllDeletions(block), tx', frames')
    BY <1>1, <1>18, GoingTx
  <1> QED
    BY <1>1, <1>3, <1>5, <1>7, <1>8, <1>9, <1>10, <1>11, <1>12, <1>16, <1>17, <1>19, TxStep

----------------------------------------------------------------------------
(* A transaction before its root call                                       *)

\* A transaction of one call that was not reverted and did not destroy itself.
OneCall(t) ==
    /\ t \in Transactions /\ Len(t.calls) = 1 /\ t.calls[1].type # "delegate"
    /\ ~t.calls[1].reverted /\ ~t.calls[1].suicide

LEMMA OneCallExec ==
    ASSUME NEW t, OneCall(t)
    PROVE  (\E g : IsExec(g, t.calls)) /\ ExecutionAddress(t.calls, 1) = t.calls[1].address
  <1>1. DOMAIN t.calls = {1} /\ t.calls[1].type # "delegate"
    BY TxCalls DEF OneCall
  <1> DEFINE g == [j \in DOMAIN t.calls |-> t.calls[1].address]
  <1>2. IsExec(g, t.calls)
    BY <1>1 DEF IsExec
  <1> HIDE DEF g
  <1>3. 1 \in DOMAIN t.calls /\ \E e : IsExec(e, t.calls)
    BY <1>1, <1>2
  <1>4. ExecutionAddress(t.calls, 1) =
            IF t.calls[1].type = "delegate" THEN ExecutionAddress(t.calls, t.calls[1].parent)
            ELSE t.calls[1].address
    BY <1>3, ExecDef
  <1> QED
    BY <1>1, <1>3, <1>4

LEMMA OneCallLive ==
    ASSUME NEW t, OneCall(t)
    PROVE  Live(t) = Effective(t.calls[1].changes)
  <1>1. DOMAIN t.calls = {1} /\ ~t.calls[1].reverted /\ Len(t.calls) = 1
    BY TxCalls DEF OneCall
  <1>2. \A c : c \in Below(t.calls, 2) <=> c \in Effective(t.calls[1].changes)
    BY <1>1, BelowIs
  <1>3. Live(t) = Below(t.calls, 2)
    BY <1>1 DEF Live
  <1> QED
    BY <1>2, <1>3

LEMMA OneCallFate ==
    ASSUME NEW t, OneCall(t), NEW w, NEW cancun, NEW made,
           made = IF t.calls[1].type = "create" THEN {t.calls[1].address} ELSE {}
    PROVE  FateAt(t.calls, 2, w, made, {}, cancun) /\ FateAt(t.calls, 1, w, {}, {}, cancun)
  <1>1. DOMAIN t.calls = {1} /\ ~t.calls[1].reverted /\ ~t.calls[1].suicide
    BY TxCalls DEF OneCall
  <1>2. Suicides(t.calls) = {}
    BY <1>1 DEF Suicides, Committed
  <1>3. \A n, m : DoomedBelow(t.calls, n, cancun, m) = {}
    BY <1>2 DEF DoomedBelow
  <1>4. CreatedBelow(t.calls, 1) = {} /\ CreatedBelow(t.calls, 2) = made
    <2>1. \A a : a \in CreatedBelow(t.calls, 2) <=> a \in made
      BY <1>1, CreatedIs
    <2>2. \A a : a \notin CreatedBelow(t.calls, 1)
      BY <1>1, CreatedIs
    <2> QED
      BY <2>1, <2>2
  <1> QED
    BY <1>2, <1>3, <1>4 DEF FateAt

\* Before the root call, nothing has run.
LEMMA FreshTx ==
    ASSUME NEW t, OneCall(t), t.calls[1].type = "call", NEW w, NEW cancun
    PROVE  FateInv(t, <<>>, w, {}, {}, cancun) /\ FramesInv(t, <<>>)
  <1>1. Len(t.calls) + 1 = 2
    BY DEF OneCall
  <1>2. \E g : IsExec(g, t.calls)
    BY OneCallExec
  <1>3. FateAt(t.calls, 2, w, {}, {}, cancun)
    BY OneCallFate
  <1>4. DOMAIN <<>> = {}
    OBVIOUS
  <1> QED
    BY <1>1, <1>2, <1>3, <1>4 DEF FateInv, FramesInv

LEMMA OneCallInv ==
    ASSUME NEW t, OneCall(t), NEW n, t.begin <= n,
           t.begin > 0 => t.calls[1].address \in Accounts,
           \A c \in t.calls[1].changes : 0 < c.ordinal /\ c.ordinal <= n
    PROVE  CallsInv(t, n)
  <1>1. DOMAIN t.calls = {1} /\ Len(t.calls) = 1 /\ t.calls[1].type # "delegate"
    BY TxCalls DEF OneCall
  <1> QED
    BY <1>1 DEF CallsInv

\* The transaction t, of one call, with the changes X of authority a added.
Authorized(u, t, a, X) ==
    /\ OneCall(u) /\ u.begin = t.begin /\ u.from = t.from /\ u.nonce = t.nonce
    /\ u.authorities = t.authorities \cup {a} /\ u.calls[1].type = t.calls[1].type
    /\ u.calls[1].changes = t.calls[1].changes \cup X

LEMMA AuthorizeIs ==
    ASSUME NEW t, OneCall(t), NEW X \in SUBSET Changes, NEW a \in Accounts, NEW u,
           u = [t EXCEPT !.authorities = @ \cup {a}, !.calls[1].changes = @ \cup X]
    PROVE  Authorized(u, t, a, X)
  <1>1. t \in Transactions /\ Len(t.calls) = 1 /\ t.calls \in Seq(Calls) /\ t.calls[1] \in Calls
        /\ DOMAIN t.calls = 1..1 /\ t.calls[1].type # "delegate"
        /\ ~t.calls[1].reverted /\ ~t.calls[1].suicide
    BY TxCalls DEF OneCall
  <1> DEFINE c == [t.calls[1] EXCEPT !.changes = @ \cup X]
             d == [t.calls EXCEPT ![1] = c]
  <1>2. c \in Calls /\ c.type = t.calls[1].type /\ c.changes = t.calls[1].changes \cup X
        /\ c.reverted = t.calls[1].reverted /\ c.suicide = t.calls[1].suicide
    BY <1>1 DEF Calls
  <1>3. d \in Seq(Calls) /\ Len(d) = 1 /\ d[1] = c
    BY <1>1, <1>2
  <1>4. u = [t EXCEPT !.authorities = @ \cup {a}, !.calls = d]
    BY <1>1 DEF Transactions
  <1> HIDE DEF c, d
  <1>5. u \in Transactions /\ u.calls = d /\ u.from = t.from /\ u.nonce = t.nonce
        /\ u.authorities = t.authorities \cup {a} /\ u.begin = t.begin
    <2> DEFINE A == t.authorities \cup {a}
    <2>1. A \in SUBSET Accounts
      BY <1>1 DEF Transactions
    <2>2. u = [t EXCEPT !.authorities = A, !.calls = d]
      BY <1>4
    <2> HIDE DEF A
    <2>3. u \in Transactions /\ u.calls = d /\ u.from = t.from /\ u.nonce = t.nonce
          /\ u.authorities = A /\ u.begin = t.begin
      BY <1>1, <1>3, <2>1, <2>2 DEF Transactions
    <2> QED
      BY <2>3 DEF A
  <1> QED
    BY <1>1, <1>2, <1>3, <1>5 DEF OneCall, Authorized

\* u is the idle transaction t once its root call has begun, at ordinal n.
Begins(u, t, type, a, X, n) ==
    /\ OneCall(u) /\ u.begin = n /\ u.from = t.from /\ u.nonce = t.nonce
    /\ u.authorities = t.authorities /\ u.calls[1].type = type /\ u.calls[1].address = a
    /\ u.calls[1].changes = t.calls[1].changes \cup X

LEMMA BeginRootIs ==
    ASSUME NEW t, OneCall(t), NEW X \in SUBSET Changes, NEW a \in Accounts, NEW u,
           NEW type \in {"call", "create"}, NEW n \in Nat,
           u = [t EXCEPT !.begin = n, !.calls[1].type = type,
                         !.calls[1].address = a, !.calls[1].changes = @ \cup X]
    PROVE  Begins(u, t, type, a, X, n)
  <1>1. t \in Transactions /\ Len(t.calls) = 1 /\ t.calls \in Seq(Calls) /\ t.calls[1] \in Calls
        /\ DOMAIN t.calls = 1..1 /\ ~t.calls[1].reverted /\ ~t.calls[1].suicide
    BY TxCalls DEF OneCall
  <1> DEFINE c == [t.calls[1] EXCEPT !.type = type, !.address = a, !.changes = @ \cup X]
             d == [t.calls EXCEPT ![1] = c]
  <1>2. c \in Calls /\ c.type = type /\ c.address = a /\ c.changes = t.calls[1].changes \cup X
        /\ c.reverted = t.calls[1].reverted /\ c.suicide = t.calls[1].suicide
    BY <1>1 DEF Calls
  <1>3. d \in Seq(Calls) /\ Len(d) = 1 /\ d[1] = c
    BY <1>1, <1>2
  <1> DEFINE e == [t.calls EXCEPT ![1].type = type, ![1].address = a, ![1].changes = @ \cup X]
  <1>6. e = d
    BY <1>1 DEF Calls
  <1>7. u.calls = e
    BY DEF OneCall, Transactions
  <1>4. u.calls = d
    BY <1>6, <1>7
  <1> HIDE DEF c, d, e
  <1>8. u \in Transactions
    BY <1>1, <1>3, <1>4 DEF Transactions
  <1>5. u.from = t.from /\ u.nonce = t.nonce /\ u.authorities = t.authorities /\ u.begin = n
    BY <1>1 DEF Transactions
  <1> QED
    BY <1>1, <1>2, <1>3, <1>4, <1>5, <1>8 DEF OneCall, Begins

\* c records that account a's nonce is incremented after ordinal n.
Increments(c, w, v, a, n) ==
    /\ c = Change("nonce", a, None, w[a]["nonce"], w[a].nonce + 1, n + 1, None)
    /\ v = [w EXCEPT ![a].nonce = @ + 1]

LEMMA NonceRecord ==
    ASSUME NEW w \in Worlds, NEW a \in Accounts, NEW n \in Nat, NEW c, NEW v,
           Increments(c, w, v, a, n)
    PROVE  /\ Records(c, w, v) /\ v \in Worlds /\ c \in Changes
           /\ Recorded({c}, w, v, n, n + 1)
  <1>1. w[a].nonce \in Nat /\ w[a] \in AccountStates
    BY DEF Worlds, AccountStates
  <1> DEFINE x == w[a].nonce + 1
             o == n + 1
  <1>2. x \in Nat /\ o \in Nat /\ n < o /\ o <= o
    BY <1>1
  <1>3. v = [w EXCEPT ![a].nonce = x]
    BY <1>1 DEF Worlds, Increments
  <1>4. c = Change("nonce", a, None, w[a]["nonce"], x, o, None)
    BY DEF Increments
  <1> HIDE DEF x, o
  <1>5. v \in Worlds /\ Updated(w, v, "nonce", a, None, x)
    <2>1. LET z == [w EXCEPT ![a].nonce = x]
          IN  z \in Worlds /\ Updated(w, z, "nonce", a, None, x)
      BY <1>2, SetNonce
    <2> QED
      BY <1>3, <2>1
  <1>6. /\ Records(c, w, v) /\ c.kind = "nonce" /\ c.address = a /\ c.slot = None
        /\ c.old = w[a].nonce /\ c.new = x /\ c.ordinal = o /\ c.reason = None
    <2>1. "nonce" \in {"balance", "nonce", "code"} /\ None \in Reasons /\ x \in Nat \cup Codes
      BY <1>2 DEF Reasons
    <2>2. w \in Worlds /\ a \in Accounts /\ o \in Nat
      BY <1>2
    <2>3. FieldWrite(c, w, v, "nonce", a, x, o, None)
      BY ONLY <1>4, <1>5 DEF FieldWrite
    <2> QED
      BY ONLY <2>1, <2>2, <2>3, FieldRecord
  <1>7. c \in Changes /\ None # "gas"
    BY <1>6, TraceAssumption DEF Records
  <1>9. Recorded({c}, w, v, n, o)
    BY <1>2, <1>6, <1>7 DEF Recorded
  <1> QED
    BY <1>5, <1>6, <1>7, <1>9 DEF x, o

\* d records that a field of account a becomes x, just after its nonce.
NextField(d, w, kind, a, x, n, reason) ==
    d = Change(kind, a, None, At(w, kind, a, None), x, n + 2, reason)

\* The records X, made after ordinal n, tell how the state w became v.
Reaches(X, w, v, n) ==
    \A base, C, D : Earlier(C, D, n) /\ Reflects(w, base, C, D)
                    => Reflects(v, base, C \cup Effective(X), D)

\* The nonce of an account and then another of its fields.
LEMMA NonceAndField ==
    ASSUME NEW w \in Worlds, NEW a \in Accounts, NEW n \in Nat, NEW c, NEW mid, NEW v,
           Increments(c, w, mid, a, n),
           NEW kind \in {"balance", "code"}, NEW x \in Nat \cup Codes, NEW reason \in Reasons,
           Updated(mid, v, kind, a, None, x), NEW d,
           NextField(d, w, kind, a, x, n, reason)
    PROVE  d \in Changes /\ Reaches({c, d}, w, v, n)
  <1>1. /\ Records(c, w, mid) /\ mid \in Worlds /\ c \in Changes /\ c.ordinal = n + 1
        /\ c.kind = "nonce"
    <2>1. Records(c, w, mid) /\ mid \in Worlds /\ c \in Changes
      BY NonceRecord
    <2>2. c.kind = "nonce" /\ c.ordinal = n + 1
      BY DEF Increments, Change
    <2> QED
      BY <2>1, <2>2
  <1> DEFINE o == n + 1
             p == n + 2
  <1>2. o \in Nat /\ p \in Nat /\ n < o /\ o < p /\ n <= o
    OBVIOUS
  <1>3. d = Change(kind, a, None, mid[a][kind], x, p, reason) /\ c.ordinal = o
    <2>1. IsKey(kind, a, None) /\ kind \in Kinds /\ kind # "storage" /\ kind # "nonce"
      BY DEF IsKey, Kinds
    <2>2. At(mid, kind, a, None) = At(w, kind, a, None)
      BY <1>1, <2>1 DEF Records, Updated
    <2>3. At(mid, kind, a, None) = mid[a][kind]
      BY <2>1 DEF At
    <2> HIDE DEF p
    <2>4. d = Change(kind, a, None, mid[a][kind], x, p, reason)
      BY <2>2, <2>3 DEF p, NextField
    <2> QED
      BY <1>1, <2>4
  <1> HIDE DEF p, o
  <1>4. /\ Records(d, mid, v) /\ d.kind = kind /\ d.address = a /\ d.ordinal = p
        /\ d.reason = reason
    <2>1. /\ mid \in Worlds /\ kind \in {"balance", "nonce", "code"} /\ a \in Accounts
          /\ x \in Nat \cup Codes /\ p \in Nat /\ reason \in Reasons
      BY <1>1, <1>2
    <2>2. Updated(mid, v, kind, a, None, x)
      OBVIOUS
    <2>3. FieldWrite(d, mid, v, kind, a, x, p, reason)
      BY ONLY <1>3, <2>2 DEF FieldWrite
    <2> QED
      BY ONLY <2>1, <2>3, FieldRecord
  <1>5. d \in Changes
    BY <1>4 DEF Records
  <1>6. ASSUME NEW base, NEW C, NEW D, Earlier(C, D, n), Reflects(w, base, C, D)
        PROVE  Reflects(v, base, C \cup Effective({c, d}), D)
    <2>1. C \in SUBSET Changes /\ (\A e \in C : e.ordinal <= n)
          /\ \A g \in D : g.ordinal \in Nat /\ g.ordinal <= n
      BY <1>6 DEF Earlier
    <2>2. Reflects(mid, base, C \cup Effective({c}), D)
      BY <1>1, <1>2, <1>3, <1>6, <2>1, RecordReflected
    <2> DEFINE E == C \cup Effective({c})
    <2>3. E \in SUBSET Changes /\ \A e \in E : e.ordinal <= o
      BY <1>1, <1>2, <1>3, <2>1 DEF Effective, Changes
    <2>4. \A g \in D : g.ordinal \in Nat /\ g.ordinal <= o
      BY <1>2, <2>1
    <2>5. E \cup Effective({d}) = C \cup Effective({c, d})
      BY DEF Effective
    <2> HIDE DEF E
    <2>6. Reflects(mid, base, E, D)
      BY <2>2 DEF E
    <2>7. Reflects(v, base, E \cup Effective({d}), D)
      BY <1>2, <1>4, <2>3, <2>4, <2>6, RecordReflected
    <2> QED
      BY <2>5, <2>7
  <1> QED
    BY <1>5, <1>6 DEF Reaches

\* A step of a transaction before its root call.
LEMMA IdleStep ==
    ASSUME TraceInv, OneCall(tx'), tx'.begin = 0, tx'.calls[1].type = "call",
           frames' = <<>>, created' = {}, doomed' = {}, ~halted, world' \in Worlds,
           ordinal' \in Nat, ordinal <= ordinal',
           \A c \in tx'.calls[1].changes : 0 < c.ordinal /\ c.ordinal <= ordinal',
           RootInv(tx'),
           \/ Rejected(block)
           \/ Reflects(world', Base, Settled(block) \cup Effective(tx'.calls[1].changes),
                       AllDeletions(block)),
           UNCHANGED <<block, halted, output, work>>
    PROVE  TraceInv'
  <1>1. tx' \in Transactions /\ tx' # None /\ Len(tx'.calls) = 1
        /\ ~tx'.calls[1].reverted /\ ~tx'.calls[1].suicide
    BY TraceAssumption DEF OneCall
  <1>2. frames' \in Seq(Frames) /\ created' \in SUBSET Accounts /\ doomed' \in SUBSET Accounts
    OBVIOUS
  <1>3. IdleInv'
    BY <1>1 DEF IdleInv
  <1>4. CallsInv(tx', ordinal')
    <2>1. tx'.begin <= ordinal'
      OBVIOUS
    <2> QED
      BY <2>1, OneCallInv
  <1>5. FateInv(tx', frames', world', created', doomed', block.cancun) /\ FramesInv(tx', frames')
    BY FreshTx
  <1>6. \/ Rejected(block)
        \/ WorldInv(world', Base, Settled(block), AllDeletions(block), tx', frames')
    <2>1. CASE Reflects(world', Base, Settled(block) \cup Effective(tx'.calls[1].changes),
                       AllDeletions(block))
      <3>1. Live(tx') = Effective(tx'.calls[1].changes)
        BY OneCallLive
      <3>2. DOMAIN frames' = {}
        OBVIOUS
      <3> QED
        BY <2>1, <3>1, <3>2 DEF WorldInv
    <2> QED
      BY <2>1
  <1> QED
    BY <1>1, <1>2, <1>3, <1>4, <1>5, <1>6, TxStep

\* What a block has recorded, and that the state reflects it between transactions.
LEMMA OpenBlock ==
    ASSUME TraceInv
    PROVE  /\ ordinal \in Nat /\ world \in Worlds /\ block \in Blocks
           /\ Earlier(Settled(block), AllDeletions(block), ordinal)
           /\ tx = None => /\ frames = <<>> /\ created = {} /\ doomed = {}
                           /\ \/ halted \/ Rejected(block)
                              \/ Reflects(world, Base, Settled(block), AllDeletions(block))
  <1>1. Earlier(Settled(block), AllDeletions(block), ordinal)
    BY DEF TraceInv, BlockInv, Earlier, DeletionRecords
  <1>2. tx = None => \/ halted \/ Rejected(block)
                     \/ Reflects(world, Base, Settled(block), AllDeletions(block))
    BY DEF TraceInv, StateInv
  <1> QED
    BY <1>1, <1>2 DEF TraceInv, TypeInv, IdleInv

\* The transaction BeginTx starts.
NewTx(from, nonce, X) ==
    [status |-> None, from |-> from, authorities |-> {}, begin |-> 0, end |-> 0,
     nonce |-> nonce, calls |-> <<Call("call", None, 0, X)>>]

LEMMA NewTxIs ==
    ASSUME NEW from \in Accounts \cup {None}, NEW nonce \in Nat, NEW X \in SUBSET Changes, NEW t,
           t = NewTx(from, nonce, X)
    PROVE  /\ OneCall(t) /\ t.begin = 0 /\ t.from = from /\ t.nonce = nonce
           /\ t.calls[1].type = "call" /\ t.calls[1].changes = X
  <1> DEFINE c == Call("call", None, 0, X)
  <1>1. /\ c \in Calls /\ c.type = "call" /\ c.changes = X /\ ~c.reverted /\ ~c.suicide
    BY DEF Call, Calls
  <1>2. t = [status |-> None, from |-> from, authorities |-> {}, begin |-> 0, end |-> 0,
             nonce |-> nonce, calls |-> <<c>>]
    BY DEF NewTx
  <1> HIDE DEF c
  <1>3. <<c>> \in Seq(Calls) /\ Len(<<c>>) = 1 /\ <<c>>[1] = c
    BY <1>1
  <1>4. t \in Transactions /\ t.calls = <<c>>
    BY <1>2, <1>3 DEF Transactions
  <1> QED
    BY <1>1, <1>2, <1>3, <1>4 DEF OneCall

\* The sender's nonce increment c comes before the other changes X.
FirstNonce(t, c, X) ==
    /\ t.begin = 0 /\ OwnNonce(t, c) /\ c.ordinal \in Nat /\ t.calls[1].changes = {c} \cup X
    /\ \A d \in X : /\ d.kind = "balance" /\ d.reason = "gas"
                    /\ d.ordinal \in Nat /\ c.ordinal < d.ordinal

LEMMA NewRoot ==
    ASSUME NEW t, NEW c, NEW X, FirstNonce(t, c, X)
    PROVE  RootInv(t)
  BY DEF RootInv, FirstNonce

LEMMA BeginNoneStep ==
    ASSUME TraceInv, BeginTx(None)
    PROVE  TraceInv'
  <1>1. tx = None /\ ~halted /\ UNCHANGED <<block, frames, created, doomed, halted, output, work>>
    BY DEF BeginTx, Open
  <1>2. ordinal' \in Nat /\ ordinal <= ordinal' /\ ordinal \in Nat
    BY OpenBlock DEF BeginTx, Tick
  <1>3. tx' = NewTx(None, 0, {}) /\ world' = world
    BY DEF BeginTx, NewTx
  <1>4. /\ OneCall(tx') /\ tx'.begin = 0 /\ tx'.from = None
        /\ tx'.calls[1].type = "call" /\ tx'.calls[1].changes = {}
    BY <1>3, NewTxIs
  <1>5. RootInv(tx')
    BY <1>4 DEF RootInv
  <1>6. \/ Rejected(block)
        \/ Reflects(world', Base, Settled(block) \cup Effective(tx'.calls[1].changes),
                    AllDeletions(block))
    <2>1. Settled(block) \cup Effective({}) = Settled(block)
      BY DEF Effective
    <2> QED
      BY <1>1, <1>3, <1>4, <2>1, OpenBlock
  <1> QED
    BY <1>1, <1>2, <1>3, <1>4, <1>5, <1>6, IdleStep, OpenBlock

LEMMA BeginTxStep ==
    ASSUME TraceInv, NEW from \in Accounts \cup {None}, BeginTx(from)
    PROVE  TraceInv'
  <1>0. CASE from = None
    BY <1>0, BeginNoneStep
  <1>1. CASE from # None
    <2> DEFINE n == world[from].nonce
               c == Change("nonce", from, None, world[from]["nonce"], world[from].nonce + 1,
                           ordinal + 1, None)
               mid == [world EXCEPT ![from].nonce = @ + 1]
               pays == "gas" \in work.ops
    <2>1. /\ from \in Accounts /\ world \in Worlds /\ ordinal \in Nat /\ tx = None /\ ~halted
          /\ n \in Nat /\ world[from].balance \in Nat
          /\ UNCHANGED <<block, frames, created, doomed, halted, output, work>>
      BY <1>1, OpenBlock DEF BeginTx, Open, Worlds, AccountStates
    <2>2. frames' = <<>> /\ created' = {} /\ doomed' = {}
      BY <2>1, OpenBlock
    <2>3. Increments(c, world, mid, from, ordinal)
      BY DEF Increments
    <2>4. Records(c, world, mid) /\ mid \in Worlds /\ c \in Changes
          /\ Recorded({c}, world, mid, ordinal, ordinal + 1)
      BY <2>1, <2>3, NonceRecord
    <2>5. c.ordinal = ordinal + 1 /\ c.kind = "nonce" /\ c.address = from
          /\ c.old = n /\ c.new = n + 1
      BY DEF Change
    <2>6. \/ Rejected(block)
          \/ Reflects(world, Base, Settled(block), AllDeletions(block))
      BY <2>1, OpenBlock
    <2>7. Earlier(Settled(block), AllDeletions(block), ordinal)
      BY OpenBlock
    <2>8. CASE ~pays
      <3>1. tx' = NewTx(from, n, {c}) /\ ordinal' = ordinal + 1
        BY <1>1, <2>1, <2>8 DEF BeginTx, NewTx, Field, Tick
      <3>2. world' = mid
        <4>1. world' = [world EXCEPT ![from].nonce = @ + 1, ![from].balance = @]
          BY <1>1, <2>1, <2>8 DEF BeginTx
        <4> QED
          BY <2>1, <4>1 DEF Worlds, AccountStates
      <3> HIDE DEF c, mid, n
      <3>3. /\ OneCall(tx') /\ tx'.begin = 0 /\ tx'.from = from /\ tx'.nonce = n
            /\ tx'.calls[1].type = "call" /\ tx'.calls[1].changes = {c}
        <4>1. {c} \in SUBSET Changes /\ n \in Nat /\ from \in Accounts \cup {None}
          BY <2>1, <2>4
        <4>2. tx' = NewTx(from, n, {c})
          BY <3>1
        <4> QED
          BY ONLY <4>1, <4>2, NewTxIs
      <3>4. RootInv(tx')
        <4>1. OwnNonce(tx', c) /\ c.ordinal \in Nat
          BY <2>1, <2>5, <3>3 DEF OwnNonce
        <4>2. FirstNonce(tx', c, {})
          BY <3>3, <4>1 DEF FirstNonce
        <4> QED
          BY <4>2, NewRoot
      <3>5. \A e \in tx'.calls[1].changes : 0 < e.ordinal /\ e.ordinal <= ordinal'
        <4>1. 0 < c.ordinal /\ c.ordinal <= ordinal'
          BY <2>1, <2>5, <3>1
        <4> QED
          BY <3>3, <4>1
      <3>6. \/ Rejected(block)
            \/ Reflects(world', Base, Settled(block) \cup Effective(tx'.calls[1].changes),
                        AllDeletions(block))
        <4>1. CASE Reflects(world, Base, Settled(block), AllDeletions(block))
          <5> DEFINE C == Settled(block)
                     D == AllDeletions(block)
                     m == ordinal + 1
          <5>1. C \in SUBSET Changes /\ (\A e \in C : e.ordinal <= ordinal)
                /\ \A d \in D : d.ordinal \in Nat /\ d.ordinal <= ordinal
            BY <2>7 DEF Earlier
          <5>2. Reflects(world, Base, C, D) /\ Recorded({c}, world, mid, ordinal, m)
            BY <2>4, <4>1
          <5> HIDE DEF C, D, m
          <5>3. Reflects(mid, Base, C \cup Effective({c}), D)
            BY <2>1, <5>1, <5>2, RecordedReflected
          <5> QED
            BY <3>2, <3>3, <5>3 DEF C, D
        <4> QED
          BY <2>6, <4>1
      <3>7. ordinal' \in Nat /\ ordinal <= ordinal' /\ world' \in Worlds
        BY <2>1, <2>4, <3>1, <3>2
      <3> QED
        BY <2>1, <2>2, <3>3, <3>4, <3>5, <3>6, <3>7, IdleStep
    <2>9. CASE pays
      <3>0. PICK b \in 0..MaxValue :
               /\ tx' = NewTx(from, n, {c} \cup {Field("balance", from, b, ordinal + 2, "gas")})
               /\ world' = [world EXCEPT ![from].nonce = @ + 1, ![from].balance = b]
        BY <1>1, <2>1, <2>9 DEF BeginTx, NewTx, Field
      <3> DEFINE d == Change("balance", from, None, world[from]["balance"], b, ordinal + 2, "gas")
      <3>1. tx' = NewTx(from, n, {c, d}) /\ ordinal' = ordinal + 2
        <4>1. {c} \cup {Field("balance", from, b, ordinal + 2, "gas")} = {c, d}
          BY DEF Field
        <4>2. Tick(2)
          BY <1>1, <2>9 DEF BeginTx
        <4> QED
          BY <3>0, <4>1, <4>2 DEF Tick
      <3>2. world' = [mid EXCEPT ![from].balance = b]
        BY <2>1, <3>0 DEF Worlds
      <3>3. b \in Nat
        BY TraceAssumption
      <3>4. world' \in Worlds /\ Updated(mid, world', "balance", from, None, b)
        BY <2>1, <2>4, <3>2, <3>3, SetBalance
      <3>5. d.ordinal = ordinal + 2 /\ d.kind = "balance" /\ d.reason = "gas"
        BY DEF Change
      <3>6. d \in Changes /\ Reaches({c, d}, world, world', ordinal)
        <4> DEFINE kind == "balance"
                   reason == "gas"
        <4>1. kind \in {"balance", "code"} /\ b \in Nat \cup Codes /\ reason \in Reasons
              /\ from \in Accounts /\ world \in Worlds /\ ordinal \in Nat
          BY <2>1, <3>3 DEF Reasons
        <4>2. NextField(d, world, kind, from, b, ordinal, reason)
          BY DEF At, NextField
        <4>3. Updated(mid, world', kind, from, None, b)
          BY <3>4
        <4> HIDE DEF kind, reason, c, d, mid
        <4> QED
          BY ONLY <2>3, <4>1, <4>2, <4>3, NonceAndField
      <3> HIDE DEF c, mid, n, d
      <3>7. /\ OneCall(tx') /\ tx'.begin = 0 /\ tx'.from = from /\ tx'.nonce = n
            /\ tx'.calls[1].type = "call" /\ tx'.calls[1].changes = {c, d}
        <4>1. {c, d} \in SUBSET Changes /\ n \in Nat /\ from \in Accounts \cup {None}
          BY <2>1, <2>4, <3>6
        <4>2. tx' = NewTx(from, n, {c, d})
          BY <3>1
        <4> QED
          BY ONLY <4>1, <4>2, NewTxIs
      <3>8. RootInv(tx')
        <4>1. OwnNonce(tx', c) /\ c.ordinal \in Nat
          BY <2>1, <2>5, <3>7 DEF OwnNonce
        <4>2. d.ordinal \in Nat /\ c.ordinal < d.ordinal
          BY <2>1, <2>5, <3>5
        <4>3. FirstNonce(tx', c, {d})
          BY <3>5, <3>7, <4>1, <4>2 DEF FirstNonce
        <4> QED
          BY <4>3, NewRoot
      <3>9. \A e \in tx'.calls[1].changes : 0 < e.ordinal /\ e.ordinal <= ordinal'
        <4>1. 0 < c.ordinal /\ c.ordinal <= ordinal' /\ 0 < d.ordinal /\ d.ordinal <= ordinal'
          BY <2>1, <2>5, <3>1, <3>5
        <4> QED
          BY <3>7, <4>1
      <3>10. \/ Rejected(block)
             \/ Reflects(world', Base, Settled(block) \cup Effective(tx'.calls[1].changes),
                         AllDeletions(block))
        BY <2>6, <2>7, <3>6, <3>7 DEF Reaches
      <3>11. ordinal' \in Nat /\ ordinal <= ordinal'
        BY <2>1, <3>1
      <3> QED
        BY <2>1, <2>2, <3>4, <3>7, <3>8, <3>9, <3>10, <3>11, IdleStep
    <2> QED
      BY <2>8, <2>9
  <1> QED
    BY <1>0, <1>1

\* A transaction whose root call has not begun.
LEMMA IdleTx ==
    ASSUME TraceInv, tx # None, tx.begin = 0
    PROVE  /\ OneCall(tx) /\ tx \in Transactions /\ tx.calls[1].type = "call" /\ ~halted
           /\ frames = <<>> /\ created = {} /\ doomed = {}
           /\ RootInv(tx) /\ CallsInv(tx, ordinal)
           /\ tx.calls[1].changes \in SUBSET Changes
           /\ \A c \in tx.calls[1].changes :
                 c.ordinal \in Nat /\ 0 < c.ordinal /\ c.ordinal <= ordinal
           /\ Live(tx) = Effective(tx.calls[1].changes)
           /\ Earlier(Settled(block) \cup Live(tx), AllDeletions(block), ordinal)
           /\ \/ Rejected(block)
              \/ Reflects(world, Base, Settled(block) \cup Live(tx), AllDeletions(block))
  <1>1. tx \in Transactions /\ ordinal \in Nat
    BY DEF TraceInv, TypeInv
  <1>2. /\ frames = <<>> /\ created = {} /\ doomed = {} /\ ~halted
        /\ Len(tx.calls) = 1 /\ tx.calls[1].type = "call"
        /\ ~tx.calls[1].reverted /\ ~tx.calls[1].suicide
    BY DEF TraceInv, IdleInv
  <1>3. OneCall(tx)
    BY <1>1, <1>2 DEF OneCall
  <1>4. RootInv(tx) /\ CallsInv(tx, ordinal)
    BY DEF TraceInv, TxInv
  <1>5. tx.calls[1].changes \in SUBSET Changes /\ 1 \in DOMAIN tx.calls
    BY <1>1, <1>2, TxCalls
  <1>6. \A c \in tx.calls[1].changes : c.ordinal \in Nat /\ 0 < c.ordinal /\ c.ordinal <= ordinal
    BY <1>4, <1>5 DEF CallsInv, Changes
  <1>7. Live(tx) = Effective(tx.calls[1].changes)
    BY <1>3, OneCallLive
  <1>8. Live(tx) \in SUBSET Changes /\ \A c \in Live(tx) : c.ordinal <= ordinal
    BY <1>5, <1>6, <1>7 DEF Effective
  <1>9. Earlier(Settled(block) \cup Live(tx), AllDeletions(block), ordinal)
    BY <1>8, OpenBlock DEF Earlier
  <1>10. \/ Rejected(block)
         \/ Reflects(world, Base, Settled(block) \cup Live(tx), AllDeletions(block))
    BY <1>2 DEF TraceInv, StateInv, WorldInv
  <1> QED
    BY <1>1, <1>2, <1>3, <1>4, <1>5, <1>6, <1>7, <1>9, <1>10

\* u is t with the records X of an authorization, made after ordinal n.
Authorizes(u, t, X, n) ==
    /\ n \in Nat /\ t.begin = 0 /\ u.begin = 0 /\ u.from = t.from /\ u.nonce = t.nonce
    /\ t.authorities \subseteq u.authorities
    /\ u.calls[1].changes = t.calls[1].changes \cup X
    /\ \A c \in t.calls[1].changes : c.ordinal \in Nat /\ c.ordinal <= n
    /\ \A c \in X : /\ c.kind \in {"nonce", "code"} /\ c.address \in u.authorities
                    /\ c.ordinal \in Nat /\ n < c.ordinal

LEMMA AuthorizeRoot ==
    ASSUME NEW t, NEW u, NEW X, NEW n, Authorizes(u, t, X, n), RootInv(t)
    PROVE  RootInv(u)
  <1> DEFINE A == t.calls[1].changes
             B == u.calls[1].changes
  <1>1. /\ n \in Nat /\ t.begin = 0 /\ u.begin = 0 /\ u.from = t.from /\ u.nonce = t.nonce
        /\ B = A \cup X
    BY DEF Authorizes
  <1>2. \A c \in A : c.ordinal \in Nat /\ c.ordinal <= n
    BY DEF Authorizes
  <1>3. \A c \in X : /\ c.kind \in {"nonce", "code"} /\ c.address \in u.authorities
                     /\ c.ordinal \in Nat /\ n < c.ordinal
    BY DEF Authorizes
  <1>4. \A c \in A : \/ c.kind = "balance" /\ c.reason = "gas"
                     \/ OwnNonce(t, c) /\ \A d \in A : c.ordinal <= d.ordinal
                     \/ c.kind \in {"nonce", "code"} /\ c.address \in t.authorities
    BY <1>1 DEF RootInv
  <1>5. t.from # None => \E c \in A : OwnNonce(t, c) /\ \A d \in A : d = c \/ c.ordinal < d.ordinal
    BY <1>1 DEF RootInv
  <1>6. \A c \in A, d \in X : c.ordinal < d.ordinal
    BY <1>1, <1>2, <1>3
  <1>7. \A c : OwnNonce(t, c) <=> OwnNonce(u, c)
    BY <1>1 DEF OwnNonce
  <1>8. t.authorities \subseteq u.authorities
    BY DEF Authorizes
  <1> HIDE DEF A
  <1>9. ASSUME NEW c \in B
        PROVE  \/ c.kind = "balance" /\ c.reason = "gas"
               \/ OwnNonce(u, c) /\ \A d \in B : c.ordinal <= d.ordinal
               \/ c.kind \in {"nonce", "code"} /\ c.address \in u.authorities
    <2>1. CASE c \in X
      BY <1>3, <2>1
    <2>2. CASE c \in A
      <3>1. CASE OwnNonce(t, c) /\ \A d \in A : c.ordinal <= d.ordinal
        <4>1. \A d \in X : c.ordinal <= d.ordinal
          BY <1>2, <1>3, <1>6, <2>2
        <4>2. \A d \in B : c.ordinal <= d.ordinal
          BY <1>1, <3>1, <4>1
        <4> QED
          BY <1>7, <3>1, <4>2
      <3> QED
        BY <1>4, <1>8, <2>2, <3>1
    <2> QED
      BY <1>1, <2>1, <2>2
  <1>10. u.from # None => \E c \in B : OwnNonce(u, c) /\ \A d \in B : d = c \/ c.ordinal < d.ordinal
    BY <1>1, <1>5, <1>6, <1>7
  <1> QED
    BY <1>1, <1>9, <1>10 DEF RootInv

LEMMA AuthorizeStep ==
    ASSUME TraceInv, NEW a \in Accounts, Authorize(a)
    PROVE  TraceInv'
  <1> DEFINE c == Change("nonce", a, None, world[a]["nonce"], world[a].nonce + 1,
                         ordinal + 1, None)
             mid == [world EXCEPT ![a].nonce = @ + 1]
  <1>1. /\ OneCall(tx) /\ tx \in Transactions /\ tx.calls[1].type = "call" /\ ~halted
        /\ frames = <<>> /\ created = {} /\ doomed = {} /\ tx.begin = 0
        /\ RootInv(tx)
        /\ tx.calls[1].changes \in SUBSET Changes
        /\ \A e \in tx.calls[1].changes : e.ordinal \in Nat /\ 0 < e.ordinal /\ e.ordinal <= ordinal
        /\ Live(tx) = Effective(tx.calls[1].changes)
    BY IdleTx DEF Authorize
  <1>2. ordinal \in Nat /\ world \in Worlds
    BY OpenBlock
  <1>3. ordinal' = ordinal + 2 /\ ordinal' \in Nat /\ ordinal <= ordinal'
    BY <1>2, TickNat DEF Authorize
  <1>4. PICK code \in {None, "delegation"} :
          /\ tx' = [tx EXCEPT !.authorities = @ \cup {a},
                       !.calls[1].changes = @ \cup
                          {c, Field("code", a, code, ordinal + 2, None)}]
          /\ world' = [world EXCEPT ![a].nonce = @ + 1, ![a].code = code]
    BY DEF Authorize, Field
  <1> DEFINE d == Change("code", a, None, world[a]["code"], code, ordinal + 2, None)
  <1>5. tx' = [tx EXCEPT !.authorities = @ \cup {a}, !.calls[1].changes = @ \cup {c, d}]
    BY <1>4 DEF Field
  <1>6. world' = [mid EXCEPT ![a].code = code]
    BY <1>2, <1>4 DEF Worlds
  <1>7. Increments(c, world, mid, a, ordinal)
    BY DEF Increments
  <1>8. mid \in Worlds /\ c \in Changes
    BY <1>2, <1>7, NonceRecord
  <1>9. code \in Codes
    BY <1>4 DEF Codes
  <1>10. world' \in Worlds /\ Updated(mid, world', "code", a, None, code)
    BY <1>6, <1>8, <1>9, SetCode
  <1>11. c.ordinal = ordinal + 1 /\ c.kind = "nonce" /\ c.address = a
    BY DEF Change
  <1>12. d.ordinal = ordinal + 2 /\ d.kind = "code" /\ d.address = a
    BY DEF Change
  <1>13. d \in Changes /\ Reaches({c, d}, world, world', ordinal)
    <2> DEFINE kind == "code"
               reason == None
    <2>1. kind \in {"balance", "code"} /\ code \in Nat \cup Codes /\ reason \in Reasons
          /\ world \in Worlds /\ ordinal \in Nat
      BY <1>2, <1>9 DEF Reasons
    <2>2. NextField(d, world, kind, a, code, ordinal, reason)
      BY DEF At, NextField
    <2>3. Updated(mid, world', kind, a, None, code)
      BY <1>10
    <2> HIDE DEF kind, reason, c, d, mid
    <2> QED
      BY ONLY <1>7, <2>1, <2>2, <2>3, a \in Accounts, NonceAndField
  <1> HIDE DEF c, mid, d
  <1> DEFINE X == {c, d}
  <1>14. X \in SUBSET Changes
    BY <1>8, <1>13
  <1>15. \A e \in X : /\ e.kind \in {"nonce", "code"} /\ e.address = a
                      /\ e.ordinal \in Nat /\ ordinal < e.ordinal /\ e.ordinal <= ordinal'
    <2>1. /\ c.ordinal \in Nat /\ ordinal < c.ordinal /\ c.ordinal <= ordinal'
          /\ d.ordinal \in Nat /\ ordinal < d.ordinal /\ d.ordinal <= ordinal'
      BY <1>2, <1>3, <1>11, <1>12
    <2> QED
      BY <1>11, <1>12, <2>1
  <1>16. tx' = [tx EXCEPT !.authorities = @ \cup {a}, !.calls[1].changes = @ \cup X]
    BY <1>5
  <1>17. Reaches(X, world, world', ordinal)
    BY <1>13
  <1> HIDE DEF X
  <1>18. /\ OneCall(tx') /\ tx'.begin = tx.begin /\ tx'.from = tx.from /\ tx'.nonce = tx.nonce
         /\ tx'.authorities = tx.authorities \cup {a} /\ tx'.calls[1].type = tx.calls[1].type
         /\ tx'.calls[1].changes = tx.calls[1].changes \cup X
    <2>1. OneCall(tx)
      BY <1>1
    <2>2. Authorized(tx', tx, a, X)
      BY ONLY <1>14, <1>16, <2>1, a \in Accounts, AuthorizeIs
    <2> QED
      BY <2>2 DEF Authorized
  <1>19. RootInv(tx')
    <2>1. \A e \in X : e.address \in tx'.authorities
      BY <1>15, <1>18
    <2>2. Authorizes(tx', tx, X, ordinal)
      BY <1>1, <1>2, <1>15, <1>18, <2>1 DEF Authorizes
    <2> QED
      BY <1>1, <2>2, AuthorizeRoot
  <1>20. \A e \in tx'.calls[1].changes : 0 < e.ordinal /\ e.ordinal <= ordinal'
    <2>1. \A e \in tx.calls[1].changes : 0 < e.ordinal /\ e.ordinal <= ordinal'
      BY <1>1, <1>2, <1>3
    <2>2. \A e \in X : 0 < e.ordinal /\ e.ordinal <= ordinal'
      BY <1>2, <1>15
    <2> QED
      BY <1>18, <2>1, <2>2
  <1>21. \/ Rejected(block)
         \/ Reflects(world', Base, Settled(block) \cup Effective(tx'.calls[1].changes),
                     AllDeletions(block))
    <2> DEFINE S == Settled(block)
               D == AllDeletions(block)
    <2>1. CASE Reflects(world, Base, S \cup Live(tx), D)
      <3>1. Earlier(S \cup Live(tx), D, ordinal)
        BY <1>1, IdleTx DEF Authorize
      <3>2. Reflects(world', Base, (S \cup Live(tx)) \cup Effective(X), D)
        BY <1>17, <2>1, <3>1 DEF Reaches
      <3>3. Effective(tx'.calls[1].changes) = Live(tx) \cup Effective(X)
        BY <1>1, <1>18, EffectiveUnion
      <3>4. (S \cup Live(tx)) \cup Effective(X) = S \cup Effective(tx'.calls[1].changes)
        BY <3>3
      <3> QED
        BY <3>2, <3>4
    <2> QED
      BY <1>1, <2>1, IdleTx DEF Authorize
  <1>22. frames' = <<>> /\ created' = {} /\ doomed' = {} /\ UNCHANGED <<block, halted, output, work>>
    BY <1>1 DEF Authorize
  <1> QED
    BY <1>1, <1>3, <1>10, <1>18, <1>19, <1>20, <1>21, <1>22, IdleStep

\* The changes of t are those before ordinal n, and X are after it.
SplitAt(t, X, n) ==
    /\ t.begin = 0 /\ n \in Nat /\ n > 0
    /\ \A c \in t.calls[1].changes : c.ordinal \in Nat /\ c.ordinal < n
    /\ \A c \in X : c.ordinal \in Nat /\ n < c.ordinal /\ c.reason # "gas"

LEMMA BeginRootRoot ==
    ASSUME NEW t, NEW u, NEW type, NEW a, NEW X, NEW n, Begins(u, t, type, a, X, n),
           SplitAt(t, X, n), RootInv(t)
    PROVE  RootInv(u)
  <1> DEFINE A == t.calls[1].changes
             B == u.calls[1].changes
  <1>1. /\ n \in Nat /\ n > 0 /\ t.begin = 0 /\ u.begin = n /\ u.from = t.from
        /\ u.nonce = t.nonce /\ u.authorities = t.authorities /\ B = A \cup X
    BY DEF Begins, SplitAt
  <1>2. \A c \in A : c.ordinal \in Nat /\ c.ordinal < n
    BY DEF SplitAt
  <1>3. \A c \in X : c.ordinal \in Nat /\ n < c.ordinal /\ c.reason # "gas"
    BY DEF SplitAt
  <1>4. \A c \in A : \/ c.kind = "balance" /\ c.reason = "gas"
                     \/ OwnNonce(t, c) /\ \A d \in A : c.ordinal <= d.ordinal
                     \/ c.kind \in {"nonce", "code"} /\ c.address \in t.authorities
    BY <1>1 DEF RootInv
  <1>5. t.from # None => \E c \in A : OwnNonce(t, c) /\ \A d \in A : d = c \/ c.ordinal < d.ordinal
    BY <1>1 DEF RootInv
  <1>6. \A c \in A, d \in X : c.ordinal < d.ordinal /\ c.ordinal <= d.ordinal
    BY <1>1, <1>2, <1>3
  <1>7. \A c : OwnNonce(t, c) <=> OwnNonce(u, c)
    BY <1>1 DEF OwnNonce
  <1> HIDE DEF A
  <1>8. ASSUME NEW c \in B
        PROVE  IF u.begin = 0 \/ c.ordinal < u.begin
               THEN \/ c.kind = "balance" /\ c.reason = "gas"
                    \/ OwnNonce(u, c) /\ \A d \in B : c.ordinal <= d.ordinal
                    \/ c.kind \in {"nonce", "code"} /\ c.address \in u.authorities
               ELSE u.begin < c.ordinal /\ c.reason # "gas"
    <2>1. CASE c \in X
      BY <1>1, <1>3, <2>1
    <2>2. CASE c \in A
      <3>1. CASE OwnNonce(t, c) /\ \A d \in A : c.ordinal <= d.ordinal
        <4>1. \A d \in B : c.ordinal <= d.ordinal
          BY <1>1, <1>6, <2>2, <3>1
        <4> QED
          BY <1>1, <1>2, <1>7, <2>2, <3>1, <4>1
      <3> QED
        BY <1>1, <1>2, <1>4, <2>2, <3>1
    <2> QED
      BY <1>1, <2>1, <2>2
  <1>9. u.from # None =>
            \E c \in B : /\ OwnNonce(u, c) /\ (u.begin = 0 \/ c.ordinal < u.begin)
                         /\ \A d \in B : d = c \/ c.ordinal < d.ordinal
    BY <1>1, <1>2, <1>5, <1>6, <1>7
  <1> QED
    BY <1>8, <1>9 DEF RootInv

LEMMA BeginRootLive ==
    ASSUME NEW t, OneCall(t), NEW u, NEW type, NEW a, NEW X, NEW n, Begins(u, t, type, a, X, n),
           SplitAt(t, X, n)
    PROVE  Live(u) = Live(t) \cup Effective(X) /\ LiveBelow(u, 1) = Live(t)
  <1>1. Live(t) = Effective(t.calls[1].changes)
    BY OneCallLive
  <1>2. Live(u) = Effective(u.calls[1].changes)
    BY OneCallLive DEF Begins
  <1>3. u.calls[1].changes = t.calls[1].changes \cup X /\ u.begin = n
    BY DEF Begins
  <1>4. Effective(u.calls[1].changes) = Live(t) \cup Effective(X)
    BY <1>1, <1>3, EffectiveUnion
  <1>5. \A c \in Live(t) : c.ordinal < n
    BY <1>1 DEF SplitAt, Effective
  <1>6. \A c \in Effective(X) : ~(c.ordinal < n)
    BY DEF SplitAt, Effective
  <1>7. LiveBelow(u, 1) = {c \in Live(t) \cup Effective(X) : n = 0 \/ c.ordinal < n}
    BY <1>3, <1>4 DEF LiveBelow, BeforeRoot
  <1>8. n # 0
    BY DEF SplitAt
  <1> QED
    BY <1>2, <1>4, <1>5, <1>6, <1>7, <1>8

\* The frame of the root call.
RootFrame(fs, f, a, w) ==
    /\ fs = <<f>> /\ f \in Frames /\ f.call = 1 /\ f.self = a /\ f.world = w
    /\ f.created = {} /\ f.doomed = {}

LEMMA BeginRootFate ==
    ASSUME NEW t, NEW u, NEW type, NEW a, NEW X, NEW n, Begins(u, t, type, a, X, n),
           NEW fs, NEW f, NEW w, RootFrame(fs, f, a, w), NEW v, NEW cancun, NEW made,
           made = IF type = "create" THEN {a} ELSE {}
    PROVE  FateInv(u, fs, v, made, {}, cancun) /\ FramesInv(u, fs)
  <1>1. OneCall(u) /\ u.calls[1].type = type /\ u.calls[1].address = a
    BY DEF Begins
  <1>2. /\ DOMAIN fs = {1} /\ fs[1] = f /\ f.call = 1 /\ f.self = a
        /\ f.created = {} /\ f.doomed = {}
    BY DEF RootFrame
  <1>3. Len(u.calls) + 1 = 2 /\ 1 \in DOMAIN u.calls /\ ~u.calls[1].reverted /\ ~u.calls[1].suicide
    BY <1>1, TxCalls DEF OneCall
  <1>4. (\E g : IsExec(g, u.calls)) /\ ExecutionAddress(u.calls, 1) = a
    BY <1>1, OneCallExec
  <1>5. FateAt(u.calls, 2, v, made, {}, cancun)
    BY <1>1, OneCallFate
  <1>6. FateAt(u.calls, 1, f.world, {}, {}, cancun)
    <2>1. \E m : m = IF u.calls[1].type = "create" THEN {u.calls[1].address} ELSE {}
      OBVIOUS
    <2> QED
      BY <1>1, <2>1, OneCallFate
  <1>7. FateInv(u, fs, v, made, {}, cancun)
    BY <1>2, <1>3, <1>4, <1>5, <1>6 DEF FateInv
  <1>8. FramesInv(u, fs)
    <2>1. \A p \in DOMAIN fs : p = 1
      BY <1>2
    <2>2. \A p \in DOMAIN fs, q \in DOMAIN fs : p < q => FALSE
      BY <2>1
    <2> QED
      BY <1>2, <1>3, <2>1, <2>2 DEF FramesInv
  <1> QED
    BY <1>7, <1>8

LEMMA BeginRootStep ==
    ASSUME TraceInv, NEW type \in {"call", "create"}, NEW a \in Accounts, BeginRoot(type, a)
    PROVE  TraceInv'
  <1> DEFINE c == Change("nonce", a, None, world[a]["nonce"], 1, ordinal + 2, None)
             X == IF type = "create" THEN {c} ELSE {}
             n == ordinal + 1
             f == Frame(1, a, world)
  <1>1. /\ OneCall(tx) /\ tx \in Transactions /\ ~halted
        /\ created = {} /\ doomed = {} /\ tx.begin = 0
        /\ RootInv(tx) /\ CallsInv(tx, ordinal)
        /\ \A e \in tx.calls[1].changes : e.ordinal \in Nat /\ 0 < e.ordinal /\ e.ordinal <= ordinal
    BY IdleTx DEF BeginRoot
  <1>2. ordinal \in Nat /\ world \in Worlds
    BY OpenBlock
  <1>3. ordinal' = IF type = "create" THEN ordinal + 2 ELSE ordinal + 1
    BY DEF BeginRoot, Tick
  <1>4. ordinal' \in Nat /\ n \in Nat /\ n > 0 /\ n <= ordinal' /\ ordinal <= ordinal' /\ ordinal < n
    BY <1>2, <1>3
  <1>5. tx' = [tx EXCEPT !.begin = n, !.calls[1].type = type,
                         !.calls[1].address = a, !.calls[1].changes = @ \cup X]
    BY DEF BeginRoot, Field
  <1>6. world' \in Worlds /\ Recorded(X, world, world', ordinal, ordinal')
        /\ \A e \in X : e.ordinal \in Nat /\ n < e.ordinal /\ e.ordinal <= ordinal'
    <2>1. CASE type = "create"
      <3> DEFINE o == ordinal + 2
      <3>1. o \in Nat /\ ordinal < o /\ o <= ordinal' /\ n < o
        BY <1>2, <1>3, <2>1
      <3>2. world' = [world EXCEPT ![a].nonce = 1]
        BY <2>1 DEF BeginRoot
      <3>3. world' \in Worlds /\ Updated(world, world', "nonce", a, None, 1)
        BY <1>2, <3>2, SetNonce
      <3>4. c = Change("nonce", a, None, world[a]["nonce"], 1, o, None) /\ X = {c}
        BY <2>1
      <3> HIDE DEF o, c, n, X
      <3>5. Records(c, world, world') /\ c.ordinal = o /\ c.reason = None
        <4>1. "nonce" \in {"balance", "nonce", "code"} /\ None \in Reasons /\ 1 \in Nat \cup Codes
          BY <3>1 DEF Reasons
        <4>2. world \in Worlds /\ a \in Accounts /\ o \in Nat
          BY <1>2, <3>1
        <4>3. FieldWrite(c, world, world', "nonce", a, 1, o, None)
          BY ONLY <3>4, <3>3 DEF FieldWrite
        <4> QED
          BY ONLY <4>1, <4>2, <4>3, FieldRecord
      <3>6. None # "gas"
        BY TraceAssumption
      <3> QED
        BY <1>2, <3>1, <3>3, <3>4, <3>5, <3>6 DEF Recorded
    <2>2. CASE type # "create"
      <3>1. world' = world /\ X = {}
        BY <2>2 DEF BeginRoot
      <3> QED
        BY <1>2, <3>1 DEF Recorded
    <2> QED
      BY <2>1, <2>2
  <1>7. frames' = <<f>> /\ RootFrame(frames', f, a, world)
    <2>1. f = [call |-> 1, self |-> a, world |-> world, created |-> {}, doomed |-> {}]
      BY <1>1 DEF Frame
    <2>2. f \in Frames
      BY <1>2, <2>1 DEF Frames
    <2>3. frames' = <<f>>
      BY DEF BeginRoot
    <2> HIDE DEF f
    <2> QED
      BY <2>1, <2>2, <2>3 DEF RootFrame
  <1>8. created' = IF type = "create" THEN {a} ELSE {}
    BY DEF BeginRoot
  <1>9. UNCHANGED <<block, doomed, halted, output, work>>
    BY DEF BeginRoot
  <1> HIDE DEF c, X, n, f
  <1>10. X \in SUBSET Changes /\ \A e \in X : e.reason # "gas"
    BY <1>6, RecordedIs
  <1>11. Begins(tx', tx, type, a, X, n)
    <2>1. OneCall(tx) /\ n \in Nat /\ X \in SUBSET Changes
      BY <1>1, <1>4, <1>10
    <2> QED
      BY ONLY <1>5, <2>1, a \in Accounts, type \in {"call", "create"}, BeginRootIs, ZenonT(30)
  <1>12. SplitAt(tx, X, n)
    <2>1. \A e \in tx.calls[1].changes : e.ordinal \in Nat /\ e.ordinal < n
      BY <1>1, <1>2, <1>4
    <2> QED
      BY <1>1, <1>4, <1>6, <1>10, <2>1 DEF SplitAt
  <1>13. RootInv(tx')
    BY <1>1, <1>11, <1>12, BeginRootRoot
  <1>14. OneCall(tx') /\ tx'.begin = n /\ tx'.calls[1].address = a
         /\ tx'.calls[1].changes = tx.calls[1].changes \cup X
    BY <1>11 DEF Begins
  <1>15. tx' \in Transactions /\ tx' # None
    BY <1>14, TraceAssumption DEF OneCall
  <1>16. CallsInv(tx', ordinal')
    <2>1. \A e \in tx.calls[1].changes : 0 < e.ordinal /\ e.ordinal <= ordinal'
      BY <1>1, <1>2, <1>4
    <2>2. \A e \in X : 0 < e.ordinal /\ e.ordinal <= ordinal'
      BY <1>4, <1>6
    <2>3. \A e \in tx'.calls[1].changes : 0 < e.ordinal /\ e.ordinal <= ordinal'
      BY <1>14, <2>1, <2>2
    <2>4. tx'.begin <= ordinal' /\ tx'.calls[1].address \in Accounts
      BY <1>4, <1>14
    <2> QED
      BY <1>14, <2>3, <2>4, OneCallInv
  <1>17. FateInv(tx', frames', world', created', doomed', block.cancun) /\ FramesInv(tx', frames')
    <2>1. doomed' = {}
      BY <1>1, <1>9
    <2> QED
      BY <1>7, <1>8, <1>11, <2>1, BeginRootFate
  <1>18. IdleInv'
    <2>1. tx'.begin # 0
      BY <1>4, <1>14
    <2> QED
      BY <1>1, <1>9, <1>15, <2>1 DEF IdleInv
  <1>19. frames' \in Seq(Frames) /\ created' \in SUBSET Accounts /\ doomed' \in SUBSET Accounts
    <2>1. f \in Frames
      BY <1>7 DEF RootFrame
    <2> QED
      BY <1>1, <1>7, <1>8, <1>9, <2>1
  <1>20. \/ Rejected(block)
         \/ WorldInv(world', Base, Settled(block), AllDeletions(block), tx', frames')
    <2> DEFINE S == Settled(block)
               D == AllDeletions(block)
    <2>1. CASE Reflects(world, Base, S \cup Live(tx), D)
      <3>1. Live(tx') = Live(tx) \cup Effective(X) /\ LiveBelow(tx', 1) = Live(tx)
        BY <1>1, <1>11, <1>12, BeginRootLive
      <3>2. Earlier(S, D, ordinal)
        BY OpenBlock
      <3>3. Reflects(world', Base, (S \cup Live(tx)) \cup Effective(X), D)
        BY <1>1, <1>2, <1>6, <2>1, <3>2, LiveReflected
      <3>4. S \cup Live(tx') = (S \cup Live(tx)) \cup Effective(X)
        BY <3>1
      <3>5. DOMAIN frames' = {1} /\ frames'[1].call = 1 /\ frames'[1].world = world
        BY <1>7 DEF RootFrame
      <3> HIDE DEF S, D
      <3> QED
        BY <2>1, <3>1, <3>3, <3>4, <3>5 DEF WorldInv, S, D
    <2> QED
      BY <1>1, <2>1, IdleTx DEF BeginRoot
  <1> QED
    BY <1>1, <1>4, <1>6, <1>9, <1>13, <1>15, <1>16, <1>17, <1>18, <1>19, <1>20, TxStep

----------------------------------------------------------------------------
(* What a block records between its transactions                            *)

\* Cancun alone tells, of a block, what its transactions delete.
LEMMA SameCancun ==
    ASSUME NEW b, NEW d, d.cancun = b.cancun
    PROVE  \A t : DeletionsOf(d, t) = DeletionsOf(b, t) /\ (Unordered(d, t) <=> Unordered(b, t))
  <1>1. \A t : Deleting(d, t) = Deleting(b, t)
    BY DEF Deleting
  <1> QED
    BY <1>1 DEF DeletionsOf, Unordered

\* d is the block b with the records X, of no transaction.
Direct(d, b, X) ==
    /\ d \in Blocks /\ d.cancun = b.cancun /\ d.txs = b.txs
    /\ Settled(d) = Settled(b) \cup X
    /\ AllDeletions(d) = AllDeletions(b) /\ (Rejected(b) => Rejected(d))

LEMMA SameTxs ==
    ASSUME NEW b, NEW d, d.cancun = b.cancun, d.txs = b.txs,
           Suicides(b.system) \subseteq Suicides(d.system)
    PROVE  AllDeletions(d) = AllDeletions(b) /\ (Rejected(b) => Rejected(d))
  BY SameCancun DEF AllDeletions, Rejected

LEMMA DirectCall ==
    ASSUME NEW b \in Blocks, NEW c \in Calls, ~c.suicide, NEW d,
           d = [b EXCEPT !.system = Append(@, c)]
    PROVE  Direct(d, b, IF c.reverted THEN {} ELSE Effective(c.changes))
  <1> DEFINE s == b.system
             k == Len(s) + 1
             Y == IF c.reverted THEN {} ELSE Effective(c.changes)
  <1>1. /\ s \in Seq(Calls) /\ d.system = Append(s, c) /\ d \in Blocks
        /\ d.cancun = b.cancun /\ d.txs = b.txs /\ d.changes = b.changes
    <2> DEFINE r == Append(s, c)
    <2>1. s \in Seq(Calls) /\ r \in Seq(Calls) /\ d = [b EXCEPT !.system = r]
      BY DEF Blocks
    <2> HIDE DEF r
    <2>2. d.system = r /\ d \in Blocks /\ d.cancun = b.cancun /\ d.txs = b.txs
          /\ d.changes = b.changes
      BY <2>1 DEF Blocks
    <2> QED
      BY <2>1, <2>2 DEF r
  <1>2. /\ DOMAIN s = 1..Len(s) /\ DOMAIN d.system = 1..k /\ Len(s) \in Nat
        /\ d.system[k] = c /\ \A i \in 1..Len(s) : d.system[i] = s[i]
    BY <1>1
  <1>3. /\ \A i \in DOMAIN s : i \in DOMAIN d.system /\ d.system[i] = s[i]
        /\ \A i \in DOMAIN d.system : i \in DOMAIN s \/ i = k
        /\ k \in DOMAIN d.system
    BY <1>2
  <1> HIDE DEF k, s
  <1>4. UNION {Effective(d.system[i].changes) : i \in Committed(d.system)}
            = (UNION {Effective(s[i].changes) : i \in Committed(s)}) \cup Y
    <2>1. \A e : e \in UNION {Effective(d.system[i].changes) : i \in Committed(d.system)} <=>
                   \E i \in DOMAIN d.system : ~d.system[i].reverted /\ e \in Effective(d.system[i].changes)
      BY DEF Committed
    <2>2. \A e : e \in UNION {Effective(s[i].changes) : i \in Committed(s)} <=>
                   \E i \in DOMAIN s : ~s[i].reverted /\ e \in Effective(s[i].changes)
      BY DEF Committed
    <2>3. \A e : e \in Y <=> ~c.reverted /\ e \in Effective(c.changes)
      OBVIOUS
    <2>4. \A e : (\E i \in DOMAIN d.system : ~d.system[i].reverted
                                             /\ e \in Effective(d.system[i].changes))
                 <=> \/ \E i \in DOMAIN s : ~s[i].reverted /\ e \in Effective(s[i].changes)
                     \/ ~c.reverted /\ e \in Effective(c.changes)
      BY <1>2, <1>3
    <2> HIDE DEF Y
    <2> QED
      BY <2>1, <2>2, <2>3, <2>4
  <1>5. UNION {Persisted(d.txs[i]) : i \in DOMAIN d.txs} = UNION {Persisted(b.txs[i]) : i \in DOMAIN b.txs}
    BY <1>1
  <1> HIDE DEF Y
  <1>6. Settled(d) = Settled(b) \cup Y
    BY <1>1, <1>4, <1>5 DEF Settled, s
  <1>7. Suicides(b.system) \subseteq Suicides(d.system)
    BY <1>3 DEF Suicides, Committed, s
  <1> QED
    BY <1>1, <1>6, <1>7, SameTxs DEF Direct, Y

LEMMA DirectChange ==
    ASSUME NEW b \in Blocks, NEW c \in Changes, NEW d, d = [b EXCEPT !.changes = @ \cup {c}]
    PROVE  Direct(d, b, Effective({c}))
  <1> DEFINE C == b.changes \cup {c}
  <1>0. C \in SUBSET Changes
    BY DEF Blocks
  <1>1. d = [b EXCEPT !.changes = C]
    BY DEF Blocks
  <1> HIDE DEF C
  <1>2. /\ d.system = b.system /\ d \in Blocks
        /\ d.cancun = b.cancun /\ d.txs = b.txs /\ d.changes = C
    <2>1. d.system = b.system /\ d.cancun = b.cancun /\ d.txs = b.txs /\ d.changes = C
      BY <1>1 DEF Blocks
    <2>2. d \in Blocks
      BY <1>0, <1>1, SMTT(30) DEF Blocks
    <2> QED
      BY <2>1, <2>2
  <1>3. Effective(C) = Effective(b.changes) \cup Effective({c})
    BY EffectiveUnion DEF C
  <1>4. Settled(d) = Settled(b) \cup Effective({c})
    BY <1>2, <1>3 DEF Settled
  <1> QED
    BY <1>2, <1>4, SameTxs DEF Direct

LEMMA DirectStep ==
    ASSUME TraceInv, tx = None, ~halted, NEW X, Direct(block', block, X),
           NEW Y, Recorded(Y, world, world', ordinal, ordinal'), X = Effective(Y),
           world' \in Worlds, ordinal' \in Nat, ordinal <= ordinal',
           UNCHANGED <<tx, frames, created, doomed, halted, output, work>>
    PROVE  TraceInv'
  <1>1. TypeInv'
    BY DEF TraceInv, TypeInv, output, Direct
  <1> DEFINE S == Settled(block)
             D == AllDeletions(block)
  <1>2. Settled(block') = S \cup X /\ AllDeletions(block') = D
    BY DEF Direct
  <1>3. Earlier(S, D, ordinal) /\ ordinal \in Nat /\ D \in SUBSET DeletionRecords
    BY OpenBlock DEF TraceInv, BlockInv
  <1>4. Y \in SUBSET Changes /\ \A c \in Y : c.ordinal <= ordinal'
    BY RecordedIs
  <1>5. X \in SUBSET Changes /\ \A c \in X : c.ordinal <= ordinal'
    BY <1>4 DEF Effective
  <1>6. Earlier(S, D, ordinal')
    BY <1>3, EarlierLater
  <1> HIDE DEF S, D
  <1>7. BlockInv(block', ordinal')
    BY <1>2, <1>3, <1>5, <1>6 DEF BlockInv, Earlier
  <1>8. IdleInv' /\ TxInv'
    BY DEF TraceInv, IdleInv, TxInv
  <1>9. StateInv'
    <2>1. Base' = Base
      BY DEF Base, output
    <2>2. CASE Rejected(block)
      BY <2>2 DEF StateInv, Direct
    <2>3. CASE Reflects(world, Base, S, D)
      <3>1. S \in SUBSET Changes /\ (\A e \in S : e.ordinal <= ordinal)
            /\ \A d \in D : d.ordinal \in Nat /\ d.ordinal <= ordinal
        BY <1>3 DEF Earlier
      <3>2. Reflects(world', Base, S \cup Effective(Y), D)
        BY <1>3, <2>3, <3>1, RecordedReflected
      <3>3. Reflects(world', Base, Settled(block'), AllDeletions(block'))
        BY <1>2, <3>2
      <3> QED
        BY <2>1, <3>3 DEF StateInv
    <2> QED
      BY <2>2, <2>3, OpenBlock DEF S, D
  <1> QED
    BY <1>1, <1>7, <1>8, <1>9 DEF TraceInv

LEMMA SystemCallStep ==
    ASSUME TraceInv, NEW a \in Accounts, NEW s \in Slots, NEW x \in Nat, NEW reverted \in BOOLEAN,
           SystemCall(a, s, x, reverted)
    PROVE  TraceInv'
  <1> DEFINE c == Change("storage", a, s, world[a].storage[s], x, ordinal + 1, None)
             e == [Call("call", a, 0, {c}) EXCEPT !.reverted = reverted]
             Y == IF reverted THEN {} ELSE {c}
             v == [world EXCEPT ![a].storage[s] = x]
  <1>1. tx = None /\ ~halted /\ ordinal \in Nat /\ world \in Worlds /\ block \in Blocks
    BY OpenBlock DEF SystemCall, Open
  <1>2. ordinal' = ordinal + 1 /\ ordinal' \in Nat /\ ordinal <= ordinal' /\ ordinal < ordinal'
    BY <1>1, TickNat DEF SystemCall
  <1>3. v \in Worlds /\ Updated(world, v, "storage", a, s, x)
    BY <1>1, SetStorage
  <1>4. Records(c, world, v) /\ c.ordinal = ordinal' /\ c.reason = None
    <2>1. world \in Worlds /\ ordinal' \in Nat
      BY <1>1, <1>2
    <2>2. LET d == Change("storage", a, s, world[a].storage[s], x, ordinal', None)
          IN  Records(d, world, v) /\ d.ordinal = ordinal' /\ d.reason = None
      BY ONLY <1>3, <2>1, a \in Accounts, s \in Slots, x \in Nat, StorageRecord
    <2> QED
      BY <1>2, <2>2
  <1>5. c \in Changes
    BY <1>4 DEF Records
  <1>6. block' = [block EXCEPT !.system = Append(@, e)]
    BY DEF SystemCall
  <1>7. world' = IF reverted THEN world ELSE v
    BY DEF SystemCall
  <1> HIDE DEF c, v
  <1>8. e \in Calls /\ (e.reverted <=> reverted) /\ ~e.suicide /\ e.changes = {c}
    <2>1. {c} \in SUBSET Changes
      BY <1>5
    <2> QED
      BY <2>1 DEF Call, Calls
  <1>9. Direct(block', block, Effective(Y))
    <2>1. Direct(block', block, IF e.reverted THEN {} ELSE Effective(e.changes))
      BY <1>1, <1>6, <1>8, DirectCall
    <2>2. Effective({}) = {}
      BY DEF Effective
    <2> HIDE DEF e
    <2> QED
      BY <1>8, <2>1, <2>2
  <1>10. Recorded(Y, world, world', ordinal, ordinal')
    <2>1. None # "gas"
      BY TraceAssumption
    <2>2. CASE reverted
      BY <1>7, <2>2 DEF Recorded
    <2>3. CASE ~reverted
      BY <1>2, <1>4, <1>7, <2>1, <2>3 DEF Recorded
    <2> QED
      BY <2>2, <2>3
  <1>11. world' \in Worlds
    BY <1>1, <1>3, <1>7
  <1>12. UNCHANGED <<tx, frames, created, doomed, halted, output, work>>
    BY DEF SystemCall
  <1> HIDE DEF Y
  <1> QED
    BY <1>1, <1>2, <1>9, <1>10, <1>11, <1>12, DirectStep

LEMMA RewardStep ==
    ASSUME TraceInv, NEW a \in Accounts, NEW x \in Nat, Reward(a, x)
    PROVE  TraceInv'
  <1> DEFINE c == Change("balance", a, None, world[a]["balance"], x, ordinal + 1, "block")
             Y == {c}
  <1>1. tx = None /\ ~halted /\ ordinal \in Nat /\ world \in Worlds /\ block \in Blocks
    BY OpenBlock DEF Reward, Open
  <1>2. ordinal' = ordinal + 1 /\ ordinal' \in Nat /\ ordinal <= ordinal' /\ ordinal < ordinal'
    BY <1>1, TickNat DEF Reward
  <1>3. world' = [world EXCEPT ![a].balance = x]
    BY DEF Reward
  <1>4. world' \in Worlds /\ Updated(world, world', "balance", a, None, x)
    BY <1>1, <1>3, SetBalance
  <1>5. Records(c, world, world') /\ c.ordinal = ordinal + 1 /\ c.reason = "block"
    <2>1. BalanceChange(c, world, world', a, x, ordinal, "block")
      BY <1>3 DEF BalanceChange
    <2>2. "block" \in Reasons /\ world \in Worlds /\ ordinal \in Nat
      BY <1>1 DEF Reasons
    <2> HIDE DEF c
    <2> QED
      BY ONLY <2>1, <2>2, BalanceRecord, a \in Accounts, x \in Nat DEF Marked
  <1>6. block' = [block EXCEPT !.changes = @ \cup {c}]
    BY DEF Reward, Field
  <1> HIDE DEF c
  <1>7. c \in Changes
    BY <1>5 DEF Records
  <1>8. Direct(block', block, Effective(Y))
    BY <1>1, <1>6, <1>7, DirectChange
  <1>9. Recorded(Y, world, world', ordinal, ordinal')
    BY <1>2, <1>5 DEF Recorded
  <1>10. UNCHANGED <<tx, frames, created, doomed, halted, output, work>>
    BY DEF Reward
  <1> HIDE DEF Y
  <1> QED
    BY <1>1, <1>2, <1>4, <1>8, <1>9, <1>10, DirectStep

----------------------------------------------------------------------------
(* The end of a block                                                       *)

LEMMA NoBlockIs ==
    ASSUME NEW cancun \in BOOLEAN
    PROVE  /\ NoBlock(cancun) \in Blocks
           /\ Settled(NoBlock(cancun)) = {} /\ AllDeletions(NoBlock(cancun)) = {}
  <1> DEFINE b == NoBlock(cancun)
  <1>1. b \in Blocks /\ b.system = <<>> /\ b.changes = {} /\ b.txs = <<>>
    BY DEF NoBlock, Blocks
  <1> HIDE DEF b
  <1>2. Committed(b.system) = {} /\ DOMAIN b.txs = {} /\ Effective(b.changes) = {}
    BY <1>1 DEF Committed, Effective
  <1>3. Settled(b) = {}
    BY <1>2 DEF Settled
  <1>4. AllDeletions(b) = {}
    BY <1>2 DEF AllDeletions
  <1> QED
    BY <1>1, <1>3, <1>4 DEF b

LEMMA ReflectsItself ==
    ASSUME NEW w
    PROVE  Reflects(w, w, {}, {})
  <1>1. \A kind, a, s : OfKey({}, kind, a, s) = {} /\ OfAccount({}, a) = {}
    BY DEF OfKey, OfAccount
  <1>2. \A value, kind : Follows(value, value, kind, {}, {})
    BY DEF Follows
  <1> QED
    BY <1>1, <1>2 DEF Reflects

LEMMA BaseWorld ==
    ASSUME TypeInv
    PROVE  /\ rows \in Seq(Rows) /\ states \in Seq(Worlds) /\ Len(rows) \in Nat
           /\ Len(states) = Len(rows) + 1 /\ Base \in Worlds
  BY DEF TypeInv, Base

\* The state after an accepted block is what its row describes.
LEMMA Accepted ==
    ASSUME TraceInv, tx = None, ~halted, ~Rejected(block)
    PROVE  /\ Reflects(world, Base, Settled(block), AllDeletions(block))
           /\ Describes(Project(block), world, Base) /\ Project(block) \in Rows
           /\ \A trimmed : Upsert(tables, block, trimmed) \in SUBSET Entries
  <1>1. Reflects(world, Base, Settled(block), AllDeletions(block))
    BY OpenBlock
  <1>2. /\ Settled(block) \in SUBSET Changes /\ (\A c \in Settled(block) : c.ordinal <= ordinal)
        /\ AllDeletions(block) \in SUBSET DeletionRecords
        /\ \A d \in AllDeletions(block) : d.ordinal <= ordinal
    BY DEF TraceInv, BlockInv
  <1>3. \A d \in AllDeletions(block) : d.address \in Accounts /\ d.ordinal \in Nat
                                       /\ d.ordinal <= ordinal
    BY <1>2 DEF DeletionRecords
  <1>4. ordinal \in Nat /\ tables \in SUBSET Entries
    BY DEF TraceInv, TypeInv
  <1>5. Describes(Project(block), world, Base)
    BY <1>1, <1>2, <1>3, <1>4, ProjectDescribes
  <1>6. Project(block) \in Rows /\ \A trimmed : Upsert(tables, block, trimmed) \in SUBSET Entries
    BY <1>2, <1>4, ProjectType, UpsertType
  <1> QED
    BY <1>1, <1>5, <1>6

LEMMA EndBlockStep ==
    ASSUME TraceInv, EndBlock
    PROVE  TraceInv'
  <1>1. tx = None /\ ~halted /\ TypeInv /\ world \in Worlds
    BY OpenBlock DEF EndBlock, Open, TraceInv
  <1>2. PICK cancun \in BOOLEAN : block' = NoBlock(cancun)
    BY DEF EndBlock
  <1>3. block' \in Blocks /\ Settled(block') = {} /\ AllDeletions(block') = {}
    BY <1>2, NoBlockIs
  <1>4. ordinal' = 0 /\ UNCHANGED <<world, tx, frames, created, doomed, work>>
    BY DEF EndBlock
  <1>5. BlockInv(block, ordinal)'
    BY <1>3, <1>4 DEF BlockInv
  <1>6. IdleInv'
    BY <1>1, <1>4 DEF TraceInv, IdleInv
  <1>7. TxInv'
    BY <1>1, <1>4 DEF TxInv
  <1>8. CASE Rejected(block)
    <2>1. halted' = TRUE /\ UNCHANGED output
      BY <1>8 DEF EndBlock
    <2>2. TypeInv'
      BY <1>1, <1>3, <1>4, <2>1 DEF TypeInv, output
    <2>3. StateInv'
      BY <2>1 DEF StateInv
    <2> QED
      BY <1>5, <1>6, <1>7, <2>2, <2>3 DEF TraceInv
  <1>9. CASE ~Rejected(block)
    <2>1. /\ rows' = Append(rows, Project(block)) /\ states' = Append(states, world)
          /\ (\E trimmed : tables' = Upsert(tables, block, trimmed)) /\ halted' = halted
      BY <1>9 DEF EndBlock
    <2>2. Project(block) \in Rows /\ tables' \in SUBSET Entries
      BY <1>1, <1>9, <2>1, Accepted
    <2>3. rows \in Seq(Rows) /\ states \in Seq(Worlds) /\ Len(states) = Len(rows) + 1
      BY <1>1, BaseWorld
    <2>4. /\ rows' \in Seq(Rows) /\ states' \in Seq(Worlds) /\ Len(states') = Len(rows') + 1
          /\ states'[Len(states')] = world
      BY <1>1, <2>1, <2>2, <2>3
    <2>5. TypeInv'
      BY <1>1, <1>3, <1>4, <2>1, <2>2, <2>4 DEF TypeInv
    <2>6. Base' = world
      BY <2>4 DEF Base
    <2>7. Reflects(world, world, {}, {})
      BY ReflectsItself
    <2>8. StateInv'
      <3>1. Reflects(world', Base', Settled(block'), AllDeletions(block'))
        BY <1>3, <1>4, <2>6, <2>7
      <3>2. tx' = None
        BY <1>1, <1>4
      <3> QED
        BY <3>1, <3>2 DEF StateInv
    <2> QED
      BY <1>5, <1>6, <1>7, <2>5, <2>8 DEF TraceInv
  <1> QED
    BY <1>8, <1>9

\* A later block changes no fold of the blocks before it.
LEMMA FoldedPrefix ==
    ASSUME NEW R \in Seq(Rows), NEW r, NEW number \in Nat, NEW to \in Nat, to <= Len(R), NEW base
    PROVE  Folded(base, number, Append(R, r), to) = Folded(base, number, R, to)
  <1> DEFINE Q == Append(R, r)
             I == (number + 1)..to
  <1>1. \A n \in I : Q[n] = R[n]
    OBVIOUS
  <1> HIDE DEF Q, I
  <1>2. ASSUME NEW kind PROVE Delta(Q, kind, number + 1, to) = Delta(R, kind, number + 1, to)
    <2>1. \A n \in I : NewDelta(Q[n], kind, n) = NewDelta(R[n], kind, n)
      BY <1>1
    <2>2. Delta(Q, kind, number + 1, to) = UNION {NewDelta(Q[n], kind, n) : n \in I}
      BY Zenon DEF Delta, NewDelta, I
    <2>3. Delta(R, kind, number + 1, to) = UNION {NewDelta(R[n], kind, n) : n \in I}
      BY Zenon DEF Delta, NewDelta, I
    <2> QED
      BY <2>1, <2>2, <2>3
  <1>3. Resets(Q, number + 1, to) = Resets(R, number + 1, to)
    <2>1. \A n \in I : NewResets(Q[n], n) = NewResets(R[n], n)
      BY <1>1
    <2>2. Resets(Q, number + 1, to) = UNION {NewResets(Q[n], n) : n \in I}
      BY Zenon DEF Resets, NewResets, I
    <2>3. Resets(R, number + 1, to) = UNION {NewResets(R[n], n) : n \in I}
      BY Zenon DEF Resets, NewResets, I
    <2> QED
      BY <2>1, <2>2, <2>3
  <1>4. UnionStorage(base, number, Q, to) = UnionStorage(base, number, R, to)
    <2>1. Delta(Q, "storage", number + 1, to) = Delta(R, "storage", number + 1, to)
      BY <1>2
    <2> QED
      BY <1>3, <2>1, Zenon DEF UnionStorage
  <1>5. \A kind, a : ObservedFields(base, number, Q, to, kind, a) =
                         ObservedFields(base, number, R, to, kind, a)
    BY <1>2, Zenon DEF ObservedFields
  <1>6. Folded(base, number, Q, to) = Folded(base, number, R, to)
    BY <1>4, <1>5, Zenon DEF Folded
  <1> QED
    BY <1>6 DEF Q

\* One more block keeps every fold the state of the chain.
LEMMA FoldIsStateStep ==
    ASSUME TraceInv, FoldIsState, EndBlock
    PROVE  FoldIsState'
  <1>1. tx = None /\ ~halted /\ TypeInv /\ world \in Worlds
    BY OpenBlock DEF EndBlock, Open, TraceInv
  <1>2. CASE Rejected(block)
    BY <1>2 DEF EndBlock, FoldIsState, output
  <1>3. CASE ~Rejected(block)
    <2> DEFINE r == Project(block)
               N == Len(rows)
    <2>1. rows' = Append(rows, r) /\ states' = Append(states, world)
      BY <1>3 DEF EndBlock
    <2>2. /\ rows \in Seq(Rows) /\ states \in Seq(Worlds) /\ N \in Nat /\ Len(states) = N + 1
          /\ Base \in Worlds /\ Base = states[N + 1]
      BY <1>1, BaseWorld DEF Base
    <2>3. Describes(r, world, Base)
      BY <1>1, <1>3, Accepted
    <2>4. DOMAIN states = 1..(N + 1) /\ DOMAIN states' = 1..(N + 2) /\ states'[N + 2] = world
          /\ \A n \in 1..(N + 1) : states'[n] = states[n]
      BY <1>1, <2>1, <2>2
    <2>5. \A n \in 1..(N + 1) : \A k \in 1..n :
              Folded(Observed(states[k]), k - 1, rows, n - 1) = Observed(states[n])
      BY <2>4 DEF FoldIsState
    <2> HIDE DEF r, N
    <2>6. ASSUME NEW n \in 1..(N + 2), NEW k \in 1..n
          PROVE  Folded(Observed(states'[k]), k - 1, rows', n - 1) = Observed(states'[n])
      <3>1. CASE n \in 1..(N + 1)
        <4> DEFINE base == Observed(states[k])
                   number == k - 1
                   to == n - 1
        <4>1. /\ k \in 1..(N + 1) /\ number \in Nat /\ to \in Nat /\ to <= N
              /\ states'[k] = states[k] /\ states'[n] = states[n]
          BY <2>2, <2>4, <3>1
        <4>2. Folded(base, number, rows, to) = Observed(states[n])
          BY <2>5, <3>1
        <4> HIDE DEF base, number, to
        <4>3. Folded(base, number, Append(rows, r), to) = Folded(base, number, rows, to)
          BY <2>2, <4>1, FoldedPrefix DEF N
        <4> QED
          BY <2>1, <4>1, <4>2, <4>3 DEF base, number, to
      <3>2. CASE n = N + 2 /\ k \in 1..(N + 1)
        <4> DEFINE base == Observed(states[k])
                   number == k - 1
        <4>1. number \in 0..N /\ states'[k] = states[k] /\ N + 1 \in 1..(N + 1)
              /\ (N + 1) - 1 = N /\ n - 1 = N + 1
          BY <2>2, <2>4, <3>2
        <4>2. Folded(base, number, rows, N) = Observed(Base)
          <5>1. Folded(base, number, rows, (N + 1) - 1) = Observed(states[N + 1])
            BY <2>5, <3>2, <4>1
          <5> QED
            BY <2>2, <4>1, <5>1
        <4> HIDE DEF base, number
        <4>3. Folded(base, number, Append(rows, r), N + 1) = Observed(world)
          BY <1>1, <2>2, <2>3, <4>1, <4>2, FoldStep DEF N
        <4>4. Folded(base, number, rows', n - 1) = Observed(states'[n])
          BY <2>1, <2>4, <3>2, <4>1, <4>3
        <4> QED
          BY <4>1, <4>4 DEF base, number
      <3>3. CASE n = N + 2 /\ k = N + 2
        <4> DEFINE m == n - 1
        <4>1. m \in Nat /\ states'[k] = world /\ states'[n] = world /\ k - 1 = m
          BY <2>2, <2>4, <3>3
        <4> HIDE DEF m
        <4>2. Folded(Observed(world), m, rows', m) = Observed(world)
          BY <1>1, <4>1, FoldSelf
        <4> QED
          BY <4>1, <4>2 DEF m
      <3>4. n \in 1..(N + 1) \/ (n = N + 2 /\ k \in 1..(N + 1)) \/ (n = N + 2 /\ k = N + 2)
        BY <2>2
      <3> QED
        BY <3>1, <3>2, <3>3, <3>4
    <2> QED
      BY <2>4, <2>6 DEF FoldIsState
  <1> QED
    BY <1>2, <1>3

\* The accounts whose deletion a row has told.
DeletedIn(R) == {d.address : d \in UNION {R[n].resets : n \in DOMAIN R}}

\* TablesAreCurrent, of all the keys of the tables.
TablesInv == UpToDate(tables, Base, DeletedIn(rows), respelled)

LEMMA DeletedStep ==
    ASSUME NEW R \in Seq(Rows), NEW r
    PROVE  DeletedIn(Append(R, r)) = DeletedIn(R) \cup {d.address : d \in r.resets}
  <1> DEFINE Q == Append(R, r)
             N == Len(R) + 1
  <1>1. /\ DOMAIN R = 1..Len(R) /\ DOMAIN Q = 1..N /\ Len(R) \in Nat
        /\ Q[N] = r /\ \A n \in 1..Len(R) : Q[n] = R[n]
    OBVIOUS
  <1>2. /\ \A n \in DOMAIN R : n \in DOMAIN Q /\ Q[n] = R[n]
        /\ \A n \in DOMAIN Q : n \in DOMAIN R \/ n = N
        /\ N \in DOMAIN Q /\ Q[N] = r
    BY <1>1
  <1> HIDE DEF Q, N
  <1>3. \A a : a \in DeletedIn(Q) <=> \E n \in DOMAIN Q : \E d \in Q[n].resets : a = d.address
    BY DEF DeletedIn
  <1>4. \A a : a \in DeletedIn(R) <=> \E n \in DOMAIN R : \E d \in R[n].resets : a = d.address
    BY DEF DeletedIn
  <1>5. \A a : (\E n \in DOMAIN Q : \E d \in Q[n].resets : a = d.address)
               <=> \/ \E n \in DOMAIN R : \E d \in R[n].resets : a = d.address
                   \/ \E d \in r.resets : a = d.address
    BY <1>2
  <1>6. DeletedIn(Q) = DeletedIn(R) \cup {d.address : d \in r.resets}
    BY <1>3, <1>4, <1>5
  <1> QED
    BY <1>6 DEF Q

LEMMA TablesStep ==
    ASSUME TraceInv, TablesInv, EndBlock
    PROVE  TablesInv'
  <1>1. tx = None /\ ~halted /\ TypeInv /\ world \in Worlds
    BY OpenBlock DEF EndBlock, Open, TraceInv
  <1>2. CASE Rejected(block)
    BY <1>2 DEF EndBlock, TablesInv, output, Base
  <1>3. CASE ~Rejected(block)
    <2> DEFINE r == Project(block)
    <2>1. rows' = Append(rows, r) /\ states' = Append(states, world)
          /\ respelled' = (respelled \ {Key(c) : c \in Collected(block)})
                          \cup Respelled(Collected(block))
      BY <1>3 DEF EndBlock
    <2>8. PICK trimmed : tables' = Upsert(tables, block, trimmed)
      BY <1>3 DEF EndBlock
    <2>2. /\ rows \in Seq(Rows) /\ states \in Seq(Worlds) /\ Len(rows) \in Nat
          /\ Len(states) = Len(rows) + 1
      BY <1>1, BaseWorld
    <2>3. Base' = world
      BY <1>1, <2>1, <2>2 DEF Base
    <2>4. Reflects(world, Base, Settled(block), AllDeletions(block))
      BY <1>1, <1>3, Accepted
    <2>5. ordinal \in Nat /\ tables \in SUBSET Entries /\ BlockInv(block, ordinal)
      BY DEF TraceInv, TypeInv
    <2>6. UpToDate(Upsert(tables, block, trimmed), world,
                   DeletedIn(rows) \cup {d.address : d \in Project(block).resets}, respelled')
      BY <2>1, <2>4, <2>5, UpsertStep DEF TablesInv
    <2>7. DeletedIn(rows') = DeletedIn(rows) \cup {d.address : d \in Project(block).resets}
      BY <2>1, <2>2, DeletedStep
    <2> QED
      BY <2>1, <2>3, <2>6, <2>7, <2>8 DEF TablesInv
  <1> QED
    BY <1>2, <1>3

----------------------------------------------------------------------------
(* The end of a transaction                                                 *)

\* The calls of a finished trace are those of the execution.
SameCalls(others, calls) ==
    /\ others \in Seq(Calls) /\ Len(others) = Len(calls)
    /\ \A j \in 1..Len(calls) :
          /\ others[j].type = calls[j].type /\ others[j].address = calls[j].address
          /\ others[j].parent = calls[j].parent
          /\ others[j].reverted <=> calls[j].reverted
          /\ others[j].suicide <=> calls[j].suicide

LEMMA SameCallsIs ==
    ASSUME NEW t \in Transactions, NEW others, SameCalls(others, t.calls)
    PROVE  /\ DOMAIN t.calls = 1..Len(t.calls) /\ DOMAIN others = DOMAIN t.calls
           /\ Committed(others) = Committed(t.calls) /\ Suicides(others) = Suicides(t.calls)
  <1>1. DOMAIN t.calls = 1..Len(t.calls) /\ DOMAIN others = DOMAIN t.calls
    BY TxCalls DEF SameCalls
  <1>2. Committed(others) = Committed(t.calls)
    BY <1>1 DEF Committed, SameCalls
  <1>3. Suicides(others) = Suicides(t.calls)
    BY <1>1, <1>2 DEF Suicides, Committed, SameCalls
  <1> QED
    BY <1>1, <1>2, <1>3

LEMMA SameCallsExec ==
    ASSUME NEW t \in Transactions, NEW others, SameCalls(others, t.calls), NEW n, CallsInv(t, n),
           \E g : IsExec(g, t.calls)
    PROVE  \A j \in DOMAIN t.calls : ExecutionAddress(others, j) = ExecutionAddress(t.calls, j)
  <1> DEFINE calls == t.calls
             m == Len(t.calls)
  <1>1. DOMAIN calls = 1..m /\ DOMAIN others = 1..m /\ m \in Nat
    BY SameCallsIs, TxCalls
  <1>2. Parented(calls)
    BY DEF CallsInv, Parented
  <1>3. \A j \in 1..m : /\ others[j].type = calls[j].type /\ others[j].parent = calls[j].parent
                        /\ others[j].address = calls[j].address
    BY DEF SameCalls
  <1>4. \E e : IsExec(e, calls)
    OBVIOUS
  <1> HIDE DEF calls, m
  <1>5. \E e : IsExec(e, others)
    <2>1. PICK e : IsExec(e, calls)
      BY <1>4
    <2>2. \A j \in 1..m : e[j] = IF calls[j].type = "delegate" THEN e[calls[j].parent]
                                 ELSE calls[j].address
      BY <1>1, <2>1 DEF IsExec
    <2>3. e = [j \in 1..m |-> IF calls[j].type = "delegate" THEN e[calls[j].parent]
                              ELSE calls[j].address]
      BY <1>1, <2>1 DEF IsExec
    <2>4. e = [j \in 1..m |-> IF others[j].type = "delegate" THEN e[others[j].parent]
                              ELSE others[j].address]
      BY <1>3, <2>3
    <2> QED
      BY <1>1, <2>4 DEF IsExec
  <1>6. \A j \in 1..m : ExecutionAddress(others, j) = ExecutionAddress(calls, j)
    <2>1. 1..m \subseteq DOMAIN calls /\ 1..m \subseteq DOMAIN others
      BY <1>1
    <2> QED
      BY ONLY <1>1, <1>2, <1>3, <1>4, <1>5, <2>1, ExecAgree
  <1> QED
    BY <1>1, <1>6 DEF calls, m

\* The mapper deletes, for the finished transaction u, the accounts its execution t doomed.
LEMMA EndDeletes ==
    ASSUME NEW t \in Transactions, NEW u, SameCalls(u.calls, t.calls), ~Failed(u), NEW n,
           CallsInv(t, n), NEW fs, NEW w, NEW made, NEW gone, NEW b,
           FateInv(t, fs, w, made, gone, b.cancun)
    PROVE  /\ DeletionsOf(b, u) = DeletedAt(gone, u.end)
           /\ gone = {} \/ Deleting(b, u) # {}
  <1> DEFINE k == Len(t.calls) + 1
             J == Suicides(t.calls)
             E(i) == ExecutionAddress(t.calls, i)
             F(i) == ExecutionAddress(u.calls, i)
             cancun == b.cancun
  <1>1. /\ Committed(u.calls) = Committed(t.calls) /\ Suicides(u.calls) = J
        /\ DOMAIN t.calls = 1..Len(t.calls) /\ Len(t.calls) \in Nat
    BY SameCallsIs, TxCalls
  <1>2. \A i \in DOMAIN t.calls : i < k
    BY <1>1
  <1>3. \A i \in DOMAIN t.calls : F(i) = E(i)
    BY SameCallsExec DEF FateInv
  <1>4. made = CreatedBelow(t.calls, k) /\ gone = DoomedBelow(t.calls, k, cancun, made)
    BY DEF FateInv, FateAt
  <1>5. Created(u) = made
    <2>1. Created(u) = {u.calls[i].address : i \in {j \in Committed(t.calls) : u.calls[j].type = "create"}}
      BY <1>1 DEF Created
    <2>2. \A j \in Committed(t.calls) : /\ j < k /\ u.calls[j].type = t.calls[j].type
                                        /\ u.calls[j].address = t.calls[j].address
      BY <1>1, <1>2 DEF SameCalls, Committed
    <2>3. made = {t.calls[j].address : j \in {m \in Committed(t.calls) : m < k /\ t.calls[m].type = "create"}}
      BY <1>4 DEF CreatedBelow
    <2> HIDE DEF k
    <2> QED
      BY <2>1, <2>2, <2>3
  <1>6. gone = {E(i) : i \in {j \in J : ~cancun \/ E(j) \in made}}
    <2>1. \A i \in J : i < k
      BY <1>2 DEF Suicides, Committed
    <2>2. gone = {E(i) : i \in {j \in J : j < k /\ (~cancun \/ E(j) \in made)}}
      BY <1>4 DEF DoomedBelow
    <2> HIDE DEF k, J, E
    <2> QED
      BY <2>1, <2>2
  <1>7. Deleting(b, u) = {j \in J : ~cancun \/ E(j) \in made}
    <2>1. Deleting(b, u) = {j \in J : ~cancun \/ F(j) \in made}
      BY <1>1, <1>5 DEF Deleting
    <2>2. \A i \in J : F(i) = E(i)
      BY <1>3 DEF Suicides, Committed
    <2> HIDE DEF J, E, F
    <2> QED
      BY <2>1, <2>2
  <1>8. DeletionsOf(b, u) = {[address |-> F(i), ordinal |-> u.end] : i \in Deleting(b, u)}
    BY DEF DeletionsOf
  <1>9. \A i \in Deleting(b, u) : F(i) = E(i)
    BY <1>3, <1>7 DEF Suicides, Committed
  <1> HIDE DEF J, E, F, k
  <1> QED
    BY <1>6, <1>7, <1>8, <1>9 DEF DeletedAt

----------------------------------------------------------------------------
(* What the block keeps of a transaction                                    *)

\* The changes B stand for A in the trace: those after ordinal n may have lost
\* their own.
TracedAs(B, A, n) ==
    /\ B \in SUBSET Changes
    /\ \A c \in A : c.ordinal < n => c \in B
    /\ \A c \in B : \/ c \in A
                    \/ /\ c.ordinal = 0
                       /\ \E d \in A : n < d.ordinal /\ d.kind = c.kind /\ d.reason = c.reason

\* v is the trace of the execution t before it ends.
Traces(v, t) ==
    /\ v \in Transactions /\ v.from = t.from /\ v.nonce = t.nonce
    /\ v.authorities = t.authorities /\ v.begin = t.begin /\ SameCalls(v.calls, t.calls)
    /\ IF t.calls[1].reverted THEN TracedAs(v.calls[1].changes, t.calls[1].changes, t.begin)
       ELSE \A j \in 1..Len(t.calls) : v.calls[j].changes = t.calls[j].changes

LEMMA TracesItself ==
    ASSUME NEW t \in Transactions, 1 \in DOMAIN t.calls
    PROVE  Traces(t, t)
  <1>1. /\ t.calls \in Seq(Calls) /\ DOMAIN t.calls = 1..Len(t.calls)
        /\ t.calls[1].changes \in SUBSET Changes
    BY TxCalls
  <1>2. SameCalls(t.calls, t.calls)
    BY <1>1 DEF SameCalls
  <1>3. TracedAs(t.calls[1].changes, t.calls[1].changes, t.begin)
    BY <1>1 DEF TracedAs
  <1> QED
    BY <1>2, <1>3 DEF Traces

\* A record without its ordinal is still one.
LEMMA UnnumberedChange ==
    ASSUME NEW c \in Changes
    PROVE  LET d == [c EXCEPT !.ordinal = 0]
           IN  d \in Changes /\ d.ordinal = 0 /\ d.kind = c.kind /\ d.reason = c.reason
  BY DEF Changes

\* d is the call c with the changes Y.
Recast(d, c, Y) ==
    /\ d \in Calls /\ d.changes = Y
    /\ d.type = c.type /\ d.address = c.address /\ d.parent = c.parent
    /\ d.reverted = c.reverted /\ d.suicide = c.suicide

LEMMA UnnumberedCall ==
    ASSUME NEW c \in Calls, NEW Y \in SUBSET Changes, NEW d, d = [c EXCEPT !.changes = Y]
    PROVE  Recast(d, c, Y)
  BY DEF Calls, Recast

LEMMA UnnumberedIs ==
    ASSUME NEW t \in Transactions, 1 \in DOMAIN t.calls, t.calls[1].reverted
    PROVE  Traces(Unnumbered(t), t)
  <1> DEFINE z(c) == IF c.ordinal > t.begin THEN [c EXCEPT !.ordinal = 0] ELSE c
             Y(i) == {z(c) : c \in t.calls[i].changes}
             d == [i \in DOMAIN t.calls |-> [t.calls[i] EXCEPT !.changes = Y(i)]]
             v == [t EXCEPT !.calls = d]
  <1>1. Unnumbered(t) = v
    BY DEF Unnumbered
  <1>2. /\ t.calls \in Seq(Calls) /\ Len(t.calls) \in Nat /\ DOMAIN t.calls = 1..Len(t.calls)
        /\ \A j \in 1..Len(t.calls) : t.calls[j] \in Calls /\ t.calls[j].changes \in SUBSET Changes
        /\ t.begin \in Nat
    BY TxCalls
  <1>3. \A c \in Changes : /\ z(c) \in Changes
                           /\ \/ z(c) = c /\ c.ordinal <= t.begin
                              \/ /\ z(c).ordinal = 0 /\ t.begin < c.ordinal
                                 /\ c.kind = z(c).kind /\ c.reason = z(c).reason
    <2> SUFFICES ASSUME NEW c \in Changes
                 PROVE  /\ z(c) \in Changes
                        /\ \/ z(c) = c /\ c.ordinal <= t.begin
                           \/ /\ z(c).ordinal = 0 /\ t.begin < c.ordinal
                              /\ c.kind = z(c).kind /\ c.reason = z(c).reason
      OBVIOUS
    <2>1. c.ordinal \in Nat
      BY DEF Changes
    <2>2. CASE c.ordinal > t.begin
      BY <2>1, <2>2, <1>2, UnnumberedChange
    <2>3. CASE ~(c.ordinal > t.begin)
      BY <2>1, <2>3, <1>2
    <2> QED
      BY <2>2, <2>3
  <1> HIDE DEF z
  <1>4. \A j \in 1..Len(t.calls) : Y(j) \in SUBSET Changes
    BY <1>2, <1>3
  <1>5. \A j \in 1..Len(t.calls) : Recast(d[j], t.calls[j], Y(j))
    <2> SUFFICES ASSUME NEW j \in 1..Len(t.calls)
                 PROVE  Recast(d[j], t.calls[j], Y(j))
      OBVIOUS
    <2>1. d[j] = [t.calls[j] EXCEPT !.changes = Y(j)]
      BY <1>2
    <2>2. Y(j) \in SUBSET Changes /\ t.calls[j] \in Calls
      BY <1>2, <1>4
    <2> HIDE DEF d, Y
    <2> QED
      BY ONLY <2>1, <2>2, UnnumberedCall
  <1>6. d \in [1..Len(t.calls) -> Calls]
    BY <1>2, <1>5 DEF Recast
  <1>7. d \in Seq(Calls) /\ Len(d) = Len(t.calls)
    <2> HIDE DEF d
    <2> QED
      BY <1>6, <1>2, SeqOfFunction
  <1>8. SameCalls(d, t.calls)
    <2> HIDE DEF d
    <2> QED
      BY <1>5, <1>7 DEF SameCalls, Recast
  <1>9. 1 \in 1..Len(t.calls)
    BY <1>2
  <1>10. TracedAs(d[1].changes, t.calls[1].changes, t.begin)
    <2>1. d[1].changes = Y(1) /\ t.calls[1].changes \in SUBSET Changes /\ Y(1) \in SUBSET Changes
      BY <1>2, <1>4, <1>5, <1>9 DEF Recast
    <2>2. \A c \in t.calls[1].changes : c.ordinal < t.begin => c \in Y(1)
      <3> SUFFICES ASSUME NEW c \in t.calls[1].changes, c.ordinal < t.begin
                   PROVE  c \in Y(1)
        OBVIOUS
      <3>1. c \in Changes /\ c.ordinal \in Nat
        BY <2>1 DEF Changes
      <3>2. z(c) = c
        BY <1>3, <3>1, <1>2
      <3> QED
        BY <3>2
    <2>3. \A c \in Y(1) : \/ c \in t.calls[1].changes
                          \/ /\ c.ordinal = 0
                             /\ \E e \in t.calls[1].changes :
                                   t.begin < e.ordinal /\ e.kind = c.kind /\ e.reason = c.reason
      <3> SUFFICES ASSUME NEW e \in t.calls[1].changes
                   PROVE  \/ z(e) \in t.calls[1].changes
                          \/ /\ z(e).ordinal = 0
                             /\ \E g \in t.calls[1].changes :
                                   t.begin < g.ordinal /\ g.kind = z(e).kind /\ g.reason = z(e).reason
        OBVIOUS
      <3>1. e \in Changes
        BY <2>1
      <3> QED
        BY <3>1, <1>3
    <2> HIDE DEF d, Y
    <2> QED
      BY <2>1, <2>2, <2>3 DEF TracedAs
  <1>11. v.calls = d /\ v \in Transactions
    <2> HIDE DEF d
    <2> QED
      BY <1>7 DEF Transactions
  <1>12. /\ v.from = t.from /\ v.nonce = t.nonce /\ v.authorities = t.authorities
         /\ v.begin = t.begin
    <2> HIDE DEF d
    <2> QED
      BY DEF Transactions
  <1> HIDE DEF d, v
  <1> QED
    BY <1>1, <1>8, <1>10, <1>11, <1>12 DEF Traces

\* u is what the block keeps of the execution t, which ends at ordinal e with
\* the records X.
Ends(u, t, X, e) ==
    /\ u \in Transactions /\ u.from = t.from /\ u.nonce = t.nonce
    /\ u.authorities = t.authorities
    /\ u.begin \in {0, t.begin} /\ u.end \in {0, e}
    /\ Failed(u) <=> t.calls[1].reverted
    /\ SameCalls(u.calls, t.calls)
    /\ IF t.calls[1].reverted
       THEN \E B : TracedAs(B, t.calls[1].changes, t.begin) /\ u.calls[1].changes = B \cup X
       ELSE \A j \in 1..Len(t.calls) :
               u.calls[j].changes = IF j = 1 THEN t.calls[j].changes \cup X ELSE t.calls[j].changes

\* The end of a trace: its status, its boundaries and its calls d.
Closes(u, v, ok, e, d) ==
    /\ u \in Transactions /\ u.from = v.from /\ u.nonce = v.nonce
    /\ u.authorities = v.authorities /\ u.begin \in {0, v.begin} /\ u.end \in {0, e}
    /\ Failed(u) <=> ~ok
    /\ u.calls = d

LEMMA EndFields ==
    ASSUME NEW v \in Transactions, NEW ok \in BOOLEAN, NEW lost \in BOOLEAN, NEW e \in Nat,
           NEW d \in Seq(Calls), NEW u,
           u = [v EXCEPT !.status = IF ok THEN "succeeded" ELSE "reverted",
                         !.begin = IF lost THEN 0 ELSE @, !.end = IF lost THEN 0 ELSE e,
                         !.calls = d]
    PROVE  Closes(u, v, ok, e, d)
  <1>1. v.begin \in Nat
    BY DEF Transactions
  <1>2. u \in Transactions
    BY <1>1 DEF Transactions
  <1>3. u.from = v.from /\ u.nonce = v.nonce /\ u.authorities = v.authorities /\ u.calls = d
    BY DEF Transactions
  <1>4. u.begin \in {0, v.begin} /\ u.end \in {0, e}
    BY DEF Transactions
  <1>5. Failed(u) <=> ~ok
    BY DEF Transactions, Failed
  <1> QED
    BY <1>2, <1>3, <1>4, <1>5 DEF Closes

LEMMA EndedIs ==
    ASSUME NEW t \in Transactions, 1 \in DOMAIN t.calls, NEW v, Traces(v, t),
           NEW X \in SUBSET Changes, NEW ok \in BOOLEAN, ok <=> ~t.calls[1].reverted,
           NEW lost \in BOOLEAN, NEW e \in Nat, NEW u,
           u = [v EXCEPT !.status = IF ok THEN "succeeded" ELSE "reverted",
                         !.begin = IF lost THEN 0 ELSE @, !.end = IF lost THEN 0 ELSE e,
                         !.calls[1].changes = @ \cup X]
    PROVE  Ends(u, t, X, e)
  <1> DEFINE d == [v.calls EXCEPT ![1].changes = @ \cup X]
             c == [v.calls[1] EXCEPT !.changes = @ \cup X]
  <1>1. /\ v \in Transactions /\ v.calls \in Seq(Calls) /\ Len(v.calls) = Len(t.calls)
        /\ SameCalls(v.calls, t.calls)
    BY DEF Traces, SameCalls
  <1>2. /\ DOMAIN v.calls = 1..Len(v.calls) /\ Len(v.calls) \in Nat /\ 1 \in 1..Len(t.calls)
        /\ \A j \in 1..Len(v.calls) : v.calls[j] \in Calls /\ v.calls[j].changes \in SUBSET Changes
    BY <1>1, TxCalls
  <1>3. Recast(c, v.calls[1], v.calls[1].changes \cup X)
    BY <1>1, <1>2, UnnumberedCall
  <1>4. d \in Seq(Calls) /\ Len(d) = Len(t.calls)
    <2>1. d = [v.calls EXCEPT ![1] = c]
      OBVIOUS
    <2>2. c \in Calls
      BY <1>3 DEF Recast
    <2> HIDE DEF c, d
    <2> QED
      BY <1>1, <1>2, <2>1, <2>2
  <1>5. \A j \in 1..Len(t.calls) : d[j] = IF j = 1 THEN c ELSE v.calls[j]
    BY <1>1, <1>2
  <1>6. SameCalls(d, t.calls)
    <2> HIDE DEF c, d
    <2> QED
      BY <1>1, <1>3, <1>4, <1>5 DEF SameCalls, Recast
  <1>7. u = [v EXCEPT !.status = IF ok THEN "succeeded" ELSE "reverted",
                      !.begin = IF lost THEN 0 ELSE @, !.end = IF lost THEN 0 ELSE e,
                      !.calls = d]
    OBVIOUS
  <1>8. d[1].changes = v.calls[1].changes \cup X
    <2>1. d[1] = c
      BY <1>5, <1>2
    <2> HIDE DEF c, d
    <2> QED
      BY <1>3, <2>1 DEF Recast
  <1>9. \A j \in 1..Len(t.calls) : j # 1 => d[j].changes = v.calls[j].changes
    <2> HIDE DEF c, d
    <2> QED
      BY <1>5
  <1> HIDE DEF c, d
  <1>10. Closes(u, v, ok, e, d)
    BY ONLY <1>1, <1>4, <1>7, EndFields, ok \in BOOLEAN, lost \in BOOLEAN, e \in Nat
  <1>11. /\ v.from = t.from /\ v.nonce = t.nonce /\ v.authorities = t.authorities
         /\ v.begin = t.begin
    BY DEF Traces
  <1>12. CASE t.calls[1].reverted
    <2>1. TracedAs(v.calls[1].changes, t.calls[1].changes, t.begin)
      BY <1>12 DEF Traces
    <2> QED
      BY <1>6, <1>8, <1>10, <1>11, <1>12, <2>1 DEF Ends, Closes
  <1>13. CASE ~t.calls[1].reverted
    <2>1. \A j \in 1..Len(t.calls) : v.calls[j].changes = t.calls[j].changes
      BY <1>13 DEF Traces
    <2>2. \A j \in 1..Len(t.calls) :
             d[j].changes = IF j = 1 THEN t.calls[j].changes \cup X ELSE t.calls[j].changes
      BY <1>2, <1>8, <1>9, <2>1
    <2> QED
      BY <1>6, <1>10, <1>11, <1>13, <2>2 DEF Ends, Closes
  <1> QED
    BY <1>12, <1>13

\* The refund X of the transaction t, after ordinal n and by ordinal m.
Refund(X, n, m) ==
    /\ X \in SUBSET Changes /\ n \in Nat /\ m \in Nat /\ n <= m
    /\ \A c \in X : /\ c.kind = "balance" /\ c.reason = "gas"
                    /\ c.ordinal \in Nat /\ n < c.ordinal /\ c.ordinal <= m

\* Of a transaction that succeeded the block keeps what is in force, and the refund.
LEMMA EndSuccess ==
    ASSUME NEW t \in Transactions, NEW u, NEW X, NEW e, NEW n, CallsInv(t, n), Ends(u, t, X, e),
           ~t.calls[1].reverted
    PROVE  Persisted(u) = Live(t) \cup Effective(X)
  <1>1. /\ t.calls \in Seq(Calls) /\ Len(t.calls) \in Nat /\ DOMAIN t.calls = 1..Len(t.calls)
    BY TxCalls
  <1>2. SameCalls(u.calls, t.calls) /\ ~Failed(u)
    BY DEF Ends
  <1>3. Committed(u.calls) = Committed(t.calls)
    BY <1>2, SameCallsIs
  <1>4. \A j \in 1..Len(t.calls) :
           u.calls[j].changes = IF j = 1 THEN t.calls[j].changes \cup X ELSE t.calls[j].changes
    BY DEF Ends
  <1>5. 1 \in 1..Len(t.calls)
    BY <1>1 DEF CallsInv
  <1>6. 1 \in Committed(t.calls)
    BY <1>1, <1>5 DEF Committed
  <1>7. \A c : c \in Persisted(u) <=>
               \E j \in Committed(t.calls) : c \in Effective(u.calls[j].changes)
    BY <1>2, <1>3 DEF Persisted
  <1>8. Live(t) = Below(t.calls, Len(t.calls) + 1)
    BY DEF Live
  <1>9. \A c : c \in Live(t) <=>
               \E j \in Committed(t.calls) : c \in Effective(t.calls[j].changes)
    <2> SUFFICES ASSUME NEW c
                 PROVE  c \in Live(t) <=>
                          \E j \in Committed(t.calls) : c \in Effective(t.calls[j].changes)
      OBVIOUS
    <2>1. \A j \in Committed(t.calls) : j < Len(t.calls) + 1
      BY <1>1 DEF Committed
    <2> QED
      BY <1>8, <2>1, BelowIs DEF Committed
  <1>10. \A j \in Committed(t.calls) :
            Effective(u.calls[j].changes) =
                IF j = 1 THEN Effective(t.calls[j].changes) \cup Effective(X)
                ELSE Effective(t.calls[j].changes)
    BY <1>1, <1>4, EffectiveUnion DEF Committed
  <1>11. \A c : c \in Persisted(u) <=> c \in Live(t) \/ c \in Effective(X)
    BY <1>6, <1>7, <1>9, <1>10
  <1> QED
    BY <1>11

\* A record that kept its ordinal is one of the execution.
LEMMA FailureFirst ==
    ASSUME NEW t \in Transactions, NEW B, TracedAs(B, t.calls[1].changes, t.begin), NEW c \in B,
           c.ordinal > 0
    PROVE  c \in t.calls[1].changes
  <1>1. c \in Changes
    BY DEF TracedAs
  <1>2. c.ordinal \in Nat
    BY <1>1 DEF Changes
  <1> QED
    BY <1>2 DEF TracedAs

\* An execution t whose root call has begun, at ordinal n.
Preparing(t, n) ==
    /\ t \in Transactions /\ n \in Nat /\ t.begin > 0 /\ t.begin \in Nat
    /\ CallsInv(t, n) /\ RootInv(t) /\ 1 \in DOMAIN t.calls
    /\ t.calls[1].changes \in SUBSET Changes
    /\ \A c \in t.calls[1].changes : c.ordinal \in Nat /\ c.ordinal > 0 /\ c.ordinal <= n

\* The changes of the root call of a failed transaction u.
FailedAs(u, t, B, X) ==
    /\ u \in Transactions /\ Failed(u) /\ ~NoBoundary(u)
    /\ TracedAs(B, t.calls[1].changes, t.begin) /\ u.calls[1].changes = B \cup X
    /\ u.from = t.from /\ u.nonce = t.nonce /\ u.authorities = t.authorities
    /\ u.begin \in {0, t.begin}

LEMMA FailureGas ==
    ASSUME NEW t, NEW n, Preparing(t, n), NEW u, NEW B, NEW X, NEW m, Refund(X, n, m),
           FailedAs(u, t, B, X)
    PROVE  /\ GasChanges(u.calls[1]) \subseteq BeforeRoot(t) \cup Effective(X)
           /\ Effective(X) \subseteq GasChanges(u.calls[1])
           /\ \A c \in BeforeRoot(t) : c.kind = "balance" /\ c.reason = "gas"
                                       => c \in GasChanges(u.calls[1])
  <1>1. u.calls[1].changes = B \cup X
    BY DEF FailedAs
  <1>2. Effective(X) \subseteq GasChanges(u.calls[1])
    BY <1>1 DEF GasChanges, Effective, Refund
  <1>3. ASSUME NEW c \in BeforeRoot(t), c.kind = "balance", c.reason = "gas"
        PROVE  c \in GasChanges(u.calls[1])
    <2>1. c \in t.calls[1].changes /\ c.old # c.new /\ c.ordinal < t.begin
      BY DEF BeforeRoot, Effective, Preparing
    <2>2. c \in B
      BY <2>1 DEF FailedAs, TracedAs
    <2> QED
      BY <1>1, <1>3, <2>1, <2>2 DEF GasChanges, Effective
  <1>4. ASSUME NEW c \in GasChanges(u.calls[1])
        PROVE  c \in BeforeRoot(t) \cup Effective(X)
    <2>1. c \in B \cup X /\ c.old # c.new /\ c.kind = "balance" /\ c.reason = "gas"
      BY <1>1 DEF GasChanges, Effective
    <2>2. CASE c \in X
      BY <2>1, <2>2 DEF Effective
    <2>3. CASE c \in B
      <3>1. \A d \in t.calls[1].changes : t.begin < d.ordinal => d.reason # "gas"
        BY DEF Preparing, RootInv
      <3>2. \/ c \in t.calls[1].changes
            \/ \E d \in t.calls[1].changes :
                  t.begin < d.ordinal /\ d.kind = c.kind /\ d.reason = c.reason
        BY <2>3 DEF FailedAs, TracedAs
      <3>3. c \in t.calls[1].changes
        BY <2>1, <3>1, <3>2
      <3>4. c.ordinal < t.begin
        BY <2>1, <3>3 DEF Preparing, RootInv
      <3> QED
        BY <2>1, <3>3, <3>4 DEF BeforeRoot, Effective
    <2> QED
      BY <2>1, <2>2, <2>3
  <1> QED
    BY <1>2, <1>3, <1>4

LEMMA FailureAuthorizations ==
    ASSUME NEW t, NEW n, Preparing(t, n), NEW u, NEW B, NEW X, NEW m, Refund(X, n, m),
           FailedAs(u, t, B, X)
    PROVE  /\ Authorizations(u) \subseteq BeforeRoot(t)
           /\ \A c \in BeforeRoot(t) : c.kind \in {"nonce", "code"} /\ c.address \in t.authorities
                                       => c \in Authorizations(u)
  <1>1. u.calls[1].changes = B \cup X
    BY DEF FailedAs
  <1>2. ASSUME NEW c \in Authorizations(u)
        PROVE  c \in BeforeRoot(t)
    <2>1. /\ c \in B \cup X /\ c.old # c.new /\ c.kind \in {"nonce", "code"}
          /\ c.ordinal > 0 /\ c.ordinal < u.begin
      BY <1>1 DEF Authorizations, Effective
    <2>2. c \in B
      BY <2>1 DEF Refund
    <2>3. c \in t.calls[1].changes
      BY <2>1, <2>2, FailureFirst DEF FailedAs, Preparing
    <2>4. c.ordinal < t.begin
      BY <2>1, <2>3 DEF FailedAs, Preparing
    <2> QED
      BY <2>1, <2>3, <2>4 DEF BeforeRoot, Effective
  <1>3. ASSUME NEW c \in BeforeRoot(t), c.kind \in {"nonce", "code"}, c.address \in t.authorities
        PROVE  c \in Authorizations(u)
    <2>1. c \in t.calls[1].changes /\ c.old # c.new /\ c.ordinal < t.begin
      BY DEF BeforeRoot, Effective, Preparing
    <2>2. c \in B
      BY <2>1 DEF FailedAs, TracedAs
    <2>3. u.begin = t.begin /\ u.authorities = t.authorities
      BY <1>3 DEF FailedAs, NoBoundary
    <2>4. c.ordinal > 0
      BY <2>1 DEF Preparing
    <2> QED
      BY <1>1, <1>3, <2>1, <2>2, <2>3, <2>4 DEF Authorizations, Effective
  <1> QED
    BY <1>2, <1>3

LEMMA FailureNonce ==
    ASSUME NEW t, NEW n, Preparing(t, n), NEW u, NEW B, NEW X, NEW m, Refund(X, n, m),
           FailedAs(u, t, B, X)
    PROVE  /\ SenderNonce(u) \subseteq BeforeRoot(t)
           /\ \A c \in BeforeRoot(t) :
                 OwnNonce(t, c) /\ (\A d \in t.calls[1].changes : c.ordinal <= d.ordinal)
                 => c \in SenderNonce(u)
  <1> DEFINE own == {c \in u.calls[1].changes :
                        /\ c.kind = "nonce" /\ c.ordinal > 0 /\ c.address = u.from
                        /\ c.old = u.nonce /\ c.new = u.nonce + 1}
  <1>1. u.calls[1].changes = B \cup X /\ u.from = t.from /\ u.nonce = t.nonce
    BY DEF FailedAs
  <1>2. SenderNonce(u) = {c \in own : \A d \in own : c.ordinal <= d.ordinal}
    BY DEF SenderNonce
  <1>3. \A c \in own : c \in t.calls[1].changes /\ OwnNonce(t, c)
    <2> SUFFICES ASSUME NEW c \in own
                 PROVE  c \in t.calls[1].changes /\ OwnNonce(t, c)
      OBVIOUS
    <2>1. c \in B
      BY <1>1 DEF Refund
    <2>2. c \in t.calls[1].changes
      BY <2>1, FailureFirst DEF FailedAs, Preparing
    <2> QED
      BY <1>1, <2>2 DEF OwnNonce
  <1>4. \A c \in t.calls[1].changes : OwnNonce(t, c) /\ c.ordinal < t.begin => c \in own
    <2> SUFFICES ASSUME NEW c \in t.calls[1].changes, OwnNonce(t, c), c.ordinal < t.begin
                 PROVE  c \in own
      OBVIOUS
    <2>1. c \in B
      BY DEF FailedAs, TracedAs
    <2>2. c.ordinal > 0
      BY DEF Preparing
    <2> QED
      BY <1>1, <2>1, <2>2 DEF OwnNonce
  <1> HIDE DEF own
  <1>5. ASSUME NEW c \in BeforeRoot(t), OwnNonce(t, c),
               \A d \in t.calls[1].changes : c.ordinal <= d.ordinal
        PROVE  c \in SenderNonce(u)
    <2>1. c \in t.calls[1].changes /\ c.ordinal < t.begin
      BY DEF BeforeRoot, Effective, Preparing
    <2> QED
      BY <1>2, <1>3, <1>4, <1>5, <2>1
  <1>6. ASSUME NEW c \in SenderNonce(u)
        PROVE  c \in BeforeRoot(t)
    <2>1. c \in t.calls[1].changes /\ OwnNonce(t, c) /\ c \in own
      BY <1>2, <1>3
    <2>2. c.address \in Accounts
      BY <2>1 DEF Preparing, Changes
    <2>3. t.from # None
      BY <2>1, <2>2, TraceAssumption DEF OwnNonce
    <2>4. PICK c0 \in t.calls[1].changes :
             /\ OwnNonce(t, c0) /\ c0.ordinal < t.begin
             /\ \A d \in t.calls[1].changes : d = c0 \/ c0.ordinal < d.ordinal
      BY <2>3 DEF Preparing, RootInv
    <2>5. c0 \in own
      BY <1>4, <2>4
    <2>6. c.ordinal <= c0.ordinal /\ c.ordinal \in Nat /\ c0.ordinal \in Nat
      BY <1>2, <2>1, <2>4, <2>5 DEF Preparing
    <2>7. c = c0
      BY <2>1, <2>4, <2>6
    <2>8. t.nonce \in Nat
      BY DEF Preparing, Transactions
    <2>9. c.old # c.new
      BY <2>1, <2>8 DEF OwnNonce
    <2> QED
      BY <2>1, <2>4, <2>7, <2>9 DEF BeforeRoot, Effective
  <1> QED
    BY <1>5, <1>6

\* Of a failed transaction the block keeps what it did before its root call, and
\* its refund.
LEMMA EndFailure ==
    ASSUME NEW t, NEW n, Preparing(t, n), NEW u, NEW B, NEW X, NEW m, Refund(X, n, m),
           FailedAs(u, t, B, X)
    PROVE  Persisted(u) = BeforeRoot(t) \cup Effective(X)
  <1>1. Persisted(u) = GasChanges(u.calls[1]) \cup SenderNonce(u) \cup Authorizations(u)
    BY DEF Persisted, FailedAs
  <1>2. ASSUME NEW c \in BeforeRoot(t)
        PROVE  c \in Persisted(u)
    <2>1. c \in t.calls[1].changes /\ c.ordinal < t.begin
      BY DEF BeforeRoot, Effective, Preparing
    <2>2. \/ c.kind = "balance" /\ c.reason = "gas"
          \/ OwnNonce(t, c) /\ \A d \in t.calls[1].changes : c.ordinal <= d.ordinal
          \/ c.kind \in {"nonce", "code"} /\ c.address \in t.authorities
      BY <2>1 DEF Preparing, RootInv
    <2> QED
      BY <1>1, <2>2, FailureGas, FailureNonce, FailureAuthorizations
  <1>3. Effective(X) \subseteq Persisted(u)
    BY <1>1, FailureGas
  <1>4. Persisted(u) \subseteq BeforeRoot(t) \cup Effective(X)
    BY <1>1, FailureGas, FailureNonce, FailureAuthorizations
  <1> QED
    BY <1>2, <1>3, <1>4

\* Whatever the block keeps of a transaction has happened by its end.
LEMMA EndKeeps ==
    ASSUME NEW t, NEW n, Preparing(t, n), NEW u, NEW X, NEW e, Ends(u, t, X, e),
           NEW m, Refund(X, n, m)
    PROVE  Persisted(u) \in SUBSET Changes /\ \A c \in Persisted(u) : c.ordinal <= m
  <1>1. CASE ~t.calls[1].reverted
    <2>1. Persisted(u) = Live(t) \cup Effective(X)
      BY <1>1, EndSuccess DEF Preparing
    <2>2. Live(t) \in SUBSET Changes /\ \A c \in Live(t) : c.ordinal <= n
      BY LiveType DEF Preparing
    <2>3. \A c \in Live(t) : c.ordinal \in Nat
      BY <2>2 DEF Changes
    <2>4. n \in Nat /\ m \in Nat /\ n <= m /\ X \in SUBSET Changes
          /\ \A c \in X : c.ordinal <= m
      BY DEF Refund
    <2> QED
      BY <2>1, <2>2, <2>3, <2>4 DEF Effective
  <1>2. CASE t.calls[1].reverted
    <2>1. PICK B : TracedAs(B, t.calls[1].changes, t.begin) /\ u.calls[1].changes = B \cup X
      BY <1>2 DEF Ends
    <2>2. B \in SUBSET Changes /\ \A c \in B : c.ordinal = 0 \/ c \in t.calls[1].changes
      BY <2>1 DEF TracedAs
    <2>3. n \in Nat /\ m \in Nat /\ n <= m /\ X \in SUBSET Changes
          /\ \A c \in X : c.ordinal <= m
      BY DEF Refund
    <2>4. \A c \in t.calls[1].changes : c.ordinal \in Nat /\ c.ordinal <= n
      BY DEF Preparing
    <2>5. \A c \in B \cup X : c \in Changes /\ c.ordinal <= m
      BY <2>2, <2>3, <2>4
    <2>6. Failed(u)
      BY <1>2 DEF Ends
    <2>7. Persisted(u) \subseteq u.calls[1].changes
      BY <2>6 DEF Persisted, GasChanges, SenderNonce, Authorizations, Effective
    <2> QED
      BY <2>1, <2>5, <2>7
  <1> QED
    BY <1>1, <1>2

\* d is the block b with the transaction u.
Appended(d, b, u) ==
    /\ d \in Blocks /\ d.cancun = b.cancun
    /\ Settled(d) = Settled(b) \cup Persisted(u)
    /\ AllDeletions(d) = AllDeletions(b) \cup DeletionsOf(b, u)
    /\ Rejected(b) \/ NoBoundary(u) \/ Unordered(b, u) => Rejected(d)

LEMMA AppendTx ==
    ASSUME NEW b \in Blocks, NEW u \in Transactions, NEW d,
           d = [b EXCEPT !.txs = Append(@, u)]
    PROVE  Appended(d, b, u)
  <1> DEFINE s == b.txs
             k == Len(s) + 1
  <1>1. /\ s \in Seq(Transactions) /\ d.txs = Append(s, u) /\ d \in Blocks
        /\ d.cancun = b.cancun /\ d.system = b.system /\ d.changes = b.changes
    <2> DEFINE r == Append(s, u)
    <2>1. s \in Seq(Transactions) /\ r \in Seq(Transactions) /\ d = [b EXCEPT !.txs = r]
      BY DEF Blocks
    <2> HIDE DEF r
    <2>2. d.txs = r /\ d \in Blocks /\ d.cancun = b.cancun /\ d.system = b.system
          /\ d.changes = b.changes
      BY <2>1 DEF Blocks
    <2> QED
      BY <2>1, <2>2 DEF r
  <1>2. /\ DOMAIN s = 1..Len(s) /\ DOMAIN d.txs = 1..k /\ Len(s) \in Nat
        /\ d.txs[k] = u /\ \A i \in 1..Len(s) : d.txs[i] = s[i]
    BY <1>1
  <1>3. /\ \A i \in DOMAIN s : i \in DOMAIN d.txs /\ d.txs[i] = s[i]
        /\ \A i \in DOMAIN d.txs : i \in DOMAIN s \/ i = k
        /\ k \in DOMAIN d.txs /\ d.txs[k] = u
    BY <1>2
  <1> HIDE DEF k, s
  <1>4. UNION {Persisted(d.txs[i]) : i \in DOMAIN d.txs}
            = (UNION {Persisted(s[i]) : i \in DOMAIN s}) \cup Persisted(u)
    <2>1. \A e : e \in UNION {Persisted(d.txs[i]) : i \in DOMAIN d.txs} <=>
                   \E i \in DOMAIN d.txs : e \in Persisted(d.txs[i])
      OBVIOUS
    <2>2. \A e : e \in UNION {Persisted(s[i]) : i \in DOMAIN s} <=>
                   \E i \in DOMAIN s : e \in Persisted(s[i])
      OBVIOUS
    <2>3. \A e : (\E i \in DOMAIN d.txs : e \in Persisted(d.txs[i]))
                 <=> (\E i \in DOMAIN s : e \in Persisted(s[i])) \/ e \in Persisted(u)
      BY ONLY <1>3
    <2> QED
      BY ONLY <2>1, <2>2, <2>3
  <1>5. Settled(d) = Settled(b) \cup Persisted(u)
    BY <1>1, <1>4 DEF Settled, s
  <1>6. \A t : DeletionsOf(d, t) = DeletionsOf(b, t) /\ (Unordered(d, t) <=> Unordered(b, t))
    BY <1>1, SameCancun
  <1>7. AllDeletions(d) = AllDeletions(b) \cup DeletionsOf(b, u)
    <2>0. \A e : e \in AllDeletions(d) <=> \E i \in DOMAIN d.txs : e \in DeletionsOf(d, d.txs[i])
      BY DEF AllDeletions
    <2>1. \A e : e \in AllDeletions(d) <=> \E i \in DOMAIN d.txs : e \in DeletionsOf(b, d.txs[i])
      BY ONLY <2>0, <1>6
    <2>2. \A e : e \in AllDeletions(b) <=> \E i \in DOMAIN s : e \in DeletionsOf(b, s[i])
      BY DEF AllDeletions, s
    <2>3. \A e : (\E i \in DOMAIN d.txs : e \in DeletionsOf(b, d.txs[i]))
                 <=> (\E i \in DOMAIN s : e \in DeletionsOf(b, s[i])) \/ e \in DeletionsOf(b, u)
      BY ONLY <1>3
    <2> QED
      BY ONLY <2>1, <2>2, <2>3
  <1>8. Rejected(b) \/ NoBoundary(u) \/ Unordered(b, u) => Rejected(d)
    <2>1. Suicides(d.system) = Suicides(b.system)
      BY <1>1
    <2>2. Rejected(b) => \/ Suicides(d.system) # {}
                         \/ \E i \in DOMAIN s : NoBoundary(s[i]) \/ Unordered(d, s[i])
      BY <1>6, <2>1 DEF Rejected, s
    <2>3. Unordered(b, u) <=> Unordered(d, u)
      BY <1>6
    <2> QED
      BY <1>3, <2>2, <2>3 DEF Rejected
  <1> QED
    BY <1>1, <1>5, <1>7, <1>8 DEF Appended

----------------------------------------------------------------------------
(* The end of a transaction                                                 *)

LEMMA NoRefund ==
    ASSUME NEW w, NEW n \in Nat
    PROVE  Refund({}, n, n) /\ Reaches({}, w, w, n)
  BY DEF Refund, Reaches, Effective

LEMMA RefundIs ==
    ASSUME NEW w \in Worlds, NEW a \in Accounts, NEW x \in Nat, NEW n \in Nat, NEW c, NEW v,
           BalanceChange(c, w, v, a, x, n, "gas")
    PROVE  Refund({c}, n, n + 1) /\ Reaches({c}, w, v, n) /\ v \in Worlds
  <1> DEFINE o == n + 1
  <1>1. o \in Nat /\ n < o /\ o <= n + 1
    OBVIOUS
  <1>2. v \in Worlds
    BY SetBalance DEF BalanceChange
  <1>3. "gas" \in Reasons
    BY DEF Reasons
  <1>4. /\ Records(c, w, v) /\ c.kind = "balance" /\ c.ordinal = o /\ c.reason = "gas"
    BY <1>3, BalanceRecord DEF Marked
  <1> HIDE DEF o
  <1>5. c \in Changes
    BY <1>4 DEF Records
  <1>6. Refund({c}, n, n + 1)
    BY <1>1, <1>4, <1>5 DEF Refund
  <1>7. Reaches({c}, w, v, n)
    <2> SUFFICES ASSUME NEW base, NEW C, NEW D, Earlier(C, D, n), Reflects(w, base, C, D)
                 PROVE  Reflects(v, base, C \cup Effective({c}), D)
      BY DEF Reaches
    <2>1. /\ C \in SUBSET Changes /\ \A e \in C : e.ordinal <= n
          /\ \A d \in D : d.ordinal \in Nat /\ d.ordinal <= n
      BY DEF Earlier
    <2>2. n < c.ordinal
      BY <1>1, <1>4
    <2> QED
      BY ONLY <1>4, <2>1, <2>2, RecordReflected, Reflects(w, base, C, D), n \in Nat
  <1> QED
    BY <1>2, <1>6, <1>7

LEMMA ClearedIs ==
    ASSUME NEW v \in Worlds
    PROVE  Cleared(v, {}) = v /\ \A gone : Cleared(v, gone) \in Worlds
  <1>1. NoAccount \in AccountStates
    BY DEF NoAccount, AccountStates, Codes
  <1> QED
    BY <1>1 DEF Cleared, Worlds

\* A transaction succeeds: its changes are in force, then its deletions.
LEMMA SuccessWorld ==
    ASSUME NEW t, NEW n, Preparing(t, n), ~t.calls[1].reverted,
           NEW w, NEW v \in Worlds, NEW X, NEW k \in Nat, Refund(X, n, k), Reaches(X, w, v, n),
           NEW u, Ends(u, t, X, k + 1),
           NEW made, NEW gone, NEW b, FateInv(t, <<>>, w, made, gone, b.cancun),
           ~Unordered(b, u), NEW base,
           Earlier(Settled(b), AllDeletions(b), n),
           Reflects(w, base, Settled(b) \cup Live(t), AllDeletions(b))
    PROVE  Reflects(Cleared(v, gone), base, Settled(b) \cup Persisted(u),
                    AllDeletions(b) \cup DeletionsOf(b, u))
  <1> DEFINE S == Settled(b)
             D == AllDeletions(b)
             C == (S \cup Live(t)) \cup Effective(X)
             e == k + 1
  <1>1. Persisted(u) = Live(t) \cup Effective(X)
    BY EndSuccess DEF Preparing
  <1>2. S \cup Persisted(u) = C
    BY <1>1
  <1>3. Live(t) \in SUBSET Changes /\ \A c \in Live(t) : c.ordinal <= n
    BY LiveType DEF Preparing
  <1>4. Earlier(S \cup Live(t), D, n)
    BY <1>3 DEF Earlier
  <1>5. Reflects(v, base, C, D)
    <2> HIDE DEF S, D
    <2>1. Reflects(w, base, S \cup Live(t), D)
      BY DEF S, D
    <2> QED
      BY <1>4, <2>1 DEF Reaches
  <1>6. /\ DeletionsOf(b, u) = DeletedAt(gone, u.end)
        /\ gone = {} \/ Deleting(b, u) # {}
    <2>1. SameCalls(u.calls, t.calls) /\ ~Failed(u)
      BY DEF Ends
    <2> QED
      BY <2>1, EndDeletes DEF Preparing
  <1>7. CASE gone = {}
    <2>1. Cleared(v, gone) = v /\ DeletionsOf(b, u) = {}
      BY <1>6, <1>7, ClearedIs DEF DeletedAt
    <2> QED
      BY <1>2, <1>5, <2>1
  <1>8. CASE gone # {}
    <2>1. PICK i : i \in Deleting(b, u)
      BY <1>6, <1>8
    <2>2. u.end # 0
      BY <2>1 DEF Unordered
    <2>3. u.end = e
      BY <2>2 DEF Ends
    <2>4. e \in Nat /\ n \in Nat /\ n <= k /\ k < e
      BY DEF Refund
    <2>5. \A c \in Changes : c.ordinal \in Nat
      BY DEF Changes
    <2>6. \A c \in C : c.ordinal \in Nat /\ c.ordinal <= k
      <3>1. \A c \in S \cup Live(t) : c.ordinal \in Nat /\ c.ordinal <= n
        BY <1>4, <2>5 DEF Earlier
      <3>2. \A c \in Effective(X) : c.ordinal \in Nat /\ c.ordinal <= k
        BY DEF Refund, Effective
      <3> QED
        BY <3>1, <3>2, <2>4
    <2>7. \A d \in D : d.ordinal \in Nat /\ d.ordinal <= n
      BY <1>4 DEF Earlier
    <2> HIDE DEF S, D, C, e
    <2>8. /\ \A c \in C : c.ordinal \in Nat /\ c.ordinal < e
          /\ \A d \in D : d.ordinal \in Nat /\ d.ordinal < e
      BY <2>4, <2>6, <2>7
    <2>9. Reflects(Cleared(v, gone), base, C, D \cup DeletedAt(gone, e))
      BY ONLY <1>5, <2>4, <2>8, AddDeletions
    <2> QED
      BY <1>2, <1>6, <2>3, <2>9 DEF D, S
  <1> QED
    BY <1>7, <1>8

\* A transaction fails: what it did before its root call is in force.
LEMMA FailureWorld ==
    ASSUME NEW t, NEW n, Preparing(t, n), t.calls[1].reverted,
           NEW w, NEW v, NEW X, NEW k, Refund(X, n, k), Reaches(X, w, v, n),
           NEW u, NEW e, Ends(u, t, X, e), ~NoBoundary(u), NEW b, NEW base,
           Earlier(Settled(b), AllDeletions(b), n),
           Reflects(w, base, Settled(b) \cup Live(t), AllDeletions(b))
    PROVE  Reflects(v, base, Settled(b) \cup Persisted(u), AllDeletions(b) \cup DeletionsOf(b, u))
  <1>1. PICK B : TracedAs(B, t.calls[1].changes, t.begin) /\ u.calls[1].changes = B \cup X
    BY DEF Ends
  <1>2. FailedAs(u, t, B, X)
    BY <1>1 DEF Ends, FailedAs
  <1>3. Persisted(u) = BeforeRoot(t) \cup Effective(X)
    BY <1>2, EndFailure
  <1>4. Live(t) = BeforeRoot(t)
    BY DEF Live
  <1>5. DeletionsOf(b, u) = {}
    BY <1>2 DEF DeletionsOf, Deleting, FailedAs
  <1>6. Live(t) \in SUBSET Changes /\ \A c \in Live(t) : c.ordinal <= n
    BY LiveType DEF Preparing
  <1>7. Earlier(Settled(b) \cup Live(t), AllDeletions(b), n)
    BY <1>6 DEF Earlier
  <1>8. Reflects(v, base, (Settled(b) \cup Live(t)) \cup Effective(X), AllDeletions(b))
    BY <1>7 DEF Reaches
  <1>9. Settled(b) \cup Persisted(u) = (Settled(b) \cup Live(t)) \cup Effective(X)
    BY <1>3, <1>4
  <1>10. AllDeletions(b) \cup DeletionsOf(b, u) = AllDeletions(b)
    BY <1>5
  <1> QED
    BY <1>8, <1>9, <1>10

LEMMA EndTxWith ==
    ASSUME TraceInv, tx # None, frames = <<>>, tx.begin # 0,
           NEW X, NEW k \in Nat, Refund(X, ordinal, k),
           NEW paid \in Worlds, Reaches(X, world, paid, ordinal),
           NEW u, Ends(u, tx, X, k + 1), ordinal' = k + 1,
           block' = [block EXCEPT !.txs = Append(@, u)],
           world' = IF tx.calls[1].reverted THEN paid ELSE Cleared(paid, doomed),
           tx' = None, created' = {}, doomed' = {},
           UNCHANGED <<frames, halted, output, work>>
    PROVE  TraceInv'
  <1> DEFINE S == Settled(block)
             D == AllDeletions(block)
             e == k + 1
  <1>1. Preparing(tx, ordinal)
    <2>1. tx \in Transactions /\ ordinal \in Nat /\ CallsInv(tx, ordinal) /\ RootInv(tx)
      BY DEF TraceInv, TypeInv, TxInv
    <2>2. /\ DOMAIN tx.calls = 1..Len(tx.calls) /\ tx.begin \in Nat
          /\ \A j \in 1..Len(tx.calls) : tx.calls[j].changes \in SUBSET Changes
      BY <2>1, TxCalls
    <2>3. 1 \in DOMAIN tx.calls /\ Len(tx.calls) \in Nat
      BY <2>1, <2>2, TxCalls DEF CallsInv
    <2>4. tx.calls[1].changes \in SUBSET Changes
      BY <2>2, <2>3
    <2>5. \A c \in tx.calls[1].changes : c.ordinal \in Nat /\ c.ordinal > 0 /\ c.ordinal <= ordinal
      <3>1. \A c \in tx.calls[1].changes : c.ordinal \in Nat
        BY <2>4 DEF Changes
      <3>2. \A c \in tx.calls[1].changes : 0 < c.ordinal /\ c.ordinal <= ordinal
        BY <2>1, <2>3 DEF CallsInv
      <3> QED
        BY <3>1, <3>2
    <2> QED
      BY <2>1, <2>2, <2>3, <2>4, <2>5 DEF Preparing
  <1>2. FateInv(tx, <<>>, world, created, doomed, block.cancun)
    BY DEF TraceInv, TxInv
  <1>3. Earlier(S, D, ordinal) /\ D \in SUBSET DeletionRecords /\ block \in Blocks
    BY OpenBlock DEF TraceInv, BlockInv
  <1>4. u \in Transactions
    BY DEF Ends
  <1>5. Appended(block', block, u)
    BY ONLY <1>3, <1>4, AppendTx, block' = [block EXCEPT !.txs = Append(@, u)]
  <1>6. Persisted(u) \in SUBSET Changes /\ \A c \in Persisted(u) : c.ordinal <= k
    BY <1>1, EndKeeps
  <1>7. DeletionsOf(block, u) \in SUBSET DeletionRecords
        /\ \A d \in DeletionsOf(block, u) : d.ordinal <= e
    <2>1. CASE Failed(u)
      BY <2>1 DEF DeletionsOf, Deleting
    <2>2. CASE ~Failed(u)
      <3>1. SameCalls(u.calls, tx.calls)
        BY DEF Ends
      <3>2. DeletionsOf(block, u) = DeletedAt(doomed, u.end)
        BY <1>1, <1>2, <2>2, <3>1, EndDeletes, ZenonT(30) DEF Preparing
      <3>3. u.end \in Nat /\ u.end <= e
        BY DEF Ends
      <3>4. doomed \in SUBSET Accounts
        BY DEF TraceInv, TypeInv
      <3> HIDE DEF e
      <3> QED
        BY <3>2, <3>3, <3>4 DEF DeletedAt, DeletionRecords
    <2> QED
      BY <2>1, <2>2
  <1>8. e \in Nat /\ ordinal \in Nat /\ ordinal <= e /\ k <= e /\ ordinal' = e
    BY DEF Refund
  <1>9. Earlier(S, D, e)
    BY <1>3, <1>8, EarlierLater
  <1>10. /\ Settled(block') = S \cup Persisted(u)
         /\ AllDeletions(block') = D \cup DeletionsOf(block, u)
         /\ block' \in Blocks
         /\ Rejected(block) \/ NoBoundary(u) \/ Unordered(block, u) => Rejected(block')
    BY <1>5 DEF Appended
  <1> HIDE DEF S, D, e
  <1>11. BlockInv(block', ordinal')
    <2>1. \A c \in Persisted(u) : c.ordinal <= e
      <3>1. \A c \in Persisted(u) : c.ordinal \in Nat
        BY <1>6 DEF Changes
      <3> QED
        BY <1>6, <1>8, <3>1
    <2> QED
      BY <1>3, <1>6, <1>7, <1>8, <1>9, <1>10, <2>1 DEF BlockInv, Earlier
  <1>12. world' \in Worlds
    BY ClearedIs
  <1>13. TypeInv'
    <2>1. ordinal' \in Nat /\ created' \in SUBSET Accounts /\ doomed' \in SUBSET Accounts
      BY <1>8
    <2>2. work' \in Workloads /\ halted' \in BOOLEAN /\ frames' \in Seq(Frames)
      BY DEF TraceInv, TypeInv
    <2>3. /\ rows' \in Seq(Rows) /\ states' \in Seq(Worlds) /\ Len(states') = Len(rows') + 1
          /\ tables' \in SUBSET Entries
      BY DEF TraceInv, TypeInv, output
    <2> QED
      BY <1>10, <1>12, <2>1, <2>2, <2>3 DEF TypeInv
  <1>14. IdleInv' /\ TxInv'
    BY DEF TraceInv, IdleInv, TxInv
  <1>15. StateInv'
    <2>1. Base' = Base
      BY DEF Base, output
    <2>2. CASE halted \/ Rejected(block')
      BY <2>2 DEF StateInv
    <2>3. CASE ~halted /\ ~Rejected(block')
      <3>1. ~Rejected(block) /\ ~NoBoundary(u) /\ ~Unordered(block, u)
        BY <1>10, <2>3
      <3>2. Reflects(world, Base, S \cup Live(tx), D)
        BY <2>3, <3>1 DEF TraceInv, StateInv, WorldInv, S, D
      <3>3. Reflects(world', Base, S \cup Persisted(u), D \cup DeletionsOf(block, u))
        <4>1. CASE tx.calls[1].reverted
          BY <1>1, <1>3, <3>1, <3>2, <4>1, FailureWorld DEF S, D
        <4>2. CASE ~tx.calls[1].reverted
          BY <1>1, <1>2, <1>3, <3>1, <3>2, <4>2, SuccessWorld DEF S, D
        <4> QED
          BY <4>1, <4>2
      <3> QED
        BY <1>10, <2>1, <3>3 DEF StateInv
    <2> QED
      BY <2>2, <2>3
  <1> QED
    BY <1>11, <1>13, <1>14, <1>15 DEF TraceInv

LEMMA EndTxStep ==
    ASSUME TraceInv, EndTx
    PROVE  TraceInv'
  <1> DEFINE pays == tx.from # None /\ "gas" \in work.ops
             amounts == IF pays THEN 0..MaxValue ELSE {0}
             k == IF pays THEN ordinal + 1 ELSE ordinal
             refund(b) == IF pays THEN {Field("balance", tx.from, b, ordinal + 1, "gas")} ELSE {}
             paid(b) == IF pays THEN [world EXCEPT ![tx.from].balance = b] ELSE world
             ok == ~tx.calls[1].reverted
             trace(q) == IF q THEN Unnumbered(tx) ELSE tx
             ended(b, q, lost) ==
                [trace(q) EXCEPT !.status = IF ok THEN "succeeded" ELSE "reverted",
                                 !.begin = IF lost THEN 0 ELSE @,
                                 !.end = IF lost THEN 0 ELSE ordinal',
                                 !.calls[1].changes = @ \cup refund(b)]
  <1>1. /\ tx # None /\ frames = <<>> /\ tx.begin # 0
        /\ Tick(IF pays THEN 2 ELSE 1)
        /\ tx' = None /\ created' = {} /\ doomed' = {}
        /\ UNCHANGED <<frames, halted, output, work>>
    BY DEF EndTx
  <1>2. PICK b \in amounts, q \in IF tx.calls[1].reverted THEN BOOLEAN ELSE {FALSE},
             lost \in IF "unreliable" \in work.ops THEN BOOLEAN ELSE {FALSE} :
           /\ block' = [block EXCEPT !.txs = Append(@, ended(b, q, lost))]
           /\ world' = IF ok THEN [a \in Accounts |-> IF a \in doomed THEN NoAccount ELSE paid(b)[a]]
                       ELSE paid(b)
    BY DEF EndTx
  <1>3. /\ tx \in Transactions /\ ordinal \in Nat /\ world \in Worlds /\ CallsInv(tx, ordinal)
    BY <1>1 DEF TraceInv, TypeInv, TxInv
  <1>4. 1 \in DOMAIN tx.calls /\ (ok \in BOOLEAN) /\ tx.from \in Accounts \cup {None}
    <2>1. DOMAIN tx.calls = 1..Len(tx.calls) /\ Len(tx.calls) \in Nat
      BY <1>3, TxCalls
    <2> QED
      BY <1>3, <2>1 DEF CallsInv, Transactions
  <1>5. k \in Nat /\ ordinal' = k + 1
    BY <1>1, <1>3 DEF Tick
  <1>6. Refund(refund(b), ordinal, k) /\ Reaches(refund(b), world, paid(b), ordinal)
        /\ paid(b) \in Worlds
    <2>1. CASE ~pays
      BY <1>3, <2>1, NoRefund
    <2>2. CASE pays
      <3> DEFINE c == Field("balance", tx.from, b, ordinal + 1, "gas")
                 v == [world EXCEPT ![tx.from].balance = b]
      <3>1. BalanceChange(c, world, v, tx.from, b, ordinal, "gas")
        BY DEF BalanceChange, Field
      <3>2. b \in Nat /\ tx.from \in Accounts
        BY <1>4, <2>2, TraceAssumption
      <3>3. refund(b) = {c} /\ paid(b) = v /\ k = ordinal + 1
        BY <2>2
      <3> HIDE DEF c, v, refund, paid, k
      <3>4. Refund({c}, ordinal, ordinal + 1) /\ Reaches({c}, world, v, ordinal) /\ v \in Worlds
        BY ONLY <1>3, <3>1, <3>2, RefundIs
      <3> QED
        BY <3>3, <3>4
    <2> QED
      BY <2>1, <2>2
  <1>7. Traces(trace(q), tx)
    <2>1. CASE q
      BY <1>2, <1>3, <1>4, <2>1, UnnumberedIs
    <2>2. CASE ~q
      BY <1>3, <1>4, <2>2, TracesItself
    <2> QED
      BY <2>1, <2>2
  <1>8. Ends(ended(b, q, lost), tx, refund(b), k + 1)
    <2> DEFINE u == ended(b, q, lost)
               n == k + 1
    <2>1. u = [trace(q) EXCEPT !.status = IF ok THEN "succeeded" ELSE "reverted",
                               !.begin = IF lost THEN 0 ELSE @,
                               !.end = IF lost THEN 0 ELSE n,
                               !.calls[1].changes = @ \cup refund(b)]
      BY <1>5
    <2>2. refund(b) \in SUBSET Changes
      BY <1>6 DEF Refund
    <2>3. n \in Nat
      BY <1>5
    <2>4. (ok <=> ~tx.calls[1].reverted) /\ lost \in BOOLEAN
      BY <1>2
    <2> HIDE DEF u, n, ok, refund, trace, k
    <2>5. Ends(u, tx, refund(b), n)
      BY ONLY <1>3, <1>4, <1>7, <2>1, <2>2, <2>3, <2>4, EndedIs
    <2> QED
      BY <2>5 DEF u, n
  <1>9. world' = IF tx.calls[1].reverted THEN paid(b) ELSE Cleared(paid(b), doomed)
    BY <1>2 DEF Cleared
  <1>10. block' = [block EXCEPT !.txs = Append(@, ended(b, q, lost))]
    BY <1>2
  <1> HIDE DEF ended, refund, paid, k, trace, ok
  <1> QED
    BY ONLY <1>1, <1>5, <1>6, <1>8, <1>9, <1>10, EndTxWith, TraceInv

----------------------------------------------------------------------------
(* Every behaviour                                                          *)

LEMMA InitInv ==
    ASSUME Init
    PROVE  TraceInv /\ FoldIsState /\ TablesInv
  <1>1. /\ work \in Workloads /\ work.states \subseteq AccountStates
        /\ work.accounts \subseteq Accounts
    BY TraceAssumption DEF Init
  <1>2. NoAccount \in AccountStates
    BY DEF NoAccount, AccountStates, Codes
  <1>3. world \in Worlds
    BY <1>1, <1>2 DEF Init, Worlds
  <1>4. PICK cancun \in BOOLEAN : block = NoBlock(cancun)
    BY DEF Init
  <1>5. block \in Blocks /\ Settled(block) = {} /\ AllDeletions(block) = {}
    BY <1>4, NoBlockIs
  <1>6. /\ states = <<world>> /\ rows = <<>> /\ tables = {} /\ ordinal = 0 /\ tx = None
        /\ frames = <<>> /\ created = {} /\ doomed = {} /\ halted = FALSE
    BY DEF Init
  <1>7. states \in Seq(Worlds) /\ Len(states) = 1 /\ states[1] = world
    BY <1>3, <1>6
  <1>8. rows \in Seq(Rows) /\ Len(rows) = 0 /\ frames \in Seq(Frames)
    BY <1>6
  <1>9. TypeInv
    <2>1. /\ ordinal \in Nat /\ halted \in BOOLEAN /\ tables \in SUBSET Entries
          /\ created \in SUBSET Accounts /\ doomed \in SUBSET Accounts
      BY <1>6
    <2>2. Len(states) = Len(rows) + 1
      BY <1>7, <1>8
    <2>3. tx = None
      BY <1>6
    <2> QED
      BY ONLY <1>1, <1>3, <1>5, <1>7, <1>8, <2>1, <2>2, <2>3 DEF TypeInv
  <1>10. BlockInv(block, ordinal)
    BY <1>5 DEF BlockInv
  <1>11. IdleInv /\ TxInv
    BY <1>6 DEF IdleInv, TxInv
  <1>12. Base = world
    BY <1>7 DEF Base
  <1>13. StateInv
    BY <1>5, <1>6, <1>12, ReflectsItself DEF StateInv
  <1>14. FoldIsState
    <2> SUFFICES ASSUME NEW n \in DOMAIN states, NEW k \in 1..n
                 PROVE  Folded(Observed(states[k]), k - 1, rows, n - 1) = Observed(states[n])
      BY DEF FoldIsState
    <2>1. n = 1 /\ k = 1
      BY <1>7
    <2>2. Folded(Observed(world), 0, rows, 0) = Observed(world)
      BY <1>3, FoldSelf
    <2>3. k - 1 = 0 /\ n - 1 = 0 /\ states[k] = world /\ states[n] = world
      BY <2>1, <1>7
    <2> QED
      BY <2>2, <2>3
  <1>15. TablesInv
    BY <1>6 DEF TablesInv, UpToDate
  <1> QED
    BY <1>9, <1>10, <1>11, <1>13, <1>14, <1>15 DEF TraceInv

LEMMA NextInv ==
    ASSUME TraceInv, Next
    PROVE  TraceInv'
  <1>1. /\ work.accounts \subseteq Accounts /\ work.senders \subseteq Accounts \cup {None}
        /\ 0..MaxValue \subseteq Nat
    BY TraceAssumption DEF TraceInv, TypeInv
  <1>2. CASE \E from \in work.senders : BeginTx(from)
    BY <1>1, <1>2, BeginTxStep
  <1>3. CASE \E a \in work.accounts : Authorize(a)
    BY <1>1, <1>3, AuthorizeStep
  <1>4. CASE \E type \in {"call", "create"}, a \in work.accounts : BeginRoot(type, a)
    BY <1>1, <1>4, BeginRootStep
  <1>5. CASE Execute
    <2>1. CASE \E s \in Slots, v \in 0..MaxValue : Write(s, v)
      BY <1>1, <2>1, WriteStep
    <2>2. CASE \E a \in work.accounts, v \in 0..MaxValue : Transfer(a, v)
      BY <1>1, <2>2, TransferStep
    <2>3. CASE \E type \in {"call", "delegate", "create"}, a \in work.accounts : Enter(type, a)
      BY <1>1, <2>3, EnterStep
    <2>4. CASE Exit \/ SelfDestruct \/ Revert
      BY <2>4, ExitStep, SelfDestructStep, RevertStep
    <2> QED
      BY <1>5, <2>1, <2>2, <2>3, <2>4 DEF Execute
  <1>6. CASE EndTx
    BY <1>6, EndTxStep
  <1>7. CASE \E a \in work.accounts, s \in Slots, v \in 0..MaxValue, r \in BOOLEAN :
                SystemCall(a, s, v, r)
    BY <1>1, <1>7, SystemCallStep
  <1>8. CASE \E a \in work.accounts, v \in 0..MaxValue : Reward(a, v)
    BY <1>1, <1>8, RewardStep
  <1>9. CASE EndBlock
    BY <1>9, EndBlockStep
  <1> QED
    BY <1>2, <1>3, <1>4, <1>5, <1>6, <1>7, <1>8, <1>9 DEF Next

LEMMA StutterInv ==
    ASSUME TraceInv, UNCHANGED vars
    PROVE  TraceInv'
  <1>1. TypeInv' /\ IdleInv' /\ BlockInv(block, ordinal)'
    BY DEF TraceInv, TypeInv, IdleInv, vars, output
  <1>2. TxInv'
    BY DEF TraceInv, TxInv, vars
  <1>3. Base' = Base
    BY DEF Base, vars
  <1>4. StateInv'
    BY <1>3 DEF TraceInv, StateInv, vars
  <1> QED
    BY <1>1, <1>2, <1>4 DEF TraceInv

\* Only the end of a block has output.
LEMMA OutputStep ==
    ASSUME [Next]_vars
    PROVE  EndBlock \/ UNCHANGED output
  BY ZenonT(30)
     DEF Next, Execute, BeginTx, Authorize, BeginRoot, Write, Transfer, Enter, Exit, SelfDestruct,
         Revert, EndTx, SystemCall, Reward, vars, output

\* Until the mapper refuses a block, the state of the chain, and every state an
\* open call would return to, is the last block's state with the effective changes
\* and the deletions of the trace so far applied in the order of their ordinals:
\* what persist.rs and lifecycle.rs keep of a trace is what execution did.
THEOREM TraceInvariant == Spec => []TraceInv
  <1>1. Init => TraceInv
    BY InitInv
  <1>2. TraceInv /\ [Next]_vars => TraceInv'
    BY NextInv, StutterInv
  <1> QED
    BY <1>1, <1>2, PTL DEF Spec

\* A checkpoint that checkpoint.rs builds on the checkpoint of any earlier block
\* from the rows map_block_state returned since is the state of the chain, whatever
\* was reverted, delegated, destroyed, recreated or left of a failed transaction:
\* for any accounts and slots, any initial state, any depth of calls and any number
\* of blocks.
THEOREM FoldsAreTheState == Spec => []FoldIsState
  <1>1. Init => FoldIsState
    BY InitInv
  <1>2. TraceInv /\ FoldIsState /\ [Next]_vars => FoldIsState'
    <2> SUFFICES ASSUME TraceInv, FoldIsState, [Next]_vars
                 PROVE  FoldIsState'
      OBVIOUS
    <2>1. CASE EndBlock
      BY <2>1, FoldIsStateStep
    <2>2. CASE UNCHANGED output
      BY <2>2 DEF FoldIsState, output
    <2> QED
      BY <2>1, <2>2, OutputStep
  <1> QED
    BY <1>1, <1>2, TraceInvariant, PTL DEF Spec

\* What the upserts of db_out leave in the current-state tables is the chain's
\* value for every account no row has deleted, as of the last block, whichever
\* order db_out's HashMap gives the two spellings of a slot, unless the last
\* block that changed the slot spelled it in both ways.
THEOREM TablesStayCurrent == Spec => []TablesAreCurrent
  <1>1. Init => TablesInv
    BY InitInv
  <1>2. TraceInv /\ TablesInv /\ [Next]_vars => TablesInv'
    <2> SUFFICES ASSUME TraceInv, TablesInv, [Next]_vars
                 PROVE  TablesInv'
      OBVIOUS
    <2>1. CASE EndBlock
      BY <2>1, TablesStep
    <2>2. CASE UNCHANGED output
      BY <2>2 DEF TablesInv, Base, output
    <2> QED
      BY <2>1, <2>2, OutputStep
  <1>3. TraceInv /\ TablesInv => TablesAreCurrent
    BY DEF TablesInv, UpToDate, DeletedIn, TablesAreCurrent, InState, At, Base
  <1> QED
    BY <1>1, <1>2, <1>3, TraceInvariant, PTL DEF Spec

============================================================================
