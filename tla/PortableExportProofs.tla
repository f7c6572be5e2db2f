------------------------ MODULE PortableExportProofs ------------------------
(***************************************************************************)
(* Portable directories, for any accounts, storage and page size, and any  *)
(* number of damaged files.                                                *)
(*                                                                         *)
(* ExportInv is inductive.  ChainInv says that the pages cut the accounts' *)
(* rows one after the other (Cut, in terms of Held: how many rows of an    *)
(* account the first pages hold).  DecayInv orders a page, its checksum    *)
(* and its file now: damage never gives a lost or altered row back, so a   *)
(* verified reading proves the checksum (ReadInv).  CleanInv is about a    *)
(* directory that nothing damaged.                                         *)
(***************************************************************************)
EXTENDS PortableExport, FiniteSetTheorems, WellFoundedInduction, TLAPS

Contents == Seq(FileRows)
Counts == [Accounts -> Nat]
Items == [file : Nat, address : Accounts, rows : Nat, sum : Contents, first : Slots, last : Slots]
Layouts == [accounts : Counts \cup {None}, pages : Seq(Items)]
WriteSteps == {"start", "hash accounts", "pages", "hash"}
ReadSteps == {"check", "read", "icheck", "insert"}

TableInv ==
    /\ table \in [Accounts -> Seq(Rows)] /\ size \in Nat \ {0}
    /\ \A a \in Accounts : /\ Ascending(table[a]) /\ Len(table[a]) <= Cardinality(Slots)
                           /\ \A k \in DOMAIN table[a] : table[a][k].address = a
    /\ bytes \in [accounts : Nat, checkpoint : Nat]

TypeInv ==
    /\ TableInv
    /\ accounts \in Counts \cup {None} /\ file \in Seq(Contents \cup {None})
    /\ manifest \in Layouts \cup {None} /\ layout \in Layouts
    /\ op \in {"export", "verify", "import", None} /\ pc \in WriteSteps \cup ReadSteps \cup {"end"}
    /\ written \in Counts /\ read \in Nat /\ seen \in [Accounts -> Contents]
    /\ meta \in Counts \cup {None} /\ stored \in SUBSET FileRows
    /\ damages \in Nat

\* What each step has and has not to do with the others.
StepInv ==
    /\ pc = "end" <=> op = None
    /\ pc = "end" => read = 0 /\ seen = Nothing
    /\ pc \in WriteSteps => op = "export" /\ read = 0 /\ seen = Nothing /\ meta = None
    /\ pc \in {"icheck", "insert"} => op = "import"
    /\ pc \in {"start", "hash accounts"} => layout = NoLayout
    /\ pc = "hash" => Unwritten # {}
    /\ op = "export" => manifest = None
    /\ op \in {"verify", "import"} => manifest # None /\ layout = manifest
    /\ op # None => Len(file) = IF pc = "hash" THEN Len(layout.pages) + 1 ELSE Len(layout.pages)
    /\ manifest # None => Len(file) = Len(manifest.pages)
    /\ op # "import" => stored = {}
    /\ pc \in {"check", "read"} => stored = {}
    /\ read <= Len(layout.pages) + 1
    /\ pc \in {"read", "insert"} => read <= Len(layout.pages)

\* Where in its account's rows a page begins and ends.
At(a, slot) == CHOOSE k \in DOMAIN table[a] : table[a][k].slot = slot
From(item) == At(item.address, item.first)
To(item) == At(item.address, item.last)
PageOf(item) == SubSeq(table[item.address], From(item), To(item))

\* How many rows of an account the first r pages hold.
Held(pages, r, a) ==
    IF r = 0 \/ a > pages[r].address THEN 0
    ELSE IF a = pages[r].address THEN To(pages[r]) ELSE Len(table[a])

\* Page n goes on where the pages before it ended, and no account is passed over.
Cut(pages, n) ==
    LET item == pages[n]
    IN  /\ item.file = n
        /\ From(item) \in Nat \ {0} /\ To(item) \in Nat
        /\ From(item) <= To(item) /\ To(item) <= Len(table[item.address])
        /\ item.first = table[item.address][From(item)].slot
        /\ item.last = table[item.address][To(item)].slot
        /\ item.rows = To(item) - From(item) + 1
        /\ From(item) = Held(pages, n - 1, item.address) + 1
        /\ \A a \in Accounts \ {item.address} : Held(pages, n, a) = Held(pages, n - 1, a)

Chain(pages) == \A n \in DOMAIN pages : Cut(pages, n)
Complete(pages) == \A a \in Accounts : Held(pages, Len(pages), a) = Len(table[a])

ChainInv ==
    /\ op # None => Chain(layout.pages)
    /\ op = "export" => \A a \in Accounts : written[a] = Held(layout.pages, Len(layout.pages), a)
    /\ pc \in ReadSteps => Complete(layout.pages)

\* A file with these rows now held those then.
Decayed(now, then) ==
    now # None => /\ Len(now) <= Len(then)
                  /\ \A k \in DOMAIN now : now[k] = then[k] \/ now[k].value = Bad
Grown(now, then) == now # None => \A a \in Accounts : then[a] <= now[a]

DecayInv ==
    op = "export" =>
        /\ Grown(accounts, AccountRows)
        /\ pc \notin {"start", "hash accounts"} =>
              /\ layout.accounts # None
              /\ Grown(layout.accounts, AccountRows) /\ Grown(accounts, layout.accounts)
        /\ \A n \in DOMAIN layout.pages :
              /\ Decayed(layout.pages[n].sum, PageOf(layout.pages[n]))
              /\ Decayed(file[n], layout.pages[n].sum)
        /\ pc = "hash" => Decayed(file[Len(file)], NextPage)

Intact(item) == item.sum = PageOf(item)
HasBad(rows) == \E k \in DOMAIN rows : rows[k].value = Bad

ReadInv ==
    op = "export" =>
        /\ \A n \in DOMAIN layout.pages : n < read =>
              Intact(layout.pages[n]) \/ HasBad(seen[layout.pages[n].address])
        /\ Grown(meta, layout.accounts)

ManifestInv ==
    manifest # None =>
        /\ manifest.accounts = AccountRows
        /\ Chain(manifest.pages) /\ Complete(manifest.pages)
        /\ \A n \in DOMAIN manifest.pages : Intact(manifest.pages[n])

\* How many pages an operation has read.
PagesRead == IF pc \in {"icheck", "insert"}
             THEN (IF read <= Len(layout.pages) THEN read ELSE Len(layout.pages))
             ELSE (IF read = 0 THEN 0 ELSE read - 1)
HeldRows(a) == SubSeq(table[a], 1, Held(layout.pages, PagesRead, a))

CleanInv ==
    damages = 0 =>
        /\ refused => ~WithinLimits
        /\ (op = "export" /\ pc # "start") \/ manifest # None => accounts = AccountRows
        /\ op = "export" =>
              /\ pc \notin {"start", "hash accounts"} => layout.accounts = AccountRows
              /\ \A n \in DOMAIN layout.pages : Intact(layout.pages[n])
              /\ pc = "hash" => file[Len(file)] = NextPage
        /\ op # None => \A n \in DOMAIN layout.pages : file[n] = layout.pages[n].sum
        /\ manifest # None => \A n \in DOMAIN manifest.pages : file[n] = manifest.pages[n].sum
        /\ pc \in {"check", "read"} => /\ read > 0 => meta = AccountRows
                                       /\ \A a \in Accounts : seen[a] = HeldRows(a)
        /\ pc \in {"icheck", "insert"} =>
              /\ AllRead => meta = AccountRows
              /\ \A a \in Accounts : {row \in stored : row.address = a} = ToSet(HeldRows(a))

\* Pages of which an export has written rows.
Begun == {p \in PageStarts : p[2] * size < written[p[1]]}
Aligned(a) == \E m \in 0..Cardinality(Slots) : written[a] = m * size

\* An export has as many pages as have begun, and in the end as many as needed.
LimitInv ==
    /\ pc \in WriteSteps => /\ Len(layout.pages) = Cardinality(Begun)
                           /\ \A a \in Accounts : written[a] < Len(table[a]) => Aligned(a)
    /\ pc \in ReadSteps => Len(layout.pages) = PagesNeeded
    /\ manifest # None => Len(manifest.pages) = PagesNeeded

ExportInv == /\ TypeInv /\ StepInv /\ LimitInv /\ ChainInv /\ DecayInv /\ ReadInv /\ ManifestInv
             /\ CleanInv /\ ImportExact

----------------------------------------------------------------------------
(* Rows in order                                                            *)

\* A non-empty set of natural numbers has a least element.
LEMMA LeastNumber ==
    ASSUME NEW T \in SUBSET Nat, T # {}
    PROVE  \E x \in T : \A y \in T : x <= y
  <1> DEFINE R == OpToRel(<, Nat)
  <1>1. PICK x \in T : \A y \in T : ~(<<y, x>> \in R)
    BY NatLessThanWellFounded, WFMin
  <1>2. \A y \in T : ~(y < x)
    BY <1>1 DEF OpToRel
  <1> QED
    BY <1>2

LEMMA FieldTypes ==
    /\ Slots \subseteq Nat /\ Accounts \subseteq Nat /\ Rows \subseteq FileRows
    /\ \A row \in FileRows : row.slot \in Nat /\ row.address \in Accounts
                             /\ row = [address |-> row.address, slot |-> row.slot, value |-> row.value]
    /\ \A row \in Rows : row.value \in Values /\ row.value # Bad
  <1>1. Slots \subseteq Nat /\ Accounts \subseteq Nat /\ Bad \notin Values
    BY ExportAssumption
  <1>2. Rows \subseteq FileRows
    BY DEF Rows, FileRows
  <1>3. \A row \in FileRows : row.slot \in Nat /\ row.address \in Accounts
                             /\ row = [address |-> row.address, slot |-> row.slot, value |-> row.value]
    <2> SUFFICES ASSUME NEW row \in FileRows
                 PROVE  /\ row.slot \in Nat /\ row.address \in Accounts
                        /\ row = [address |-> row.address, slot |-> row.slot, value |-> row.value]
      OBVIOUS
    <2>1. row.slot \in Slots /\ row.address \in Accounts
      BY DEF FileRows
    <2>2. row = [address |-> row.address, slot |-> row.slot, value |-> row.value]
      BY DEF FileRows
    <2>3. row.slot \in Nat
      BY <1>1, <2>1
    <2> QED
      BY <2>1, <2>2, <2>3
  <1>4. \A row \in Rows : row.value \in Values /\ row.value # Bad
    BY <1>1 DEF Rows
  <1> QED
    BY <1>1, <1>2, <1>3, <1>4

\* Rows that ascend one by one ascend.
LEMMA AscendingOrder ==
    ASSUME NEW s \in Seq(FileRows), Ascending(s),
           NEW j \in DOMAIN s, NEW k \in DOMAIN s, j < k
    PROVE  s[j].slot < s[k].slot
  <1> DEFINE T == {m \in DOMAIN s : j < m /\ ~(s[j].slot < s[m].slot)}
  <1>1. T \in SUBSET Nat
    OBVIOUS
  <1>2. SUFFICES ASSUME T # {} PROVE FALSE
    OBVIOUS
  <1>3. PICK m \in T : \A y \in T : m <= y
    BY <1>1, <1>2, LeastNumber
  <1>4. m \in Nat /\ j \in Nat /\ m - 1 \in DOMAIN s /\ m > 1
    BY <1>3
  <1>5. s[m].slot \in Nat /\ s[m - 1].slot \in Nat /\ s[j].slot \in Nat
    BY <1>3, <1>4, FieldTypes
  <1>6. s[m].slot > s[m - 1].slot
    BY <1>3, <1>4 DEF Ascending
  <1>7. CASE m - 1 = j
    BY <1>3, <1>5, <1>6, <1>7
  <1>8. CASE m - 1 # j
    <2>1. m - 1 \notin T
      BY <1>3, <1>4
    <2>2. j < m - 1
      BY <1>3, <1>4, <1>8
    <2> QED
      BY <1>3, <1>4, <1>5, <1>6, <2>1, <2>2
  <1> QED
    BY <1>7, <1>8

\* As many rows, and as many pairs of slot and value, as positions.
LEMMA RowCount ==
    ASSUME NEW s \in Seq(FileRows), Ascending(s)
    PROVE  /\ Cardinality(ToSet(s)) = Len(s)
           /\ Cardinality(StorageOf(ToSet(s))) = Len(s)
  <1> DEFINE D == 1..Len(s)
             f == [k \in D |-> s[k]]
             g == [k \in D |-> <<s[k].slot, s[k].value>>]
  <1>1. \A j, k \in D : j # k => s[j].slot # s[k].slot
    <2> SUFFICES ASSUME NEW j \in D, NEW k \in D, j # k PROVE s[j].slot # s[k].slot
      OBVIOUS
    <2>1. s[j].slot \in Nat /\ s[k].slot \in Nat
      BY FieldTypes
    <2>2. j < k \/ k < j
      OBVIOUS
    <2> QED
      BY <2>1, <2>2, AscendingOrder
  <1>2. IsFiniteSet(D) /\ Cardinality(D) = Len(s)
    <2>1. 1 \in Int /\ Len(s) \in Int /\ Len(s) \in Nat
      OBVIOUS
    <2>2. /\ IsFiniteSet(D)
          /\ Cardinality(D) = IF 1 > Len(s) THEN 0 ELSE Len(s) - 1 + 1
      BY <2>1, FS_Interval
    <2> QED
      BY <2>1, <2>2
  <1>3. f \in Bijection(D, ToSet(s))
    BY <1>1 DEF Bijection, Injection, Surjection, IsInjective, ToSet
  <1>4. StorageOf(ToSet(s)) = {<<s[k].slot, s[k].value>> : k \in D}
    BY DEF StorageOf, ToSet
  <1>5. g \in Bijection(D, StorageOf(ToSet(s)))
    <2>1. \A j, k \in D : j # k => g[j] # g[k]
      BY <1>1
    <2>2. g \in [D -> StorageOf(ToSet(s))]
      BY <1>4
    <2> QED
      BY <1>4, <2>1, <2>2 DEF Bijection, Injection, Surjection, IsInjective
  <1> QED
    BY <1>2, <1>3, <1>5, FS_Bijection DEF ExistsBijection

LEMMA TableRows ==
    ASSUME TableInv, NEW a \in Accounts
    PROVE  /\ table[a] \in Seq(FileRows) /\ table[a] \in Seq(Rows) /\ Len(table[a]) \in Nat
           /\ Ascending(table[a])
           /\ \A k \in DOMAIN table[a] : table[a][k] \in Rows /\ table[a][k].address = a
  BY FieldTypes DEF TableInv

LEMMA AtSlot ==
    ASSUME TableInv, NEW a \in Accounts, NEW k \in DOMAIN table[a]
    PROVE  At(a, table[a][k].slot) = k
  <1>1. \A j \in DOMAIN table[a] : table[a][j].slot = table[a][k].slot => j = k
    <2> SUFFICES ASSUME NEW j \in DOMAIN table[a], table[a][j].slot = table[a][k].slot, j # k
                 PROVE  FALSE
      OBVIOUS
    <2>1. j < k \/ k < j
      BY TableRows
    <2>2. table[a][k].slot \in Nat
      BY TableRows, FieldTypes
    <2> QED
      BY <2>1, <2>2, TableRows, AscendingOrder
  <1> QED
    BY <1>1 DEF At

----------------------------------------------------------------------------
(* Pages                                                                    *)

LEMMA PageShape ==
    ASSUME TableInv, NEW a \in Accounts, NEW i \in Nat \ {0}, NEW j \in Nat,
           i <= j, j <= Len(table[a])
    PROVE  /\ SubSeq(table[a], i, j) \in Seq(Rows) /\ SubSeq(table[a], i, j) \in Contents
           /\ Len(SubSeq(table[a], i, j)) = j - i + 1
           /\ SubSeq(table[a], i, j) # <<>>
           /\ \A k \in 1..(j - i + 1) : SubSeq(table[a], i, j)[k] = table[a][i + k - 1]
           /\ \A k \in 1..(j - i + 1) : SubSeq(table[a], i, j)[k].address = a
           /\ Ascending(SubSeq(table[a], i, j))
           /\ Head(SubSeq(table[a], i, j)) = table[a][i] /\ Last(SubSeq(table[a], i, j)) = table[a][j]
  <1> DEFINE s == table[a]
             page == SubSeq(s, i, j)
  <1>1. s \in Seq(Rows) /\ s \in Seq(FileRows) /\ Len(s) \in Nat /\ Ascending(s)
        /\ \A k \in DOMAIN s : s[k].address = a
    BY TableRows
  <1> HIDE DEF s
  <1>2. page \in Seq(Rows) /\ Len(page) = j - i + 1
    BY <1>1 DEF s
  <1>3. page \in Contents
    BY <1>1 DEF Contents, s
  <1>4. \A k \in 1..(j - i + 1) : page[k] = s[i + k - 1]
    BY <1>1 DEF s
  <1>5. page # <<>>
    <2>1. Len(page) # 0
      BY <1>2
    <2>2. Len(<<>>) = 0
      OBVIOUS
    <2> QED
      BY <2>1, <2>2, Zenon
  <1>6. DOMAIN page = 1..(j - i + 1)
    BY <1>2
  <1>7. Head(page) = s[i] /\ Last(page) = s[j]
    <2>1. Head(page) = page[1] /\ page[1] = s[i]
      BY <1>2, <1>4, <1>5
    <2>2. Last(page) = page[j - i + 1] /\ page[j - i + 1] = s[j]
      BY <1>2, <1>4 DEF Last
    <2> QED
      BY <2>1, <2>2
  <1>8. \A k \in 1..(j - i + 1) : page[k].address = a
    <2> SUFFICES ASSUME NEW k \in 1..(j - i + 1) PROVE page[k].address = a
      OBVIOUS
    <2>1. i + k - 1 \in DOMAIN s
      BY <1>1 DEF s
    <2> QED
      BY <1>1, <1>4, <2>1
  <1>9. Ascending(page)
    <2> SUFFICES ASSUME NEW k \in 1..(j - i + 1), k > 1 PROVE page[k].slot > page[k - 1].slot
      BY <1>6 DEF Ascending
    <2>1. /\ i + k - 1 \in DOMAIN s /\ i + k - 1 > 1 /\ i + (k - 1) - 1 = (i + k - 1) - 1
          /\ k - 1 \in 1..(j - i + 1)
      BY <1>1 DEF s
    <2>2. s[i + k - 1].slot > s[(i + k - 1) - 1].slot
      BY <1>1, <2>1 DEF Ascending
    <2> QED
      BY <1>4, <2>1, <2>2
  <1> QED
    BY <1>2, <1>3, <1>4, <1>5, <1>7, <1>8, <1>9 DEF s

\* Facts about the constants that no step changes.
LEMMA NoneApart ==
    /\ None \notin Contents /\ None \notin Counts
    /\ None # "export" /\ None # "verify" /\ None # "import"
  BY ExportAssumption DEF Contents, Counts

LEMMA CurrentLeast ==
    ASSUME TypeInv, Unwritten # {}
    PROVE  /\ Current \in Accounts /\ Current \in Unwritten
           /\ \A b \in Unwritten : Current <= b
           /\ written[Current] \in Nat /\ written[Current] < Len(table[Current])
           /\ PageEnd \in Nat /\ written[Current] < PageEnd /\ PageEnd <= Len(table[Current])
           /\ PageEnd < Len(table[Current]) => PageEnd = written[Current] + size
  <1>1. Unwritten \in SUBSET Nat
    BY FieldTypes DEF Unwritten
  <1>2. \E a \in Unwritten : \A b \in Unwritten : a <= b
    BY <1>1, LeastNumber
  <1>3. Current \in Unwritten /\ \A b \in Unwritten : Current <= b
    BY <1>2 DEF Current
  <1>4. Current \in Accounts /\ written[Current] < Len(table[Current])
    BY <1>3 DEF Unwritten
  <1>5. written[Current] \in Nat /\ Len(table[Current]) \in Nat /\ size \in Nat /\ size > 0
    BY <1>4, TableRows DEF TypeInv, TableInv, Counts
  <1>6. /\ PageEnd \in Nat /\ written[Current] < PageEnd /\ PageEnd <= Len(table[Current])
        /\ PageEnd < Len(table[Current]) => PageEnd = written[Current] + size
    BY <1>4, <1>5 DEF PageEnd
  <1> QED
    BY <1>3, <1>4, <1>5, <1>6

LEMMA NextPageShape ==
    ASSUME TypeInv, Unwritten # {}
    PROVE  /\ NextPage \in Contents /\ NextPage # <<>>
           /\ Len(NextPage) = PageEnd - written[Current]
           /\ Head(NextPage) = table[Current][written[Current] + 1]
           /\ Last(NextPage) = table[Current][PageEnd]
           /\ table[Current][written[Current] + 1].slot \in Slots
           /\ table[Current][PageEnd].slot \in Slots
  <1> DEFINE a == Current
             i == written[a] + 1
             j == PageEnd
  <1>1. a \in Accounts /\ i \in Nat \ {0} /\ j \in Nat /\ i <= j /\ j <= Len(table[a])
        /\ j - i + 1 = j - written[a]
    BY CurrentLeast
  <1>2. TableInv
    BY DEF TypeInv
  <1>n. NextPage = SubSeq(table[a], i, j) /\ i = written[Current] + 1 /\ a = Current
    BY DEF NextPage
  <1> HIDE DEF a, i, j
  <1>3. /\ SubSeq(table[a], i, j) \in Contents /\ SubSeq(table[a], i, j) # <<>>
        /\ Len(SubSeq(table[a], i, j)) = j - i + 1
        /\ Head(SubSeq(table[a], i, j)) = table[a][i] /\ Last(SubSeq(table[a], i, j)) = table[a][j]
    <2>1. i \in Nat \ {0} /\ j \in Nat /\ i <= j /\ j <= Len(table[a]) /\ a \in Accounts
      BY <1>1
    <2>2. SubSeq(table[a], i, j) \in Contents
      BY <2>1, <1>2, PageShape
    <2>3. SubSeq(table[a], i, j) # <<>>
      BY <2>1, <1>2, PageShape
    <2>4. Len(SubSeq(table[a], i, j)) = j - i + 1
      BY <2>1, <1>2, PageShape
    <2>5. Head(SubSeq(table[a], i, j)) = table[a][i]
      BY <2>1, <1>2, PageShape
    <2>6. Last(SubSeq(table[a], i, j)) = table[a][j]
      BY <2>1, <1>2, PageShape
    <2> QED
      BY <2>2, <2>3, <2>4, <2>5, <2>6
  <1>4. i \in DOMAIN table[a] /\ j \in DOMAIN table[a]
    BY <1>1, <1>2, TableRows
  <1>5. table[a][i] \in Rows /\ table[a][j] \in Rows
    BY <1>1, <1>2, <1>4, TableRows
  <1>6. table[a][i].slot \in Slots /\ table[a][j].slot \in Slots
    BY <1>5 DEF Rows
  <1> QED
    BY <1>1, <1>3, <1>6, <1>n DEF j

----------------------------------------------------------------------------
(* Damage                                                                   *)

LEMMA DamagedRows ==
    ASSUME NEW rows \in Contents, NEW bad \in Damaged(rows)
    PROVE  bad \in Contents /\ Decayed(bad, rows)
  <1> USE DEF Contents
  <1>1. CASE \E k \in DOMAIN rows : bad = [rows EXCEPT ![k].value = Bad]
    <2>1. PICK k \in DOMAIN rows : bad = [rows EXCEPT ![k].value = Bad]
      BY <1>1
    <2> DEFINE row == [rows[k] EXCEPT !.value = Bad]
    <2>2. rows[k] \in FileRows
      OBVIOUS
    <2>3. row \in FileRows /\ row.value = Bad
      BY <2>2 DEF FileRows
    <2>4. bad = [rows EXCEPT ![k] = row]
      BY <2>1
    <2> HIDE DEF row
    <2>5. bad \in Seq(FileRows) /\ Len(bad) = Len(rows)
      BY <2>3, <2>4
    <2>6. \A m \in DOMAIN bad : bad[m] = rows[m] \/ bad[m].value = Bad
      BY <2>3, <2>4
    <2> QED
      BY <2>5, <2>6 DEF Decayed
  <1>2. CASE rows # <<>> /\ bad = Front(rows)
    <2>1. Len(rows) \in Nat /\ Len(rows) > 0
      BY <1>2
    <2> DEFINE n == Len(rows) - 1
    <2>a. n \in Nat /\ n <= Len(rows) /\ bad = SubSeq(rows, 1, n) /\ n = Len(rows) - 1
      BY <1>2, <2>1 DEF Front
    <2> HIDE DEF n
    <2>b. \A m \in 1..n : rows[m] \in FileRows
      BY <2>a, <2>1
    <2>2. bad \in Seq(FileRows) /\ Len(bad) = Len(rows) - 1
      BY <2>a, <2>b, <2>1
    <2>3. \A m \in DOMAIN bad : bad[m] = rows[m]
      BY <2>a, <2>1, <2>2
    <2> QED
      BY <2>1, <2>2, <2>3 DEF Decayed
  <1> QED
    BY <1>1, <1>2 DEF Damaged

LEMMA DecayedTwice ==
    ASSUME NEW now \in Contents \cup {None}, NEW then \in Contents, NEW before \in Contents,
           Decayed(now, then), Decayed(then, before)
    PROVE  Decayed(now, before)
  <1> SUFFICES ASSUME now # None PROVE Decayed(now, before)
    BY DEF Decayed
  <1>1. now \in Contents /\ then # None
    BY NoneApart
  <1>2. /\ Len(now) \in Nat /\ Len(then) \in Nat /\ Len(before) \in Nat
        /\ Len(now) <= Len(then) /\ Len(then) <= Len(before)
    BY <1>1 DEF Decayed, Contents
  <1>3. \A k \in DOMAIN now : k \in DOMAIN then
    BY <1>1, <1>2 DEF Contents
  <1> QED
    BY <1>1, <1>2, <1>3 DEF Decayed

LEMMA DecayedSame ==
    ASSUME NEW rows \in Contents PROVE Decayed(rows, rows)
  BY DEF Decayed, Contents

LEMMA DamagedCounts ==
    ASSUME accounts \in Counts, NEW bad \in DamagedAccounts
    PROVE  bad \in Counts /\ Grown(bad, accounts)
  <1>1. PICK a \in Accounts : bad = [accounts EXCEPT ![a] = @ + 1]
    BY DEF DamagedAccounts
  <1> QED
    BY <1>1 DEF Counts, Grown

----------------------------------------------------------------------------
(* Types                                                                    *)

LEMMA TypeInit == Init => TypeInv
  <1> SUFFICES ASSUME Init PROVE TypeInv
    OBVIOUS
  <1>1. \A a \in Accounts :
            /\ table[a] \in Seq(Rows) /\ Ascending(table[a]) /\ Len(table[a]) <= Cardinality(Slots)
            /\ \A k \in DOMAIN table[a] : table[a][k].address = a
    <2> SUFFICES ASSUME NEW a \in Accounts
                 PROVE  /\ table[a] \in Seq(Rows) /\ Ascending(table[a])
                        /\ Len(table[a]) <= Cardinality(Slots)
                        /\ \A k \in DOMAIN table[a] : table[a][k].address = a
      OBVIOUS
    <2>1. PICK n \in 0..Cardinality(Slots) :
              /\ table[a] \in [1..n -> {row \in Rows : row.address = a}]
              /\ Ascending(table[a])
      BY DEF Init, Ordered
    <2>2. n \in Nat
      BY ExportAssumption, FS_CardinalityType
    <2>3. table[a] \in Seq(Rows) /\ Len(table[a]) <= Cardinality(Slots)
      BY <2>1, <2>2
    <2> QED
      BY <2>1, <2>2, <2>3
  <1>2. table \in [Accounts -> Seq(Rows)]
    BY <1>1 DEF Init
  <1>3. size \in Nat \ {0} /\ bytes \in [accounts : Nat, checkpoint : Nat]
    BY ExportAssumption DEF Init
  <1>4. layout \in Layouts
    BY DEF Init, NoLayout, Layouts
  <1>5. seen \in [Accounts -> Contents]
    BY DEF Init, Nothing, Contents
  <1>6. written \in Counts
    BY DEF Init, Counts
  <1> QED
    BY <1>1, <1>2, <1>3, <1>4, <1>5, <1>6 DEF Init, TypeInv, TableInv, WriteSteps

LEMMA StopTypes ==
    ASSUME TypeInv, Stop
    PROVE  /\ op' = None /\ pc' = "end" /\ layout' \in Layouts /\ written' \in Counts /\ read' \in Nat
           /\ seen' \in [Accounts -> Contents] /\ meta' = None /\ stored' = {}
  <1>1. NoLayout \in Layouts
    BY DEF NoLayout, Layouts
  <1>2. Nothing \in [Accounts -> Contents]
    BY DEF Nothing, Contents
  <1> QED
    BY <1>1, <1>2 DEF Stop, Counts

LEMMA LayoutParts ==
    ASSUME TypeInv
    PROVE  /\ layout.pages \in Seq(Items) /\ layout.accounts \in Counts \cup {None}
           /\ layout = [accounts |-> layout.accounts, pages |-> layout.pages]
           /\ Len(layout.pages) \in Nat
           /\ \A n \in DOMAIN layout.pages : layout.pages[n] \in Items
  BY DEF TypeInv, Layouts

LEMMA FileParts ==
    ASSUME TypeInv
    PROVE  /\ Len(file) \in Nat
           /\ \A n \in DOMAIN file : file[n] \in Contents \cup {None}
  BY DEF TypeInv

LEMMA DamageTypes ==
    ASSUME TypeInv, Damage
    PROVE  /\ accounts' \in Counts \cup {None} /\ file' \in Seq(Contents \cup {None})
           /\ Len(file') = Len(file)
           /\ \A n \in DOMAIN file : file[n] # None => Decayed(file'[n], file[n])
           /\ \A n \in DOMAIN file : file[n] = None => file'[n] = None
           /\ accounts # None => Grown(accounts', accounts)
           /\ accounts = None => accounts' = None
  <1>1. CASE DamageAccounts
    <2>1. accounts \in Counts /\ accounts # None /\ file' = file
      BY <1>1 DEF DamageAccounts, TypeInv
    <2>2. accounts' \in Counts \cup {None} /\ Grown(accounts', accounts)
      BY <1>1, <2>1, DamagedCounts DEF DamageAccounts, Grown
    <2>3. \A n \in DOMAIN file : file[n] # None => Decayed(file'[n], file[n])
      BY <2>1, FileParts, DecayedSame
    <2> QED
      BY <2>1, <2>2, <2>3 DEF TypeInv
  <1>2. CASE DamagePage
    <2>1. PICK n \in DOMAIN file :
              /\ file[n] # None
              /\ \E bad \in Damaged(file[n]) \cup {None} : file' = [file EXCEPT ![n] = bad]
      BY <1>2 DEF DamagePage
    <2>2. PICK bad \in Damaged(file[n]) \cup {None} : file' = [file EXCEPT ![n] = bad]
      BY <2>1
    <2>3. file[n] \in Contents
      BY <2>1, FileParts
    <2>4. bad \in Contents \cup {None} /\ Decayed(bad, file[n])
      BY <2>3, DamagedRows DEF Decayed
    <2>5. file \in Seq(Contents \cup {None})
      BY DEF TypeInv
    <2>6. file' \in Seq(Contents \cup {None}) /\ Len(file') = Len(file)
      BY <2>2, <2>4, <2>5
    <2>7. \A m \in DOMAIN file : file'[m] = IF m = n THEN bad ELSE file[m]
      BY <2>2, <2>5
    <2>8. \A m \in DOMAIN file : file[m] # None => Decayed(file'[m], file[m])
      BY <2>4, <2>7, FileParts, DecayedSame
    <2>9. \A m \in DOMAIN file : file[m] = None => file'[m] = None
      BY <2>1, <2>7
    <2>10. UNCHANGED accounts
      BY <1>2 DEF DamagePage
    <2>11. accounts \in Counts => Grown(accounts, accounts)
      BY DEF Counts, Grown
    <2> QED
      BY <2>6, <2>8, <2>9, <2>10, <2>11 DEF TypeInv
  <1> QED
    BY <1>1, <1>2 DEF Damage

\* The page that HashPage adds to the layout.
NewItem == [file |-> Len(file), address |-> Current, rows |-> Len(NextPage),
            sum |-> file[Len(file)], first |-> Head(NextPage).slot, last |-> Last(NextPage).slot]

LEMMA NewItemType ==
    ASSUME TypeInv, StepInv, HashPage
    PROVE  /\ NewItem \in Items
           /\ layout'.pages = Append(layout.pages, NewItem) /\ layout'.accounts = layout.accounts
           /\ layout' \in Layouts /\ Len(file) = Len(layout.pages) + 1
           /\ Unwritten # {} /\ file[Len(file)] \in Contents
  <1>1. Unwritten # {} /\ op = "export" /\ pc = "hash" /\ file[Len(file)] # None
    BY DEF StepInv, HashPage
  <1>0. op # None
    BY <1>1 DEF StepInv
  <1>2. Len(file) = Len(layout.pages) + 1
    BY <1>0, <1>1 DEF StepInv
  <1>3. Len(file) \in DOMAIN file /\ Len(file) \in Nat
    BY <1>2, LayoutParts, FileParts DEF TypeInv
  <1>4. file[Len(file)] \in Contents
    BY <1>1, <1>3, FileParts
  <1>5. Len(NextPage) \in Nat
    BY <1>1, NextPageShape DEF Contents
  <1>6. NewItem \in Items
    <2>1. Head(NextPage).slot \in Slots /\ Last(NextPage).slot \in Slots
      BY <1>1, NextPageShape
    <2>2. Current \in Accounts
      BY <1>1, CurrentLeast
    <2> QED
      BY <1>3, <1>4, <1>5, <2>1, <2>2 DEF NewItem, Items
  <1>7. layout' = [layout EXCEPT !.pages = Append(@, NewItem)]
    BY DEF HashPage, NewItem
  <1>8. layout'.pages = Append(layout.pages, NewItem) /\ layout'.accounts = layout.accounts
    BY <1>7, LayoutParts
  <1>9. layout' = [accounts |-> layout.accounts, pages |-> Append(layout.pages, NewItem)]
    BY <1>7, LayoutParts
  <1>10. Append(layout.pages, NewItem) \in Seq(Items)
    BY <1>6, LayoutParts
  <1>11. layout' \in Layouts
    BY <1>9, <1>10, LayoutParts DEF Layouts
  <1> QED
    BY <1>1, <1>2, <1>4, <1>6, <1>8, <1>11

LEMMA NextFileNumber ==
    ASSUME TypeInv, StepInv, pc \in {"check", "read", "icheck", "insert"}, read <= Len(layout.pages)
    PROVE  /\ NextFile \in Nat /\ NextFile <= Len(layout.pages)
           /\ NextFile # 0 => NextFile \in DOMAIN layout.pages /\ NextFile \in DOMAIN file
           /\ Len(file) = Len(layout.pages)
  <1>1. read \in Nat /\ Len(layout.pages) \in Nat
    BY LayoutParts DEF TypeInv
  <1>2. NextFile \in Nat /\ NextFile <= Len(layout.pages)
    BY <1>1 DEF NextFile
  <1>3. op # None /\ pc # "hash"
    BY DEF StepInv
  <1>4. Len(file) = Len(layout.pages)
    BY <1>3 DEF StepInv
  <1> QED
    BY <1>2, <1>4, LayoutParts DEF TypeInv

\* The rows of a page that passes its checks.
LEMMA ReadableRows ==
    ASSUME TypeInv, StepInv, pc \in {"read", "insert"}, Readable(NextFile), NextFile # 0
    PROVE  /\ NextFile \in DOMAIN layout.pages /\ NextFile \in DOMAIN file
           /\ file[NextFile] \in Contents /\ layout.pages[NextFile] \in Items
           /\ PageValid(layout.pages[NextFile], file[NextFile])
  <1>1. read <= Len(layout.pages)
    BY DEF StepInv
  <1>2. NextFile \in DOMAIN layout.pages /\ NextFile \in DOMAIN file
    BY <1>1, NextFileNumber
  <1>3. PageValid(layout.pages[NextFile], file[NextFile])
    BY DEF Readable
  <1>4. file[NextFile] \in Contents
    BY <1>2, <1>3, FileParts DEF PageValid
  <1> QED
    BY <1>2, <1>3, <1>4, LayoutParts

LEMMA TypeStep ==
    ASSUME TypeInv, StepInv, [Next]_vars
    PROVE  TypeInv'
  <1> USE DEF checkpoint, directory, operation, history
  <1>t. TableInv /\ UNCHANGED checkpoint => TableInv'
    BY DEF TableInv, Ascending
  <1>1. CASE WriteAccounts
    <2>1. AccountRows \in Counts
      BY TableRows DEF AccountRows, Counts, TypeInv
    <2> QED
      BY <1>1, <1>t, <2>1 DEF WriteAccounts, TypeInv, WriteSteps
  <1>2. CASE HashAccounts
    <2>1. layout' = [accounts |-> accounts, pages |-> layout.pages]
      BY <1>2, LayoutParts DEF HashAccounts
    <2>2. layout' \in Layouts
      BY <2>1, LayoutParts DEF Layouts, TypeInv
    <2> QED
      BY <1>2, <1>t, <2>2 DEF HashAccounts, TypeInv, WriteSteps
  <1>3. CASE WritePage
    <2>1. NextPage \in Contents
      BY <1>3, NextPageShape DEF WritePage
    <2>2. file' \in Seq(Contents \cup {None})
      BY <1>3, <2>1 DEF WritePage, TypeInv
    <2> QED
      BY <1>3, <1>t, <2>2 DEF WritePage, TypeInv, WriteSteps
  <1>4. CASE HashPage
    <2>1. layout' \in Layouts /\ Unwritten # {}
      BY <1>4, NewItemType
    <2>2. written' \in Counts
      BY <1>4, <2>1, CurrentLeast DEF HashPage, TypeInv, Counts
    <2> QED
      BY <1>4, <1>t, <2>1, <2>2 DEF HashPage, TypeInv, WriteSteps
  <1>5. CASE EndPages
    BY <1>5, <1>t DEF EndPages, TypeInv, ReadSteps
  <1>6. CASE CheckFile
    BY <1>6, <1>t DEF CheckFile, TypeInv, ReadSteps
  <1>7. CASE ReadFile
    <2>1. seen' \in [Accounts -> Contents]
      <3>1. CASE NextFile = 0
        BY <1>7, <3>1 DEF ReadFile, TypeInv
      <3>2. CASE NextFile # 0
        <4> DEFINE a == layout.pages[NextFile].address
        <4>1. file[NextFile] \in Contents /\ layout.pages[NextFile] \in Items
          BY <1>7, <3>2, ReadableRows DEF ReadFile
        <4>2. a \in Accounts
          BY <4>1 DEF Items
        <4>3. seen[a] \o file[NextFile] \in Contents
          BY <4>1, <4>2 DEF TypeInv, Contents
        <4>4. seen' = [seen EXCEPT ![a] = seen[a] \o file[NextFile]]
          BY <1>7, <3>2 DEF ReadFile
        <4> HIDE DEF a
        <4> QED
          BY <4>2, <4>3, <4>4 DEF TypeInv
      <3> QED
        BY <3>1, <3>2
    <2>2. meta' \in Counts \cup {None}
      BY <1>7 DEF ReadFile, TypeInv
    <2> QED
      BY <1>7, <1>t, <2>1, <2>2 DEF ReadFile, TypeInv, ReadSteps
  <1>8. CASE WriteManifest \/ EndVerify \/ Reject \/ Publish \/ RejectStored \/ Die
    <2>1. Stop
      BY <1>8 DEF WriteManifest, EndVerify, Reject, Publish, RejectStored, Die
    <2>2. UNCHANGED <<checkpoint, accounts, file, damages>> /\ manifest' \in Layouts \cup {None}
      BY <1>8 DEF WriteManifest, EndVerify, Reject, Publish, RejectStored, Die, TypeInv
    <2> QED
      BY <2>1, <2>2, <1>t, StopTypes DEF TypeInv
  <1>9. CASE \E o \in {"verify", "import"} : Begin(o)
    BY <1>9, <1>t DEF Begin, TypeInv, ReadSteps
  <1>10. CASE StartInsert
    <2>1. Nothing \in [Accounts -> Contents]
      BY DEF Nothing, Contents
    <2> QED
      BY <1>10, <1>t, <2>1 DEF StartInsert, TypeInv, ReadSteps
  <1>11. CASE InsertFile
    <2>1. stored' \in SUBSET FileRows
      <3>1. CASE NextFile = 0
        BY <1>11, <3>1 DEF InsertFile, TypeInv
      <3>2. CASE NextFile # 0
        <4>1. file[NextFile] \in Contents
          BY <1>11, <3>2, ReadableRows DEF InsertFile
        <4>2. ToSet(file[NextFile]) \in SUBSET FileRows
          BY <4>1 DEF ToSet, Contents
        <4> QED
          BY <1>11, <3>2, <4>2 DEF InsertFile, TypeInv
      <3> QED
        BY <3>1, <3>2
    <2>2. meta' \in Counts \cup {None}
      BY <1>11 DEF InsertFile, TypeInv
    <2> QED
      BY <1>11, <1>t, <2>1, <2>2 DEF InsertFile, TypeInv, ReadSteps
  <1>12. CASE Damage
    <2>1. accounts' \in Counts \cup {None} /\ file' \in Seq(Contents \cup {None})
      BY <1>12, DamageTypes
    <2>2. damages' \in Nat /\ UNCHANGED <<checkpoint, manifest, operation>>
      BY <1>12 DEF Damage, TypeInv
    <2> QED
      BY <1>t, <2>1, <2>2 DEF TypeInv
  <1>13. CASE RejectManifest \/ UNCHANGED vars
    BY <1>13, <1>t DEF RejectManifest, vars, TypeInv
  <1> QED
    BY <1>1, <1>2, <1>3, <1>4, <1>5, <1>6, <1>7, <1>8, <1>9, <1>10, <1>11, <1>12, <1>13
       DEF Next, Export, Verify, Import

LEMMA StepInit == Init => StepInv
  BY NoneApart DEF Init, StepInv, WriteSteps, NoLayout

LEMMA StepStep ==
    ASSUME TypeInv, StepInv, [Next]_vars
    PROVE  StepInv'
  <1> USE DEF checkpoint, directory, operation, history
  <1>0. /\ Len(layout.pages) \in Nat /\ Len(file) \in Nat /\ read \in Nat
        /\ pc \in WriteSteps \cup ReadSteps \cup {"end"}
    BY LayoutParts, FileParts DEF TypeInv
  <1>n. /\ NoLayout.pages = <<>> /\ Len(<<>>) = 0
        /\ None # "export" /\ None # "verify" /\ None # "import"
    BY NoneApart DEF NoLayout
  <1> USE DEF WriteSteps, ReadSteps
  <1>1. CASE WriteAccounts \/ HashAccounts
    <2>1. op = "export" /\ pc \in {"start", "hash accounts"} /\ layout = NoLayout /\ op # None
      BY <1>1 DEF WriteAccounts, HashAccounts, StepInv
    <2>2. layout'.pages = layout.pages
      BY <1>1, LayoutParts DEF WriteAccounts, HashAccounts
    <2> QED
      BY <1>0, <1>1, <2>1, <2>2 DEF WriteAccounts, HashAccounts, StepInv
  <1>3. CASE WritePage
    <2>1. Len(file') = Len(file) + 1
      BY <1>3 DEF WritePage, TypeInv
    <2>2. Unwritten' # {}
      BY <1>3 DEF WritePage, Unwritten
    <2>3. op # None
      BY <1>3 DEF WritePage, StepInv
    <2> QED
      BY <1>0, <1>3, <2>1, <2>2, <2>3 DEF WritePage, StepInv
  <1>4. CASE HashPage
    <2>1. Len(layout'.pages) = Len(layout.pages) + 1 /\ Len(file) = Len(layout.pages) + 1
      BY <1>4, NewItemType, LayoutParts
    <2>2. op # None
      BY <1>4 DEF HashPage, StepInv
    <2> QED
      BY <1>0, <1>4, <2>1, <2>2 DEF HashPage, StepInv
  <1>5. CASE EndPages
    BY <1>0, <1>5 DEF EndPages, StepInv
  <1>6. CASE CheckFile
    <2>a. pc \in {"check", "icheck"} /\ op # None
      BY <1>6 DEF CheckFile, StepInv
    <2>b. read <= Len(layout.pages) + 1 /\ read # Len(layout.pages) + 1
      BY <1>6 DEF CheckFile, StepInv, AllRead
    <2>c. Len(layout.pages) \in Nat /\ read \in Nat
      BY <1>0
    <2>d. read <= Len(layout.pages)
      BY <2>b, <2>c
    <2>1. pc \in {"check", "icheck"} /\ op # None /\ read <= Len(layout.pages)
      BY <2>a, <2>d
    <2>2. Len(file) = Len(layout.pages)
      BY <2>1 DEF StepInv
    <2>3. UNCHANGED <<directory, op, layout, read, seen, meta, stored, Unwritten>>
      BY <1>6 DEF CheckFile, Unwritten
    <2>4. pc' = IF pc = "check" THEN "read" ELSE "insert"
      BY <1>6 DEF CheckFile
    <2> QED
      BY <1>0, <2>1, <2>2, <2>3, <2>4 DEF StepInv
  <1>7. CASE ReadFile
    BY <1>0, <1>7 DEF ReadFile, StepInv
  <1>8. CASE WriteManifest
    <2>1. op # None /\ pc = "check" /\ manifest' = layout /\ UNCHANGED file
      BY <1>8 DEF WriteManifest, Verified, StepInv
    <2>2. Len(file) = Len(layout.pages)
      BY <2>1 DEF StepInv
    <2>3. /\ op' = None /\ pc' = "end" /\ layout' = NoLayout /\ read' = 0 /\ stored' = {}
          /\ seen' = Nothing
      BY <1>8 DEF WriteManifest, Stop
    <2> QED
      BY <1>n, <2>1, <2>2, <2>3 DEF StepInv
  <1>9. CASE EndVerify \/ Reject \/ Publish \/ RejectStored \/ Die
    <2>1. Stop /\ UNCHANGED directory
      BY <1>9 DEF EndVerify, Reject, Publish, RejectStored, Die
    <2>2. /\ op' = None /\ pc' = "end" /\ layout' = NoLayout /\ read' = 0 /\ stored' = {}
          /\ seen' = Nothing
      BY <2>1 DEF Stop
    <2>3. manifest # None => Len(file) = Len(manifest.pages)
      BY DEF StepInv
    <2>4. 0 <= Len(layout'.pages) + 1
      BY <1>n, <2>2
    <2>5. ~(pc' \in WriteSteps) /\ ~(pc' \in ReadSteps)
      BY <2>2
    <2> QED
      BY <1>n, <2>1, <2>2, <2>3, <2>4, <2>5 DEF StepInv
  <1>10. CASE \E o \in {"verify", "import"} : Begin(o)
    <2>1. PICK o \in {"verify", "import"} : Begin(o)
      BY <1>10
    <2>2. op = None /\ manifest # None /\ pc = "end" /\ manifest \in Layouts
      BY <2>1 DEF Begin, StepInv, TypeInv
    <2>3. Len(manifest.pages) \in Nat /\ Len(file) = Len(manifest.pages)
      BY <1>0, <2>2 DEF StepInv, Layouts
    <2>4. read <= Len(manifest.pages) + 1 /\ stored = {}
      <3>1. stored = {}
        BY <1>n, <2>2 DEF StepInv
      <3>2. read = 0
        BY <2>2 DEF StepInv
      <3> QED
        BY <2>3, <3>1, <3>2
    <2>5. o # None /\ o # "export" /\ pc' = "check" /\ op' = o
      BY <1>n, <2>1 DEF Begin
    <2>6. layout' = manifest /\ UNCHANGED <<checkpoint, directory, written, read, seen, meta, stored>>
      BY <2>1 DEF Begin
    <2> QED
      BY <1>n, <2>1, <2>2, <2>3, <2>4, <2>5, <2>6 DEF StepInv
  <1>11. CASE StartInsert
    BY <1>0, <1>11 DEF StartInsert, Verified, StepInv
  <1>12. CASE InsertFile
    BY <1>0, <1>12 DEF InsertFile, StepInv
  <1>13. CASE Damage
    <2>1. Len(file') = Len(file)
      BY <1>13, DamageTypes
    <2>2. UNCHANGED <<checkpoint, manifest, operation>>
      BY <1>13 DEF Damage
    <2> QED
      BY <2>1, <2>2 DEF StepInv, Unwritten
  <1>14. CASE RejectManifest \/ UNCHANGED vars
    BY <1>14 DEF RejectManifest, vars, StepInv, Unwritten
  <1> QED
    BY <1>1, <1>3, <1>4, <1>5, <1>6, <1>7, <1>8, <1>9, <1>10, <1>11, <1>12, <1>13, <1>14
       DEF Next, Export, Verify, Import

----------------------------------------------------------------------------
(* How many pages there are                                                 *)

LEMMA StartsFinite ==
    ASSUME TableInv
    PROVE  IsFiniteSet(PageStarts) /\ PagesNeeded \in Nat /\ Cardinality(Slots) \in Nat
  <1>1. Cardinality(Slots) \in Nat
    BY ExportAssumption, FS_CardinalityType
  <1>2. IsFiniteSet(0..Cardinality(Slots))
    BY <1>1, FS_Interval
  <1>3. IsFiniteSet(Accounts \X (0..Cardinality(Slots)))
    BY <1>2, ExportAssumption, FS_Product
  <1>4. PageStarts \in SUBSET (Accounts \X (0..Cardinality(Slots)))
    BY DEF PageStarts
  <1>5. IsFiniteSet(PageStarts)
    BY ONLY <1>3, <1>4, FS_Subset
  <1> QED
    BY <1>1, <1>5, FS_CardinalityType DEF PagesNeeded

\* Multiples of a page compare as their factors do.
LEMMA Multiples ==
    ASSUME NEW m \in Nat, NEW n \in Nat, NEW s \in Nat \ {0}
    PROVE  /\ m * s \in Nat /\ (m + 1) * s = m * s + s /\ m <= m * s
           /\ n < m => n * s + s <= m * s
  <1>1. m * s \in Nat /\ n * s \in Nat /\ (m + 1) * s = m * s + s
    OBVIOUS
  <1>2. m <= m * s
    <2>1. m * (s - 1) \in Nat
      OBVIOUS
    <2>2. m * s = m * (s - 1) + m
      OBVIOUS
    <2> QED
      BY <1>1, <2>1, <2>2
  <1>3. ASSUME n < m PROVE n * s + s <= m * s
    <2>1. m - n - 1 \in Nat
      BY <1>3
    <2>2. (m - n - 1) * s \in Nat
      BY <2>1
    <2>3. m * s = n * s + s + (m - n - 1) * s
      OBVIOUS
    <2> QED
      BY <1>1, <2>2, <2>3
  <1> QED
    BY <1>1, <1>2, <1>3

\* The next page of the export is one that has not begun.
LEMMA NextStart ==
    ASSUME TypeInv, LimitInv, pc \in WriteSteps, Unwritten # {}
    PROVE  \E m \in 0..Cardinality(Slots) :
              /\ written[Current] = m * size
              /\ <<Current, m>> \in PageStarts \ Begun
  <1>1. /\ Current \in Accounts /\ written[Current] \in Nat
        /\ written[Current] < Len(table[Current])
    BY CurrentLeast
  <1>2. PICK m \in 0..Cardinality(Slots) : written[Current] = m * size
    BY <1>1 DEF LimitInv, Aligned
  <1>3. <<Current, m>> \in PageStarts
    BY <1>1, <1>2 DEF PageStarts
  <1>4. <<Current, m>> \notin Begun
    <2>1. ~(m * size < written[Current])
      BY <1>1, <1>2
    <2> QED
      BY <2>1 DEF Begun
  <1> QED
    BY <1>2, <1>3, <1>4

\* While rows are unwritten, the export needs more pages than it has.
LEMMA MoreNeeded ==
    ASSUME TypeInv, LimitInv, pc \in WriteSteps, Unwritten # {}
    PROVE  PagesNeeded \in Nat /\ Len(layout.pages) < PagesNeeded
  <1>1. PICK p \in PageStarts : p \notin Begun
    BY NextStart
  <1>2. IsFiniteSet(PageStarts) /\ PagesNeeded \in Nat /\ Begun \in SUBSET PageStarts
    BY StartsFinite DEF TypeInv, Begun
  <1>3. /\ IsFiniteSet(Begun) /\ Cardinality(Begun) <= Cardinality(PageStarts)
        /\ Cardinality(PageStarts) = Cardinality(Begun) => PageStarts = Begun
    BY ONLY <1>2, FS_Subset
  <1>6. Cardinality(Begun) \in Nat
    BY <1>3, FS_CardinalityType
  <1>4. Cardinality(PageStarts) # Cardinality(Begun)
    BY <1>1, <1>3
  <1>5. Len(layout.pages) = Cardinality(Begun)
    BY DEF LimitInv
  <1> QED
    BY <1>2, <1>3, <1>4, <1>5, <1>6 DEF PagesNeeded

\* HashPage adds one page.
LEMMA OneMorePage ==
    ASSUME TypeInv, StepInv, LimitInv, HashPage
    PROVE  /\ Cardinality(Begun') = Len(layout.pages) + 1
           /\ \A a \in Accounts : written'[a] < Len(table[a]) => Aligned(a)'
  <1>1. /\ Unwritten # {} /\ pc \in WriteSteps /\ UNCHANGED <<table, size>>
        /\ written' = [written EXCEPT ![Current] = PageEnd]
    BY DEF HashPage, StepInv, WriteSteps, checkpoint
  <1> DEFINE a == Current
  <1>2. PICK m \in 0..Cardinality(Slots) :
            written[a] = m * size /\ <<a, m>> \in PageStarts \ Begun
    BY <1>1, NextStart
  <1>3. /\ a \in Accounts /\ PageEnd \in Nat /\ written[a] < PageEnd
        /\ PageEnd <= Len(table[a]) /\ PageEnd < Len(table[a]) => PageEnd = written[a] + size
        /\ PageEnd <= written[a] + size
    <2>1. /\ a \in Accounts /\ PageEnd \in Nat /\ written[a] < PageEnd /\ written[a] \in Nat
          /\ PageEnd <= Len(table[a]) /\ PageEnd < Len(table[a]) => PageEnd = written[a] + size
      BY <1>1, CurrentLeast
    <2>2. size \in Nat /\ Len(table[a]) \in Nat
      BY <2>1, TableRows DEF TypeInv, TableInv
    <2>3. PageEnd <= written[a] + size
      BY <2>1, <2>2 DEF PageEnd
    <2> QED
      BY <2>1, <2>3
  <1>4. \A b \in Accounts : written'[b] = IF b = a THEN PageEnd ELSE written[b]
    BY <1>1 DEF TypeInv, Counts
  <1>5. size \in Nat \ {0} /\ Cardinality(Slots) \in Nat /\ m \in Nat
    BY StartsFinite DEF TypeInv, TableInv
  <1> HIDE DEF a
  <1>6. \A n \in Nat : n * size < PageEnd <=> n * size < written[a] \/ n = m
    <2> SUFFICES ASSUME NEW n \in Nat
                 PROVE  n * size < PageEnd <=> n * size < written[a] \/ n = m
      OBVIOUS
    <2>1. m * size \in Nat /\ n * size \in Nat
      BY <1>5, Multiples
    <2>2. CASE n < m
      <3>1. n * size + size <= m * size
        BY <1>5, <2>2, Multiples
      <3> QED
        BY <1>2, <1>3, <1>5, <2>1, <3>1
    <2>3. CASE n = m
      BY <1>2, <1>3, <2>3
    <2>4. CASE m < n
      <3>1. m * size + size <= n * size
        BY <1>5, <2>4, Multiples
      <3> QED
        BY <1>2, <1>3, <1>5, <2>1, <2>4, <3>1
    <2> QED
      BY <1>5, <2>2, <2>3, <2>4
  <1>7. Begun' = Begun \cup {<<a, m>>}
    <2>1. PageStarts' = PageStarts
      BY <1>1 DEF PageStarts
    <2>2. Begun' = {p \in PageStarts : p[2] * size < written'[p[1]]}
      BY <1>1, <2>1 DEF Begun
    <2>3. \A p \in PageStarts : p[1] \in Accounts /\ p[2] \in Nat /\ p = <<p[1], p[2]>>
      BY <1>5 DEF PageStarts
    <2>4. ASSUME NEW p \in PageStarts
          PROVE  p[2] * size < written'[p[1]] <=> p[2] * size < written[p[1]] \/ p = <<a, m>>
      BY <1>4, <1>6, <2>3
    <2> QED
      BY <1>2, <2>2, <2>4 DEF Begun
  <1>8. Cardinality(Begun') = Cardinality(Begun) + 1
    <2>1. IsFiniteSet(PageStarts) /\ Begun \in SUBSET PageStarts
      BY StartsFinite DEF TypeInv, Begun
    <2>2. IsFiniteSet(Begun)
      BY ONLY <2>1, FS_Subset
    <2>3. Cardinality(Begun \cup {<<a, m>>}) = Cardinality(Begun) + 1
      BY <1>2, <2>2, FS_AddElement
    <2> QED
      BY <1>7, <2>3
  <1>9. ASSUME NEW b \in Accounts, written'[b] < Len(table[b]) PROVE Aligned(b)'
    <2>1. CASE b # a
      <3>1. written[b] < Len(table[b]) /\ written'[b] = written[b]
        BY <1>4, <1>9, <2>1
      <3>2. PICK k \in 0..Cardinality(Slots) : written[b] = k * size
        BY <1>1, <3>1 DEF LimitInv, Aligned
      <3> QED
        BY <1>1, <3>1, <3>2 DEF Aligned
    <2>2. CASE b = a
      <3>1. PageEnd = m * size + size /\ PageEnd < Len(table[a])
        BY <1>2, <1>3, <1>4, <1>9, <2>2
      <3>2. PageEnd = (m + 1) * size /\ m + 1 <= PageEnd
        BY <1>5, <3>1, Multiples
      <3>3. Len(table[a]) <= Cardinality(Slots) /\ Len(table[a]) \in Nat
        BY <1>3, TableRows DEF TypeInv, TableInv
      <3>4. m + 1 \in 0..Cardinality(Slots)
        BY <1>3, <1>5, <3>1, <3>2, <3>3
      <3>5. written'[b] = (m + 1) * size
        BY <1>3, <1>4, <2>2, <3>2
      <3> QED
        BY <1>1, <3>4, <3>5 DEF Aligned
    <2> QED
      BY <2>1, <2>2
  <1> QED
    BY <1>1, <1>8, <1>9 DEF LimitInv

LEMMA LimitInit == Init => LimitInv
  <1> SUFFICES ASSUME Init PROVE LimitInv
    OBVIOUS
  <1>1. /\ written = [a \in Accounts |-> 0] /\ layout.pages = <<>>
        /\ manifest = None /\ pc = "start"
    BY DEF Init, NoLayout
  <1>2. size \in Nat /\ Cardinality(Slots) \in Nat
    BY ExportAssumption, FS_CardinalityType DEF Init
  <1>3. Begun = {}
    <2> SUFFICES ASSUME NEW p \in PageStarts, p[2] * size < written[p[1]] PROVE FALSE
      BY DEF Begun
    <2>1. p[1] \in Accounts /\ p[2] \in Nat
      BY <1>2 DEF PageStarts
    <2>2. p[2] * size \in Nat /\ written[p[1]] = 0
      BY <1>1, <1>2, <2>1
    <2> QED
      BY <2>2
  <1>4. Cardinality(Begun) = Len(layout.pages)
    BY <1>1, <1>3, FS_EmptySet
  <1>5. \A a \in Accounts : Aligned(a)
    <2>1. 0 \in 0..Cardinality(Slots) /\ 0 * size = 0
      BY <1>2
    <2> QED
      BY <1>1, <2>1 DEF Aligned
  <1> QED
    BY <1>1, <1>4, <1>5 DEF LimitInv, ReadSteps

\* A step that leaves the pages alone.
LEMMA LimitSame ==
    ASSUME LimitInv, UNCHANGED <<table, size, written, manifest>>, layout'.pages = layout.pages,
           pc' \in WriteSteps => pc \in WriteSteps,
           pc' \in ReadSteps => Len(layout.pages) = PagesNeeded
    PROVE  LimitInv'
  <1>1. PageStarts' = PageStarts
    BY DEF PageStarts
  <1>2. /\ Begun' = Begun /\ PagesNeeded' = PagesNeeded
        /\ \A a \in Accounts : Aligned(a)' = Aligned(a)
    BY <1>1 DEF Begun, PagesNeeded, Aligned
  <1> QED
    BY <1>2 DEF LimitInv

LEMMA LimitStep ==
    ASSUME TypeInv, StepInv, LimitInv, [Next]_vars
    PROVE  LimitInv'
  <1> USE DEF checkpoint, directory, operation, history
  <1>r. pc \in ReadSteps => Len(layout.pages) = PagesNeeded
    BY DEF LimitInv
  <1>1. CASE WriteAccounts \/ HashAccounts \/ WritePage
    <2>1. UNCHANGED <<table, size, written, manifest>> /\ layout'.pages = layout.pages
      BY <1>1, LayoutParts DEF WriteAccounts, HashAccounts, WritePage
    <2>2. pc \in WriteSteps /\ pc' \notin ReadSteps
      BY <1>1 DEF WriteAccounts, HashAccounts, WritePage, WriteSteps, ReadSteps
    <2> QED
      BY <2>1, <2>2, LimitSame
  <1>2. CASE HashPage
    <2>1. /\ Cardinality(Begun') = Len(layout.pages) + 1
          /\ \A a \in Accounts : written'[a] < Len(table[a]) => Aligned(a)'
      BY <1>2, OneMorePage
    <2>2. Len(layout'.pages) = Len(layout.pages) + 1
      BY <1>2, NewItemType, LayoutParts
    <2>3. UNCHANGED <<table, manifest>> /\ pc' = "pages" /\ op = "export"
      BY <1>2 DEF HashPage
    <2>4. manifest' = None
      BY <2>3 DEF StepInv
    <2>5. pc' \notin ReadSteps
      BY <2>3 DEF ReadSteps
    <2> QED
      BY <2>1, <2>2, <2>3, <2>4, <2>5 DEF LimitInv
  <1>3. CASE EndPages
    <2>1. /\ UNCHANGED <<table, size, written, manifest, layout>>
          /\ pc = "pages" /\ pc' = "check"
      BY <1>3 DEF EndPages
    <2>2. Begun = PageStarts
      <3> SUFFICES ASSUME NEW p \in PageStarts PROVE p[2] * size < written[p[1]]
        BY DEF Begun
      <3>1. p[1] \in Accounts /\ p[2] \in Nat /\ p[2] * size < Len(table[p[1]])
        BY StartsFinite DEF PageStarts, TypeInv
      <3>2. ~(written[p[1]] < Len(table[p[1]]))
        BY <1>3, <3>1 DEF EndPages, Unwritten
      <3>3. size \in Nat /\ table \in [Accounts -> Seq(Rows)] /\ written \in [Accounts -> Nat]
        BY DEF TypeInv, TableInv, Counts
      <3>4. written[p[1]] \in Nat /\ Len(table[p[1]]) \in Nat /\ p[2] * size \in Nat
        BY <3>1, <3>3
      <3> QED
        BY <3>1, <3>2, <3>4
    <2>3. Len(layout.pages) = PagesNeeded
      BY <2>1, <2>2 DEF LimitInv, PagesNeeded, WriteSteps
    <2> QED
      BY <2>1, <2>3, LimitSame DEF WriteSteps
  <1>4. CASE CheckFile \/ ReadFile \/ StartInsert \/ InsertFile
    <2>1. /\ UNCHANGED <<table, size, written, manifest, layout>>
          /\ pc \in ReadSteps /\ pc' \in ReadSteps
      BY <1>4 DEF CheckFile, ReadFile, StartInsert, InsertFile, Verified, ReadSteps
    <2>2. pc' \notin WriteSteps
      BY <2>1 DEF WriteSteps, ReadSteps
    <2> QED
      BY <1>r, <2>1, <2>2, LimitSame
  <1>5. CASE WriteManifest \/ EndVerify \/ Reject \/ Publish \/ RejectStored \/ Die
    <2>1. UNCHANGED <<table, size>> /\ pc' = "end"
      BY <1>5 DEF WriteManifest, EndVerify, Reject, Publish, RejectStored, Die, Stop
    <2>2. PagesNeeded' = PagesNeeded
      BY <2>1 DEF PagesNeeded, PageStarts
    <2>3. manifest' # None => Len(manifest'.pages) = PagesNeeded
      <3>1. CASE WriteManifest
        BY <1>r, <3>1 DEF WriteManifest, Verified, ReadSteps
      <3>2. CASE ~WriteManifest
        BY <1>5, <3>2 DEF EndVerify, Reject, Publish, RejectStored, Die, LimitInv
      <3> QED
        BY <3>1, <3>2
    <2>4. pc' \notin WriteSteps /\ pc' \notin ReadSteps
      BY <2>1 DEF WriteSteps, ReadSteps
    <2> QED
      BY <2>2, <2>3, <2>4 DEF LimitInv
  <1>6. CASE \E o \in {"verify", "import"} : Begin(o)
    <2>1. /\ UNCHANGED <<table, size, manifest>> /\ manifest # None /\ layout' = manifest
          /\ pc' = "check"
      BY <1>6 DEF Begin
    <2>2. PagesNeeded' = PagesNeeded
      BY <2>1 DEF PagesNeeded, PageStarts
    <2>3. pc' \notin WriteSteps
      BY <2>1 DEF WriteSteps
    <2> QED
      BY <2>1, <2>2, <2>3 DEF LimitInv
  <1>7. CASE Damage \/ RejectManifest \/ UNCHANGED vars
    <2>1. UNCHANGED <<table, size, written, manifest, layout, pc>>
      BY <1>7 DEF Damage, RejectManifest, vars
    <2> QED
      BY <1>r, <2>1, LimitSame
  <1> QED
    BY <1>1, <1>2, <1>3, <1>4, <1>5, <1>6, <1>7 DEF Next, Export, Verify, Import

----------------------------------------------------------------------------
(* Cutting the rows into pages                                              *)

\* The first pages hold no more rows of an account than there are.
LEMMA HeldBounds ==
    ASSUME TableInv, NEW pages \in Seq(Items), Chain(pages), NEW r \in 0..Len(pages),
           NEW a \in Accounts
    PROVE  Held(pages, r, a) \in Nat /\ Held(pages, r, a) <= Len(table[a])
  <1>1. Len(table[a]) \in Nat
    BY TableRows
  <1>2. CASE r = 0
    BY <1>1, <1>2 DEF Held
  <1>3. CASE r # 0
    <2>1. r \in DOMAIN pages
      BY <1>3
    <2>2. To(pages[r]) \in Nat /\ To(pages[r]) <= Len(table[pages[r].address])
      BY <2>1 DEF Chain, Cut
    <2> QED
      BY <1>1, <2>2 DEF Held
  <1> QED
    BY <1>2, <1>3

\* An added page leaves what the pages before it hold.
LEMMA HeldAppend ==
    ASSUME NEW pages \in Seq(Items), NEW item \in Items
    PROVE  /\ \A r \in 0..Len(pages), a \in Accounts :
                  Held(Append(pages, item), r, a) = Held(pages, r, a)
           /\ \A n \in DOMAIN pages : Cut(Append(pages, item), n) = Cut(pages, n)
  <1> DEFINE more == Append(pages, item)
  <1>1. \A n \in DOMAIN pages : more[n] = pages[n]
    OBVIOUS
  <1>2. \A r \in 0..Len(pages), a \in Accounts : Held(more, r, a) = Held(pages, r, a)
    <2> SUFFICES ASSUME NEW r \in 0..Len(pages), NEW a \in Accounts
                 PROVE  Held(more, r, a) = Held(pages, r, a)
      OBVIOUS
    <2>1. r = 0 \/ more[r] = pages[r]
      BY <1>1
    <2> HIDE DEF more
    <2> QED
      BY <2>1 DEF Held
  <1>3. \A n \in DOMAIN pages : Cut(more, n) = Cut(pages, n)
    <2> SUFFICES ASSUME NEW n \in DOMAIN pages PROVE Cut(more, n) = Cut(pages, n)
      OBVIOUS
    <2>1. n \in 0..Len(pages) /\ n - 1 \in 0..Len(pages)
      OBVIOUS
    <2>a. more[n] = pages[n] /\ pages[n] \in Items
      BY <1>1
    <2>2. more[n] = pages[n] /\ pages[n].address \in Accounts
      BY <2>a DEF Items
    <2>3. \A a \in Accounts : /\ Held(more, n, a) = Held(pages, n, a)
                              /\ Held(more, n - 1, a) = Held(pages, n - 1, a)
      BY <1>2, <2>1
    <2> HIDE DEF more
    <2> QED
      BY <2>2, <2>3 DEF Cut
  <1> QED
    BY <1>2, <1>3

\* The next page goes on where the pages so far end.
LEMMA NewCut ==
    ASSUME TypeInv, StepInv, ChainInv, HashPage
    PROVE  /\ From(NewItem) = written[Current] + 1 /\ To(NewItem) = PageEnd
           /\ PageOf(NewItem) = NextPage
           /\ Chain(Append(layout.pages, NewItem))
           /\ \A a \in Accounts : Held(Append(layout.pages, NewItem), Len(layout.pages) + 1, a)
                                  = IF a = Current THEN PageEnd ELSE written[a]
  <1> DEFINE pages == layout.pages
             more == Append(pages, NewItem)
             m == Len(pages)
             c == Current
  <1>1. /\ pages \in Seq(Items) /\ NewItem \in Items /\ m \in Nat /\ Len(file) = m + 1
        /\ Unwritten # {}
    BY NewItemType, LayoutParts
  <1>2. /\ c \in Accounts /\ \A b \in Unwritten : c <= b
        /\ written[c] \in Nat /\ written[c] < PageEnd /\ PageEnd <= Len(table[c]) /\ PageEnd \in Nat
        /\ written[c] < Len(table[c])
    BY <1>1, CurrentLeast
  <1>3. TableInv
    BY DEF TypeInv
  <1>4. op = "export" /\ op # None
    BY NoneApart DEF HashPage
  <1>5. Chain(pages) /\ \A a \in Accounts : written[a] = Held(pages, m, a)
    BY <1>4 DEF ChainInv
  <1>6. NewItem.address = c /\ NewItem.file = m + 1 /\ NewItem.rows = PageEnd - written[c]
        /\ NewItem.first = table[c][written[c] + 1].slot /\ NewItem.last = table[c][PageEnd].slot
    BY <1>1, NextPageShape DEF NewItem
  <1>7. From(NewItem) = written[c] + 1 /\ To(NewItem) = PageEnd
    <2>1. written[c] + 1 \in DOMAIN table[c] /\ PageEnd \in DOMAIN table[c]
      BY <1>2, <1>3, TableRows
    <2>2. At(c, table[c][written[c] + 1].slot) = written[c] + 1
      BY <1>2, <1>3, <2>1, AtSlot
    <2>3. At(c, table[c][PageEnd].slot) = PageEnd
      BY <1>2, <1>3, <2>1, AtSlot
    <2> QED
      BY <1>6, <2>2, <2>3 DEF From, To
  <1>8. PageOf(NewItem) = NextPage
    BY <1>6, <1>7 DEF PageOf, NextPage
  <1>9. more[m + 1] = NewItem /\ Len(more) = m + 1 /\ DOMAIN more = 1..(m + 1) /\ more \in Seq(Items)
    BY <1>1
  <1> HIDE DEF more, pages, m, c
  <1>10. \A a \in Accounts : Held(pages, m, a) \in Nat /\ Held(pages, m, a) <= Len(table[a])
    <2>1. m \in 0..Len(pages)
      BY <1>1 DEF m
    <2> QED
      BY <1>1, <1>3, <1>5, <2>1, HeldBounds
  <1>11. \A a \in Accounts : Held(more, m + 1, a) = IF a = c THEN PageEnd ELSE written[a]
    <2> SUFFICES ASSUME NEW a \in Accounts
                 PROVE  Held(more, m + 1, a) = IF a = c THEN PageEnd ELSE written[a]
      OBVIOUS
    <2>1. a \in Nat /\ c \in Nat /\ m + 1 # 0 /\ Len(table[a]) \in Nat /\ Len(table[c]) \in Nat
      BY <1>1, <1>2, <1>3, FieldTypes, TableRows
    <2>2. CASE a = c
      BY <1>6, <1>7, <1>9, <2>1, <2>2 DEF Held
    <2>3. CASE a > c
      <3>1. Held(more, m + 1, a) = 0
        BY <1>6, <1>9, <2>1, <2>3 DEF Held
      <3>2. written[a] = 0
        <4>1. written[a] = Held(pages, m, a) /\ written[c] = Held(pages, m, c)
          BY <1>2, <1>5
        <4>2. CASE m = 0
          BY <4>1, <4>2 DEF Held
        <4>3. CASE m # 0
          <5>a. m \in DOMAIN pages /\ pages[m] \in Items
            BY <1>1, <4>3 DEF m
          <5>b. pages[m].address \in Accounts
            BY <5>a DEF Items
          <5>1. pages[m].address \in Accounts /\ pages[m].address \in Nat
            BY <5>b, FieldTypes
          <5>2. ~(c < pages[m].address)
            BY <1>2, <2>1, <4>1, <4>3, <5>1 DEF Held
          <5>3. a > pages[m].address
            BY <2>1, <2>3, <5>1, <5>2
          <5> QED
            BY <4>1, <5>3 DEF Held
        <4> QED
          BY <4>2, <4>3
      <3> QED
        BY <2>1, <2>3, <3>1, <3>2
    <2>4. CASE a < c
      <3>1. Held(more, m + 1, a) = Len(table[a])
        BY <1>6, <1>9, <2>1, <2>4 DEF Held
      <3>2. a \notin Unwritten
        BY <1>2, <2>1, <2>4
      <3>3. written[a] = Len(table[a])
        BY <1>5, <1>10, <2>1, <3>2 DEF Unwritten
      <3> QED
        BY <2>1, <2>4, <3>1, <3>3
    <2> QED
      BY <2>1, <2>2, <2>3, <2>4
  <1>12. Chain(more)
    <2>1. \A n \in 1..m : Cut(more, n)
      <3> SUFFICES ASSUME NEW n \in 1..m PROVE Cut(more, n)
        OBVIOUS
      <3>1. n \in DOMAIN pages
        BY <1>1 DEF m
      <3>2. Cut(pages, n)
        BY <1>5, <3>1 DEF Chain
      <3>3. Cut(more, n) = Cut(pages, n)
        BY <1>1, <3>1, HeldAppend DEF more
      <3> QED
        BY <3>2, <3>3
    <2>2. \A a \in Accounts : Held(more, m, a) = written[a]
      <3>1. m \in 0..Len(pages)
        BY <1>1 DEF m
      <3>2. \A a \in Accounts : Held(more, m, a) = Held(pages, m, a)
        BY <1>1, <3>1, HeldAppend DEF more
      <3> QED
        BY <1>5, <3>2
    <2>3. Cut(more, m + 1)
      <3>1. (m + 1) - 1 = m
        BY <1>1
      <3>2. \A a \in Accounts \ {c} : Held(more, m + 1, a) = Held(more, m, a)
        BY <1>11, <2>2
      <3>3. Held(more, m, c) = written[c]
        BY <1>2, <2>2
      <3>4. /\ From(NewItem) \in Nat \ {0} /\ To(NewItem) \in Nat
            /\ From(NewItem) <= To(NewItem) /\ To(NewItem) <= Len(table[c])
            /\ NewItem.rows = To(NewItem) - From(NewItem) + 1
        BY <1>2, <1>6, <1>7
      <3> QED
        BY <1>6, <1>7, <1>9, <3>1, <3>2, <3>3, <3>4 DEF Cut
    <2>4. \A n \in 1..(m + 1) : n \in 1..m \/ n = m + 1
      BY <1>1
    <2> QED
      BY <1>9, <2>1, <2>3, <2>4 DEF Chain
  <1> QED
    BY <1>7, <1>8, <1>11, <1>12 DEF more, pages, m, c

\* What every step but HashPage and Begin leaves of the pages.
LEMMA ChainSame ==
    ASSUME ChainInv, UNCHANGED <<table, layout, op, written>>,
           pc' \in ReadSteps => Complete(layout.pages)
    PROVE  ChainInv'
  <1>1. Chain(layout.pages)' = Chain(layout.pages)
    BY DEF Chain, Cut, Held, From, To, At
  <1>2. Complete(layout.pages)' = Complete(layout.pages)
    BY DEF Complete, Held, To, At
  <1>3. \A a \in Accounts : (Held(layout.pages, Len(layout.pages), a))'
                            = Held(layout.pages, Len(layout.pages), a)
    BY DEF Held, To, At
  <1> QED
    BY <1>1, <1>2, <1>3 DEF ChainInv

LEMMA ChainStopped ==
    ASSUME Stop PROVE ChainInv'
  BY NoneApart DEF Stop, ChainInv, ReadSteps

LEMMA ChainInit == Init => ChainInv
  <1> SUFFICES ASSUME Init PROVE ChainInv
    OBVIOUS
  <1>1. layout.pages = <<>> /\ Len(layout.pages) = 0 /\ DOMAIN layout.pages = {}
    BY DEF Init, NoLayout
  <1>2. Chain(layout.pages)
    BY <1>1 DEF Chain
  <1>3. \A a \in Accounts : written[a] = Held(layout.pages, Len(layout.pages), a)
    BY <1>1 DEF Held, Init
  <1> QED
    BY <1>2, <1>3 DEF Init, ChainInv, ReadSteps

LEMMA ChainStep ==
    ASSUME TypeInv, StepInv, ChainInv, ManifestInv, [Next]_vars
    PROVE  ChainInv'
  <1> USE DEF checkpoint, directory, operation, history
  <1>c. pc \in ReadSteps => Complete(layout.pages)
    BY DEF ChainInv
  <1>1. CASE WriteAccounts
    <2>1. UNCHANGED <<table, layout, op, written>> /\ pc' = "hash accounts"
      BY <1>1 DEF WriteAccounts
    <2> QED
      BY <2>1, ChainSame DEF ReadSteps
  <1>2. CASE HashAccounts
    <2>1. UNCHANGED <<table, op, written>> /\ layout'.pages = layout.pages /\ pc' = "pages"
      BY <1>2, LayoutParts DEF HashAccounts
    <2>2. Chain(layout.pages)' = Chain(layout.pages)
      BY <2>1 DEF Chain, Cut, Held, From, To, At
    <2>3. \A a \in Accounts : (Held(layout.pages, Len(layout.pages), a))'
                              = Held(layout.pages, Len(layout.pages), a)
      BY <2>1 DEF Held, To, At
    <2> QED
      BY <2>1, <2>2, <2>3 DEF ChainInv, ReadSteps
  <1>3. CASE WritePage
    <2>1. UNCHANGED <<table, layout, op, written>> /\ pc' = "hash"
      BY <1>3 DEF WritePage
    <2> QED
      BY <2>1, ChainSame DEF ReadSteps
  <1>4. CASE HashPage
    <2> DEFINE more == Append(layout.pages, NewItem)
    <2>1. layout'.pages = more /\ Len(more) = Len(layout.pages) + 1
      BY <1>4, NewItemType, LayoutParts
    <2>2. UNCHANGED <<table, op>> /\ pc' = "pages" /\ op = "export"
          /\ written' = [written EXCEPT ![Current] = PageEnd]
      BY <1>4 DEF HashPage
    <2>3. Chain(more) /\ \A a \in Accounts : Held(more, Len(more), a)
                                             = IF a = Current THEN PageEnd ELSE written[a]
      BY <1>4, <2>1, NewCut
    <2>4. \A a \in Accounts : written'[a] = IF a = Current THEN PageEnd ELSE written[a]
      BY <2>2 DEF TypeInv, Counts
    <2> HIDE DEF more
    <2>5. Chain(layout.pages)' = Chain(more)
      BY <2>1, <2>2 DEF Chain, Cut, Held, From, To, At
    <2>6. \A a \in Accounts : (Held(layout.pages, Len(layout.pages), a))'
                              = Held(more, Len(more), a)
      BY <2>1, <2>2 DEF Held, To, At
    <2> QED
      BY <2>2, <2>3, <2>4, <2>5, <2>6 DEF ChainInv, ReadSteps
  <1>5. CASE EndPages
    <2>1. UNCHANGED <<table, layout, op, written>> /\ Unwritten = {} /\ op = "export"
      BY <1>5 DEF EndPages
    <2>2. TableInv /\ layout.pages \in Seq(Items) /\ Len(layout.pages) \in 0..Len(layout.pages)
      BY LayoutParts DEF TypeInv
    <2>3. Chain(layout.pages)
      BY <2>1, NoneApart DEF ChainInv
    <2>4. Complete(layout.pages)
      <3> SUFFICES ASSUME NEW a \in Accounts
                   PROVE  Held(layout.pages, Len(layout.pages), a) = Len(table[a])
        BY DEF Complete
      <3>1. /\ Held(layout.pages, Len(layout.pages), a) \in Nat
            /\ Held(layout.pages, Len(layout.pages), a) <= Len(table[a])
        BY <2>2, <2>3, HeldBounds
      <3>2. Len(table[a]) \in Nat
        BY <2>2, TableRows
      <3>3. written[a] = Held(layout.pages, Len(layout.pages), a)
        BY <2>1 DEF ChainInv
      <3>4. ~(written[a] < Len(table[a]))
        BY <2>1 DEF Unwritten
      <3> QED
        BY <3>1, <3>2, <3>3, <3>4
    <2> QED
      BY <2>1, <2>4, ChainSame
  <1>6. CASE CheckFile \/ ReadFile \/ StartInsert \/ InsertFile
    <2>1. UNCHANGED <<table, layout, op, written>> /\ pc \in ReadSteps
      BY <1>6 DEF CheckFile, ReadFile, StartInsert, InsertFile, Verified, ReadSteps
    <2> QED
      BY <1>c, <2>1, ChainSame
  <1>7. CASE WriteManifest \/ EndVerify \/ Reject \/ Publish \/ RejectStored \/ Die
    BY <1>7, ChainStopped DEF WriteManifest, EndVerify, Reject, Publish, RejectStored, Die
  <1>8. CASE \E o \in {"verify", "import"} : Begin(o)
    <2>1. UNCHANGED table /\ layout' = manifest /\ manifest # None
      BY <1>8 DEF Begin
    <2>2. Chain(manifest.pages) /\ Complete(manifest.pages)
      BY <2>1 DEF ManifestInv
    <2>3. Chain(layout.pages)' = Chain(manifest.pages)
      BY <2>1 DEF Chain, Cut, Held, From, To, At
    <2>4. Complete(layout.pages)' = Complete(manifest.pages)
      BY <2>1 DEF Complete, Held, To, At
    <2>5. op' # "export"
      BY <1>8 DEF Begin
    <2> QED
      BY <2>2, <2>3, <2>4, <2>5 DEF ChainInv
  <1>9. CASE Damage
    <2>1. UNCHANGED <<table, layout, op, written, pc>>
      BY <1>9 DEF Damage
    <2> QED
      BY <1>c, <2>1, ChainSame
  <1>10. CASE RejectManifest \/ UNCHANGED vars
    BY <1>c, <1>10, ChainSame DEF RejectManifest, vars
  <1> QED
    BY <1>1, <1>2, <1>3, <1>4, <1>5, <1>6, <1>7, <1>8, <1>9, <1>10
       DEF Next, Export, Verify, Import

----------------------------------------------------------------------------
(* Damage takes away and never gives back                                   *)

\* The rows a page stands for.
LEMMA CutPage ==
    ASSUME TableInv, NEW pages \in Seq(Items), Chain(pages), NEW n \in DOMAIN pages
    PROVE  /\ pages[n] \in Items /\ pages[n].address \in Accounts /\ PageOf(pages[n]) \in Contents
           /\ PageOf(pages[n]) # <<>>
           /\ Len(PageOf(pages[n])) = pages[n].rows
           /\ \A k \in DOMAIN PageOf(pages[n]) : PageOf(pages[n])[k].address = pages[n].address
           /\ Ascending(PageOf(pages[n]))
           /\ Head(PageOf(pages[n])).slot = pages[n].first
           /\ Last(PageOf(pages[n])).slot = pages[n].last
  <1> DEFINE a == pages[n].address
             i == From(pages[n])
             j == To(pages[n])
  <1>1. pages[n] \in Items
    OBVIOUS
  <1>2. a \in Accounts
    BY <1>1 DEF Items
  <1>3. /\ i \in Nat \ {0} /\ j \in Nat /\ i <= j /\ j <= Len(table[a])
        /\ pages[n].first = table[a][i].slot /\ pages[n].last = table[a][j].slot
        /\ pages[n].rows = j - i + 1
    BY DEF Chain, Cut
  <1>4. PageOf(pages[n]) = SubSeq(table[a], i, j)
    BY DEF PageOf
  <1> HIDE DEF a, i, j
  <1>5. SubSeq(table[a], i, j) \in Contents
    BY <1>2, <1>3, PageShape
  <1>7. Len(SubSeq(table[a], i, j)) = j - i + 1
    BY <1>2, <1>3, PageShape
  <1>6. SubSeq(table[a], i, j) # <<>>
    <2>1. Len(SubSeq(table[a], i, j)) # 0 /\ Len(<<>>) = 0
      BY <1>3, <1>7
    <2> QED
      BY <2>1, Zenon
  <1>8. \A k \in 1..(j - i + 1) : SubSeq(table[a], i, j)[k].address = a
    BY <1>2, <1>3, PageShape
  <1>9. Ascending(SubSeq(table[a], i, j))
    BY <1>2, <1>3, PageShape
  <1>10. Head(SubSeq(table[a], i, j)) = table[a][i]
    BY <1>2, <1>3, PageShape
  <1>11. Last(SubSeq(table[a], i, j)) = table[a][j]
    BY <1>2, <1>3, PageShape
  <1>12. DOMAIN SubSeq(table[a], i, j) = 1..(j - i + 1)
    BY <1>5, <1>7 DEF Contents
  <1>13. \A k \in DOMAIN PageOf(pages[n]) : PageOf(pages[n])[k].address = pages[n].address
    BY <1>4, <1>8, <1>12 DEF a
  <1> QED
    BY <1>1, <1>2, <1>3, <1>4, <1>5, <1>6, <1>7, <1>9, <1>10, <1>11, <1>13 DEF a

LEMMA GrownTwice ==
    ASSUME NEW now \in Counts \cup {None}, NEW then \in Counts \cup {None}, NEW before \in Counts,
           then # None => Grown(now, then), then = None => now = None, Grown(then, before)
    PROVE  Grown(now, before)
  BY DEF Grown, Counts

LEMMA GrownSame ==
    ASSUME NEW counts \in Counts PROVE Grown(counts, counts)
  BY DEF Grown, Counts

LEMMA AccountRowsType ==
    ASSUME TableInv PROVE AccountRows \in Counts
  BY TableRows DEF AccountRows, Counts

\* Steps of an export that leave the directory and the layout alone.
LEMMA DecaySame ==
    ASSUME DecayInv, UNCHANGED <<table, accounts, file, layout, written, size, op>>,
           pc' \notin {"start", "hash accounts", "hash"}, pc \notin {"start", "hash accounts"}
    PROVE  DecayInv'
  <1>1. UNCHANGED AccountRows
    BY DEF AccountRows
  <1> SUFFICES ASSUME op' = "export" PROVE DecayInv'
    BY DEF DecayInv
  <1>2. /\ Grown(accounts, AccountRows)
        /\ layout.accounts # None
        /\ Grown(layout.accounts, AccountRows) /\ Grown(accounts, layout.accounts)
    BY DEF DecayInv
  <1>3. \A n \in DOMAIN layout.pages :
            /\ Decayed(layout.pages[n].sum, PageOf(layout.pages[n]))
            /\ Decayed(file[n], layout.pages[n].sum)
    BY DEF DecayInv
  <1>4. \A n \in DOMAIN layout'.pages : /\ layout'.pages = layout.pages /\ file' = file
                                        /\ PageOf(layout.pages[n])' = PageOf(layout.pages[n])
    BY DEF PageOf, From, To, At
  <1>5. \A n \in DOMAIN layout'.pages :
            /\ Decayed(layout'.pages[n].sum, (PageOf(layout.pages[n]))')
            /\ Decayed(file'[n], layout'.pages[n].sum)
    BY <1>3, <1>4
  <1>6. /\ Grown(accounts', AccountRows')
        /\ layout'.accounts # None
        /\ Grown(layout'.accounts, AccountRows') /\ Grown(accounts', layout'.accounts)
    BY <1>1, <1>2
  <1> QED
    BY <1>5, <1>6 DEF DecayInv, Decayed, Grown

LEMMA DecayInit == Init => DecayInv
  BY DEF Init, DecayInv, Grown, NoLayout

LEMMA DecayStep ==
    ASSUME TypeInv, StepInv, ChainInv, DecayInv, [Next]_vars
    PROVE  DecayInv'
  <1> USE DEF checkpoint, directory, operation, history
  <1>0. TableInv /\ AccountRows \in Counts
    BY AccountRowsType DEF TypeInv
  <1>s. Stop => DecayInv'
    BY NoneApart DEF Stop, DecayInv
  <1>p. op = "export" =>
            \A n \in DOMAIN layout.pages :
                /\ layout.pages[n].sum \in Contents /\ PageOf(layout.pages[n]) \in Contents
                /\ Decayed(layout.pages[n].sum, PageOf(layout.pages[n]))
                /\ Decayed(file[n], layout.pages[n].sum)
    <2> SUFFICES ASSUME op = "export", NEW n \in DOMAIN layout.pages
                 PROVE  /\ layout.pages[n].sum \in Contents /\ PageOf(layout.pages[n]) \in Contents
                        /\ Decayed(layout.pages[n].sum, PageOf(layout.pages[n]))
                        /\ Decayed(file[n], layout.pages[n].sum)
      OBVIOUS
    <2>1. Chain(layout.pages)
      BY NoneApart DEF ChainInv
    <2>2. layout.pages[n] \in Items /\ PageOf(layout.pages[n]) \in Contents
      BY <1>0, <2>1, LayoutParts, CutPage
    <2> QED
      BY <2>2 DEF DecayInv, Items
  <1>t. UNCHANGED table => /\ AccountRows' = AccountRows
                           /\ \A item \in Items : PageOf(item)' = PageOf(item)
    BY DEF AccountRows, PageOf, From, To, At
  <1>n. NoLayout.pages = <<>> /\ DOMAIN <<>> = {}
    BY DEF NoLayout
  <1>1. CASE WriteAccounts
    <2>1. /\ accounts' = AccountRows /\ UNCHANGED table /\ pc' = "hash accounts"
          /\ layout' = NoLayout
      BY <1>1 DEF WriteAccounts, StepInv
    <2>2. DOMAIN layout'.pages = {}
      BY <1>n, <2>1
    <2>3. Grown(AccountRows, AccountRows)
      BY <1>0, GrownSame
    <2> QED
      BY <1>t, <2>1, <2>2, <2>3 DEF DecayInv, Grown
  <1>2. CASE HashAccounts
    <2>a. layout = NoLayout
      BY <1>2 DEF HashAccounts, StepInv
    <2>b. layout'.accounts = accounts /\ layout'.pages = layout.pages
      BY <1>2, LayoutParts DEF HashAccounts
    <2>c. accounts # None /\ pc' = "pages" /\ UNCHANGED <<table, accounts>> /\ op = "export"
      BY <1>2 DEF HashAccounts
    <2>1. /\ layout'.accounts = accounts /\ DOMAIN layout'.pages = {}
          /\ accounts # None /\ pc' = "pages" /\ UNCHANGED <<table, accounts>> /\ op = "export"
      BY <1>n, <2>a, <2>b, <2>c
    <2>2. Grown(accounts, AccountRows)
      BY <2>1 DEF DecayInv
    <2>3. Grown(accounts, accounts)
      BY <2>1, GrownSame DEF TypeInv
    <2> QED
      BY <1>t, <2>1, <2>2, <2>3 DEF DecayInv, Grown
  <1>3. CASE WritePage
    <2> DEFINE m == Len(layout.pages)
    <2>1. /\ op = "export" /\ pc = "pages" /\ pc' = "hash" /\ file' = Append(file, NextPage)
          /\ UNCHANGED <<table, size, accounts, layout, written, op>> /\ Unwritten # {}
      BY <1>3 DEF WritePage
    <2>2. Len(file) = m /\ m \in Nat /\ DOMAIN layout.pages = 1..m
      BY <2>1, NoneApart, LayoutParts DEF StepInv
    <2>a. NextPage \in Contents
      BY <2>1, NextPageShape
    <2>b. NextPage' = NextPage
      BY <2>1 DEF NextPage, PageEnd, Current, Unwritten
    <2>3. NextPage' = NextPage /\ NextPage \in Contents
      BY <2>a, <2>b
    <2>4. file'[Len(file')] = NextPage /\ \A n \in 1..m : file'[n] = file[n]
      BY <2>1, <2>2, <2>3, FileParts DEF TypeInv
    <2>5. Decayed(NextPage, NextPage)
      BY <2>3, DecayedSame
    <2> HIDE DEF m
    <2>6. \A n \in DOMAIN layout'.pages :
              /\ Decayed(layout'.pages[n].sum, (PageOf(layout.pages[n]))')
              /\ Decayed(file'[n], layout'.pages[n].sum)
      <3>1. \A n \in DOMAIN layout.pages : PageOf(layout.pages[n])' = PageOf(layout.pages[n])
        BY <2>1 DEF PageOf, From, To, At
      <3> QED
        BY <1>p, <2>1, <2>2, <2>4, <3>1
    <2>7. /\ Grown(accounts, AccountRows) /\ layout.accounts # None
          /\ Grown(layout.accounts, AccountRows) /\ Grown(accounts, layout.accounts)
      BY <2>1 DEF DecayInv
    <2> QED
      BY <1>t, <2>1, <2>3, <2>4, <2>5, <2>6, <2>7 DEF DecayInv, Decayed, Grown
  <1>4. CASE HashPage
    <2> DEFINE m == Len(layout.pages)
    <2>1. /\ op = "export" /\ pc = "hash" /\ pc' = "pages"
          /\ UNCHANGED <<table, accounts, file, op>>
      BY <1>4 DEF HashPage
    <2>2. /\ layout'.pages = Append(layout.pages, NewItem) /\ layout'.accounts = layout.accounts
          /\ NewItem \in Items /\ Len(file) = m + 1 /\ m \in Nat /\ file[Len(file)] \in Contents
          /\ DOMAIN layout.pages = 1..m /\ DOMAIN layout'.pages = 1..(m + 1)
          /\ layout'.pages[m + 1] = NewItem
          /\ \A n \in 1..m : layout'.pages[n] = layout.pages[n]
      BY <1>4, NewItemType, LayoutParts
    <2>3. PageOf(NewItem) = NextPage /\ NewItem.sum = file[m + 1]
      BY <1>4, <2>2, NewCut DEF NewItem
    <2>4. Decayed(NewItem.sum, PageOf(NewItem)) /\ Decayed(file[m + 1], NewItem.sum)
      BY <2>1, <2>2, <2>3, DecayedSame DEF DecayInv
    <2> HIDE DEF m
    <2>5. \A n \in DOMAIN layout'.pages :
              /\ Decayed(layout'.pages[n].sum, PageOf(layout'.pages[n]))
              /\ Decayed(file'[n], layout'.pages[n].sum)
      <3>1. \A n \in 1..(m + 1) : n \in 1..m \/ n = m + 1
        BY <2>2
      <3> QED
        BY <1>p, <2>1, <2>2, <2>4, <3>1
    <2>6. \A n \in DOMAIN layout'.pages :
              /\ Decayed(layout'.pages[n].sum, (PageOf(layout.pages[n]))')
              /\ Decayed(file'[n], layout'.pages[n].sum)
      <3>1. \A n \in DOMAIN layout'.pages : (PageOf(layout.pages[n]))' = PageOf(layout'.pages[n])
        BY <2>1 DEF PageOf, From, To, At
      <3> QED
        BY <2>5, <3>1
    <2>7. /\ Grown(accounts, AccountRows) /\ layout.accounts # None
          /\ Grown(layout.accounts, AccountRows) /\ Grown(accounts, layout.accounts)
      BY <2>1 DEF DecayInv
    <2> QED
      BY <1>t, <2>1, <2>2, <2>6, <2>7 DEF DecayInv, Decayed, Grown
  <1>5. CASE EndPages \/ CheckFile \/ ReadFile \/ StartInsert \/ InsertFile
    <2>1. /\ UNCHANGED <<table, accounts, file, layout, written, size, op>>
          /\ pc' \notin {"start", "hash accounts", "hash"} /\ pc \notin {"start", "hash accounts"}
      BY <1>5 DEF EndPages, CheckFile, ReadFile, StartInsert, InsertFile, Verified
    <2> QED
      BY <2>1, DecaySame
  <1>6. CASE WriteManifest \/ EndVerify \/ Reject \/ Publish \/ RejectStored \/ Die
    BY <1>6, <1>s DEF WriteManifest, EndVerify, Reject, Publish, RejectStored, Die
  <1>7. CASE \E o \in {"verify", "import"} : Begin(o)
    <2>1. op' # "export"
      BY <1>7 DEF Begin
    <2> QED
      BY <2>1 DEF DecayInv
  <1>8. CASE Damage
    <2> SUFFICES ASSUME op' = "export" PROVE DecayInv'
      BY DEF DecayInv
    <2>1. UNCHANGED <<table, size, manifest, op, pc, layout, written>> /\ op = "export"
      BY <1>8 DEF Damage
    <2>2. /\ accounts' \in Counts \cup {None} /\ file' \in Seq(Contents \cup {None})
          /\ Len(file') = Len(file)
          /\ \A n \in DOMAIN file : file[n] # None => Decayed(file'[n], file[n])
          /\ \A n \in DOMAIN file : file[n] = None => file'[n] = None
          /\ accounts # None => Grown(accounts', accounts)
          /\ accounts = None => accounts' = None
      BY <1>8, DamageTypes
    <2>3. accounts \in Counts \cup {None} /\ layout.accounts \in Counts \cup {None}
      BY LayoutParts DEF TypeInv
    <2>4. Grown(accounts', AccountRows)
      <3>1. Grown(accounts, AccountRows)
        BY <2>1 DEF DecayInv
      <3> QED
        BY <1>0, <2>2, <2>3, <3>1, GrownTwice
    <2>5. pc \notin {"start", "hash accounts"} =>
              /\ layout.accounts # None
              /\ Grown(layout.accounts, AccountRows) /\ Grown(accounts', layout.accounts)
      <3> SUFFICES ASSUME pc \notin {"start", "hash accounts"}
                   PROVE  /\ layout.accounts # None
                          /\ Grown(layout.accounts, AccountRows) /\ Grown(accounts', layout.accounts)
        OBVIOUS
      <3>1. /\ layout.accounts # None
            /\ Grown(layout.accounts, AccountRows) /\ Grown(accounts, layout.accounts)
        BY <2>1 DEF DecayInv
      <3>2. layout.accounts \in Counts
        BY <2>3, <3>1
      <3> QED
        BY <2>2, <2>3, <3>1, <3>2, GrownTwice
    <2>6. /\ \A n \in DOMAIN layout.pages : n \in DOMAIN file
          /\ pc = "hash" => Len(file) \in DOMAIN file
      <3>1. Len(file) = IF pc = "hash" THEN Len(layout.pages) + 1 ELSE Len(layout.pages)
        BY <2>1, NoneApart DEF StepInv
      <3>2. DOMAIN layout.pages = 1..Len(layout.pages) /\ Len(layout.pages) \in Nat
        BY LayoutParts
      <3>3. DOMAIN file = 1..Len(file)
        BY DEF TypeInv
      <3> QED
        BY <3>1, <3>2, <3>3
    <2>7. \A n \in DOMAIN file : /\ file'[n] \in Contents \cup {None}
                                 /\ file[n] \in Contents \/ file'[n] = None
      BY <2>2, FileParts, NoneApart DEF TypeInv
    <2>8. \A n \in DOMAIN file, rows \in Contents :
              Decayed(file[n], rows) => Decayed(file'[n], rows)
      <3> SUFFICES ASSUME NEW n \in DOMAIN file, NEW rows \in Contents, Decayed(file[n], rows)
                   PROVE  Decayed(file'[n], rows)
        OBVIOUS
      <3>1. CASE file'[n] = None
        BY <3>1 DEF Decayed
      <3>2. CASE file'[n] # None
        <4>1. file[n] \in Contents /\ Decayed(file'[n], file[n])
          BY <2>2, <2>7, <3>2
        <4> QED
          BY <2>7, <4>1, DecayedTwice
      <3> QED
        BY <3>1, <3>2
    <2>9. \A n \in DOMAIN layout.pages :
              /\ Decayed(layout.pages[n].sum, PageOf(layout.pages[n]))
              /\ Decayed(file'[n], layout.pages[n].sum)
      BY <1>p, <2>1, <2>6, <2>8
    <2>10. pc = "hash" => Decayed(file'[Len(file)], NextPage)
      <3> SUFFICES ASSUME pc = "hash" PROVE Decayed(file'[Len(file)], NextPage)
        OBVIOUS
      <3>1. Unwritten # {} /\ Decayed(file[Len(file)], NextPage)
        BY <2>1 DEF StepInv, DecayInv
      <3> QED
        BY <2>6, <2>8, <3>1, NextPageShape
    <2>11. NextPage' = NextPage
      BY <2>1 DEF NextPage, PageEnd, Current, Unwritten
    <2>12. \A n \in DOMAIN layout.pages : PageOf(layout.pages[n])' = PageOf(layout.pages[n])
      BY <2>1 DEF PageOf, From, To, At
    <2>13. \A n \in DOMAIN layout'.pages :
              /\ Decayed(layout'.pages[n].sum, (PageOf(layout.pages[n]))')
              /\ Decayed(file'[n], layout'.pages[n].sum)
      BY <2>1, <2>9, <2>12
    <2>14. pc' = "hash" => Decayed(file'[Len(file')], NextPage')
      BY <2>1, <2>2, <2>10, <2>11
    <2>15. AccountRows' = AccountRows
      BY <1>t, <2>1
    <2>16. /\ Grown(accounts', AccountRows')
           /\ pc' \notin {"start", "hash accounts"} =>
                 /\ layout'.accounts # None
                 /\ Grown(layout'.accounts, AccountRows') /\ Grown(accounts', layout'.accounts)
      BY <2>1, <2>4, <2>5, <2>15
    <2> QED
      BY <2>13, <2>14, <2>16 DEF DecayInv, Decayed, Grown
  <1>9. CASE RejectManifest \/ UNCHANGED vars
    <2>1. UNCHANGED <<table, size, accounts, file, op, pc, layout, written>>
      BY <1>9 DEF RejectManifest, vars
    <2>2. AccountRows' = AccountRows /\ NextPage' = NextPage
      BY <1>t, <2>1 DEF NextPage, PageEnd, Current, Unwritten
    <2>3. \A n \in DOMAIN layout.pages : PageOf(layout.pages[n])' = PageOf(layout.pages[n])
      BY <2>1 DEF PageOf, From, To, At
    <2>4. \A n \in DOMAIN layout'.pages : (PageOf(layout.pages[n]))' = PageOf(layout.pages[n])
      BY <2>1, <2>3
    <2> QED
      BY <2>1, <2>2, <2>4 DEF DecayInv, Decayed, Grown
  <1> QED
    BY <1>1, <1>2, <1>3, <1>4, <1>5, <1>6, <1>7, <1>8, <1>9
       DEF Next, Export, Verify, Import

----------------------------------------------------------------------------
(* A verified reading proves the checksums                                  *)

\* A whole page that is read back without a bad value is the page.
LEMMA WholePage ==
    ASSUME TypeInv, StepInv, ChainInv, DecayInv, op = "export", pc = "read", Readable(NextFile),
           NextFile # 0, ~HasBad(file[NextFile])
    PROVE  Intact(layout.pages[NextFile])
  <1> DEFINE n == NextFile
             item == layout.pages[n]
             rows == file[n]
             page == PageOf(item)
  <1>1. /\ n \in DOMAIN layout.pages /\ rows \in Contents /\ item \in Items
        /\ PageValid(item, rows)
    BY ReadableRows
  <1>2. TableInv /\ layout.pages \in Seq(Items) /\ Chain(layout.pages)
    BY NoneApart, LayoutParts DEF TypeInv, ChainInv
  <1>3. page \in Contents /\ Len(page) = item.rows
    BY <1>1, <1>2, CutPage
  <1>4. Decayed(item.sum, page) /\ Decayed(rows, item.sum) /\ item.sum \in Contents
    BY <1>1 DEF DecayInv, Items
  <1> HIDE DEF item, rows, page
  <1>5. rows # None /\ item.sum # None /\ Len(rows) = item.rows
    BY <1>1, <1>4, NoneApart DEF PageValid
  <1>6. /\ Len(rows) \in Nat /\ Len(item.sum) \in Nat /\ Len(page) \in Nat
        /\ Len(rows) = Len(page) /\ Len(rows) <= Len(item.sum) /\ Len(item.sum) <= Len(page)
    BY <1>1, <1>3, <1>4, <1>5 DEF Decayed, Contents
  <1>7. Len(item.sum) = Len(page) /\ Len(rows) = Len(item.sum)
    BY <1>6
  <1>8. \A k \in 1..Len(page) : item.sum[k] = page[k]
    <2> SUFFICES ASSUME NEW k \in 1..Len(page) PROVE item.sum[k] = page[k]
      OBVIOUS
    <2>1. k \in DOMAIN rows /\ k \in DOMAIN item.sum
      BY <1>1, <1>4, <1>7 DEF Contents
    <2>2. rows[k].value # Bad
      BY <2>1 DEF HasBad, rows, n
    <2>3. rows[k] = item.sum[k]
      BY <1>4, <1>5, <2>1, <2>2 DEF Decayed
    <2> QED
      BY <1>4, <1>5, <2>1, <2>2, <2>3 DEF Decayed
  <1>9. item.sum = page
    BY <1>3, <1>4, <1>7, <1>8 DEF Contents
  <1> QED
    BY <1>9 DEF Intact, item, page

\* More rows read keep a bad value among them.
LEMMA BadStays ==
    ASSUME NEW s \in Contents, NEW t \in Contents
    PROVE  HasBad(s) \/ HasBad(t) => HasBad(s \o t)
  <1>1. /\ Len(s) \in Nat /\ Len(t) \in Nat /\ DOMAIN s = 1..Len(s) /\ DOMAIN t = 1..Len(t)
        /\ DOMAIN (s \o t) = 1..(Len(s) + Len(t))
        /\ \A k \in 1..Len(s) : (s \o t)[k] = s[k]
        /\ \A k \in 1..Len(t) : (s \o t)[Len(s) + k] = t[k]
    BY DEF Contents
  <1>2. HasBad(s) => HasBad(s \o t)
    BY <1>1 DEF HasBad
  <1>3. HasBad(t) => HasBad(s \o t)
    <2> SUFFICES ASSUME NEW k \in DOMAIN t, t[k].value = Bad PROVE HasBad(s \o t)
      BY DEF HasBad
    <2>1. Len(s) + k \in DOMAIN (s \o t) /\ (s \o t)[Len(s) + k].value = Bad
      BY <1>1
    <2> QED
      BY <2>1 DEF HasBad
  <1> QED
    BY <1>2, <1>3

\* The reading so far, where a step leaves it and the layout alone.
LEMMA ReadSame ==
    ASSUME ReadInv, UNCHANGED <<table, layout, op, read, seen, meta>>
    PROVE  ReadInv'
  <1>1. \A n \in DOMAIN layout'.pages : Intact(layout.pages[n])' = Intact(layout.pages[n])
    BY DEF Intact, PageOf, From, To, At
  <1> QED
    BY <1>1 DEF ReadInv, Grown, HasBad

LEMMA ReadInit == Init => ReadInv
  BY DEF Init, ReadInv, Grown, NoLayout

LEMMA ReadStep ==
    ASSUME TypeInv, StepInv, ChainInv, DecayInv, ReadInv, [Next]_vars
    PROVE  ReadInv'
  <1> USE DEF checkpoint, directory, operation, history
  <1>1. CASE WriteAccounts \/ WritePage \/ EndPages \/ CheckFile \/ Damage
    BY <1>1, ReadSame DEF WriteAccounts, WritePage, EndPages, CheckFile, Damage
  <1>2. CASE HashAccounts \/ HashPage
    <2>1. pc \in WriteSteps /\ UNCHANGED <<read, meta, seen>>
      BY <1>2 DEF HashAccounts, HashPage, WriteSteps
    <2>2. read' = 0 /\ meta' = None
      BY <2>1 DEF StepInv
    <2>3. layout'.pages \in Seq(Items)
      <3>1. CASE HashAccounts
        BY <3>1, LayoutParts DEF HashAccounts
      <3>2. CASE HashPage
        BY <3>2, NewItemType DEF Layouts
      <3> QED
        BY <1>2, <3>1, <3>2
    <2>4. \A n \in DOMAIN layout'.pages : ~(n < 0)
      BY <2>3
    <2> QED
      BY <2>2, <2>4 DEF ReadInv, Grown
  <1>3. CASE ReadFile
    <2> SUFFICES ASSUME op' = "export" PROVE ReadInv'
      BY DEF ReadInv
    <2>1. /\ pc = "read" /\ Readable(NextFile) /\ NextFile = read /\ op = "export"
          /\ read' = read + 1 /\ read \in Nat
          /\ UNCHANGED <<table, layout, accounts, file>>
      BY <1>3 DEF ReadFile, NextFile, TypeInv
    <2>2. /\ \A n \in DOMAIN layout.pages : n < read =>
                Intact(layout.pages[n]) \/ HasBad(seen[layout.pages[n].address])
          /\ Grown(meta, layout.accounts)
      BY <2>1 DEF ReadInv
    <2>3. Grown(meta', layout.accounts)
      <3>1. Grown(accounts, layout.accounts)
        BY <2>1 DEF DecayInv
      <3>2. meta' = accounts \/ meta' = meta
        BY <1>3 DEF ReadFile
      <3> QED
        BY <2>2, <3>1, <3>2
    <2>4. \A n \in DOMAIN layout.pages : n < read + 1 =>
              Intact(layout.pages[n]) \/ HasBad(seen'[layout.pages[n].address])
      <3>1. CASE NextFile = 0
        <4>1. seen' = seen /\ \A n \in DOMAIN layout.pages : ~(n < read + 1)
          BY <1>3, <2>1, <3>1, LayoutParts DEF ReadFile
        <4> QED
          BY <4>1
      <3>2. CASE NextFile # 0
        <4> DEFINE item == layout.pages[read]
                   a == item.address
                   rows == file[read]
        <4>1. /\ read \in DOMAIN layout.pages /\ rows \in Contents /\ item \in Items
          BY <2>1, <3>2, ReadableRows
        <4>2. a \in Accounts /\ seen[a] \in Contents
          BY <4>1 DEF Items, TypeInv
        <4>3. seen' = [seen EXCEPT ![a] = seen[a] \o rows]
          BY <1>3, <2>1, <3>2 DEF ReadFile
        <4>4. \A b \in Accounts : seen'[b] = IF b = a THEN seen[a] \o rows ELSE seen[b]
          BY <4>2, <4>3 DEF TypeInv
        <4>5. ~HasBad(rows) => Intact(item)
          BY <2>1, <3>2, WholePage
        <4> HIDE DEF a, rows, item
        <4>6. \A b \in Accounts : HasBad(seen[b]) => HasBad(seen'[b])
          BY <4>1, <4>2, <4>4, BadStays
        <4>7. Intact(item) \/ HasBad(seen'[a])
          BY <4>1, <4>2, <4>4, <4>5, BadStays
        <4> SUFFICES ASSUME NEW n \in DOMAIN layout.pages, n < read + 1
                     PROVE  Intact(layout.pages[n]) \/ HasBad(seen'[layout.pages[n].address])
          OBVIOUS
        <4>8. layout.pages[n].address \in Accounts
          BY LayoutParts DEF Items
        <4>9. n < read \/ n = read
          BY <2>1, LayoutParts
        <4> QED
          BY <2>2, <4>6, <4>7, <4>8, <4>9 DEF item, a
      <3> QED
        BY <3>1, <3>2
    <2>5. \A n \in DOMAIN layout'.pages : Intact(layout.pages[n])' = Intact(layout.pages[n])
      BY <2>1 DEF Intact, PageOf, From, To, At
    <2>6. layout'.accounts = layout.accounts
      BY <2>1
    <2> QED
      BY <2>1, <2>3, <2>4, <2>5, <2>6 DEF ReadInv, Grown, HasBad
  <1>4. CASE WriteManifest \/ EndVerify \/ Reject \/ Publish \/ RejectStored \/ Die
    <2>1. op' # "export"
      BY <1>4, NoneApart DEF WriteManifest, EndVerify, Reject, Publish, RejectStored, Die, Stop
    <2> QED
      BY <2>1 DEF ReadInv
  <1>5. CASE (\E o \in {"verify", "import"} : Begin(o)) \/ StartInsert \/ InsertFile
    <2>1. op' # "export"
      BY <1>5 DEF Begin, StartInsert, InsertFile, StepInv
    <2> QED
      BY <2>1 DEF ReadInv
  <1>6. CASE RejectManifest \/ UNCHANGED vars
    BY <1>6, ReadSame DEF RejectManifest, vars
  <1> QED
    BY <1>1, <1>2, <1>3, <1>4, <1>5, <1>6 DEF Next, Export, Verify, Import

----------------------------------------------------------------------------
(* The manifest                                                             *)

\* Rows with the proven storage root are as many as the account has, none bad.
LEMMA VerifiedWhole ==
    ASSUME TypeInv, AccountsVerified, NEW a \in Accounts
    PROVE  Len(seen[a]) = Len(table[a]) /\ ~HasBad(seen[a])
  <1>1. /\ seen[a] \in Seq(FileRows) /\ Ascending(seen[a])
        /\ StorageOf(ToSet(seen[a])) = StorageOf(ToSet(table[a]))
    BY DEF TypeInv, Contents, AccountsVerified, Proven
  <1>2. TableInv
    BY DEF TypeInv
  <1>3. table[a] \in Seq(FileRows) /\ Ascending(table[a])
    BY <1>2, TableRows
  <1>4. Len(seen[a]) = Len(table[a])
    BY <1>1, <1>3, RowCount
  <1>5. ~HasBad(seen[a])
    <2> SUFFICES ASSUME NEW k \in DOMAIN seen[a], seen[a][k].value = Bad PROVE FALSE
      BY DEF HasBad
    <2>1. <<seen[a][k].slot, Bad>> \in StorageOf(ToSet(table[a]))
      BY <1>1 DEF StorageOf, ToSet
    <2>2. PICK m \in DOMAIN table[a] : <<seen[a][k].slot, Bad>> = <<table[a][m].slot, table[a][m].value>>
      BY <2>1 DEF StorageOf, ToSet
    <2>3. table[a][m] \in Rows
      BY <1>2, TableRows
    <2> QED
      BY <2>2, <2>3, FieldTypes
  <1> QED
    BY <1>4, <1>5

LEMMA ManifestInit == Init => ManifestInv
  BY DEF Init, ManifestInv

\* A manifest is about the checkpoint, which no step changes.
LEMMA ManifestSame ==
    ASSUME ManifestInv, UNCHANGED <<table, manifest>>
    PROVE  ManifestInv'
  <1>1. Chain(manifest.pages)' = Chain(manifest.pages)
    BY DEF Chain, Cut, Held, From, To, At
  <1>2. Complete(manifest.pages)' = Complete(manifest.pages)
    BY DEF Complete, Held, To, At
  <1>3. \A n \in DOMAIN manifest'.pages : Intact(manifest.pages[n])' = Intact(manifest.pages[n])
    BY DEF Intact, PageOf, From, To, At
  <1>4. AccountRows' = AccountRows
    BY DEF AccountRows
  <1> QED
    BY <1>1, <1>2, <1>3, <1>4 DEF ManifestInv

LEMMA ManifestStep ==
    ASSUME TypeInv, StepInv, ChainInv, DecayInv, ReadInv, ManifestInv, [Next]_vars
    PROVE  ManifestInv'
  <1> USE DEF checkpoint, directory, operation, history
  <1>1. CASE WriteManifest
    <2>1. /\ op = "export" /\ pc = "check" /\ AllRead /\ AccountsVerified /\ manifest' = layout
          /\ UNCHANGED table
      BY <1>1 DEF WriteManifest, Verified
    <2>2. Chain(layout.pages) /\ Complete(layout.pages)
      BY <2>1, NoneApart DEF ChainInv, ReadSteps
    <2>3. \A a \in Accounts : Len(seen[a]) = Len(table[a]) /\ ~HasBad(seen[a])
      BY <2>1, VerifiedWhole
    <2>4. \A n \in DOMAIN layout.pages : Intact(layout.pages[n])
      <3> SUFFICES ASSUME NEW n \in DOMAIN layout.pages PROVE Intact(layout.pages[n])
        OBVIOUS
      <3>1. layout.pages[n].address \in Accounts
        BY LayoutParts DEF Items
      <3>2. n < read
        BY <2>1, LayoutParts DEF AllRead
      <3> QED
        BY <2>1, <2>3, <3>1, <3>2 DEF ReadInv
    <2>5. layout.accounts = AccountRows
      <3>1. /\ layout.accounts \in Counts /\ meta \in Counts
            /\ AccountRows \in Counts
        BY <2>1, LayoutParts, AccountRowsType DEF DecayInv, AccountsVerified, TypeInv
      <3>2. Grown(layout.accounts, AccountRows) /\ Grown(meta, layout.accounts)
        BY <2>1 DEF DecayInv, ReadInv
      <3>3. layout.accounts # None /\ meta # None
        BY <3>1, NoneApart
      <3>4. \A a \in Accounts : layout.accounts[a] = AccountRows[a]
        <4> SUFFICES ASSUME NEW a \in Accounts PROVE layout.accounts[a] = AccountRows[a]
          OBVIOUS
        <4>1. AccountRows[a] <= layout.accounts[a] /\ layout.accounts[a] <= meta[a]
          BY <3>2, <3>3 DEF Grown
        <4>2. meta[a] = AccountRows[a]
          BY <2>1, <2>3 DEF AccountsVerified, AccountRows
        <4> QED
          BY <3>1, <4>1, <4>2 DEF Counts
      <3> QED
        BY <3>1, <3>4 DEF Counts
    <2>6. Chain(manifest.pages)' = Chain(layout.pages)
      BY <2>1 DEF Chain, Cut, Held, From, To, At
    <2>7. Complete(manifest.pages)' = Complete(layout.pages)
      BY <2>1 DEF Complete, Held, To, At
    <2>8. \A n \in DOMAIN manifest'.pages : Intact(manifest.pages[n])' = Intact(layout.pages[n])
      BY <2>1 DEF Intact, PageOf, From, To, At
    <2>9. AccountRows' = AccountRows
      BY <2>1 DEF AccountRows
    <2> QED
      BY <2>1, <2>2, <2>4, <2>5, <2>6, <2>7, <2>8, <2>9 DEF ManifestInv
  <1>2. CASE ~WriteManifest
    <2>1. UNCHANGED <<table, manifest>>
      BY <1>2 DEF Next, Export, Verify, Import, WriteAccounts, HashAccounts, WritePage, HashPage,
         EndPages, CheckFile, ReadFile, EndVerify, Reject, RejectManifest, Begin, StartInsert, InsertFile, Publish,
         RejectStored, Die, Damage, vars
    <2> QED
      BY <2>1, ManifestSame
  <1> QED
    BY <1>1, <1>2

\* The pages hold every row.
LEMMA PagesCover ==
    ASSUME TableInv, NEW pages \in Seq(Items), Chain(pages), Complete(pages),
           NEW a \in Accounts, NEW k \in DOMAIN table[a]
    PROVE  \E n \in DOMAIN pages : table[a][k] \in ToSet(PageOf(pages[n]))
  <1> DEFINE T == {r \in DOMAIN pages : k <= Held(pages, r, a)}
  <1>1. k \in Nat /\ k > 0 /\ k <= Len(table[a]) /\ Len(table[a]) \in Nat /\ Len(pages) \in Nat
    BY TableRows
  <1>2. Held(pages, Len(pages), a) = Len(table[a])
    BY DEF Complete
  <1>3. Len(pages) # 0
    BY <1>1, <1>2 DEF Held
  <1>4. T # {} /\ T \in SUBSET Nat
    <2>1. Len(pages) \in DOMAIN pages
      BY <1>1, <1>3
    <2> QED
      BY <1>1, <1>2, <2>1
  <1>5. PICK r \in T : \A y \in T : r <= y
    BY <1>4, LeastNumber
  <1>6. r \in DOMAIN pages /\ k <= Held(pages, r, a) /\ r \in Nat
        /\ r - 1 \in 0..Len(pages) /\ r \in 0..Len(pages)
    BY <1>5
  <1>7. Held(pages, r - 1, a) \in Nat /\ Held(pages, r, a) \in Nat
    BY <1>6, HeldBounds
  <1>8. Held(pages, r - 1, a) < k
    <2>1. CASE r - 1 = 0
      BY <1>1, <2>1 DEF Held
    <2>2. CASE r - 1 # 0
      <3>1. r - 1 \in DOMAIN pages /\ ~(r <= r - 1)
        BY <1>6, <2>2
      <3>2. r - 1 \notin T
        BY <1>5, <3>1
      <3> QED
        BY <1>1, <1>7, <3>1, <3>2
    <2> QED
      BY <2>1, <2>2
  <1>9. Cut(pages, r)
    BY <1>6 DEF Chain
  <1>10. a = pages[r].address
    <2>1. Held(pages, r, a) # Held(pages, r - 1, a)
      BY <1>1, <1>6, <1>7, <1>8
    <2> QED
      BY <1>9, <2>1 DEF Cut
  <1> DEFINE i == From(pages[r])
             j == To(pages[r])
  <1>11. a \in Nat /\ r # 0
    BY <1>6, FieldTypes
  <1>12. Held(pages, r, a) = j
    BY <1>10, <1>11 DEF Held
  <1>13. i \in Nat \ {0} /\ j \in Nat /\ i <= j /\ j <= Len(table[a]) /\ i <= k /\ k <= j
    BY <1>1, <1>6, <1>7, <1>8, <1>9, <1>10, <1>12 DEF Cut
  <1>14. PageOf(pages[r]) = SubSeq(table[a], i, j)
    BY <1>10 DEF PageOf
  <1> HIDE DEF i, j
  <1>15. /\ k - i + 1 \in 1..(j - i + 1) /\ i + (k - i + 1) - 1 = k
    BY <1>1, <1>13
  <1>16. \A m \in 1..(j - i + 1) : SubSeq(table[a], i, j)[m] = table[a][i + m - 1]
    BY <1>13, PageShape
  <1>17. DOMAIN SubSeq(table[a], i, j) = 1..(j - i + 1)
    BY <1>13, TableRows
  <1>18. table[a][k] = SubSeq(table[a], i, j)[k - i + 1] /\ k - i + 1 \in DOMAIN SubSeq(table[a], i, j)
    BY <1>15, <1>16, <1>17
  <1> QED
    BY <1>6, <1>14, <1>18 DEF ToSet

\* ... and nothing else, one after the other.
LEMMA PageRows ==
    ASSUME TableInv, NEW pages \in Seq(Items), Chain(pages), NEW n \in DOMAIN pages
    PROVE  ToSet(PageOf(pages[n])) \subseteq ToSet(table[pages[n].address])
  <1>1. /\ From(pages[n]) \in Nat \ {0} /\ To(pages[n]) \in Nat
        /\ From(pages[n]) <= To(pages[n]) /\ To(pages[n]) <= Len(table[pages[n].address])
    BY DEF Chain, Cut
  <1>2. pages[n].address \in Accounts
    BY CutPage
  <1> DEFINE a == pages[n].address
             i == From(pages[n])
             j == To(pages[n])
             s == table[a]
  <1>3. s \in Seq(Rows)
    BY <1>2, TableRows
  <1> HIDE DEF s
  <1>4. ToSet(SubSeq(s, i, j)) \subseteq ToSet(s)
    <2> HIDE DEF a, i, j
    <2>1. i \in Nat \ {0} /\ j \in Nat /\ i <= j /\ j <= Len(s)
      BY <1>1 DEF i, j, a, s
    <2>2. \A k \in DOMAIN SubSeq(s, i, j) : SubSeq(s, i, j)[k] = s[i + k - 1] /\ i + k - 1 \in DOMAIN s
      BY <1>3, <2>1
    <2> QED
      BY <2>2 DEF ToSet
  <1> QED
    BY <1>4 DEF PageOf, s

LEMMA PagesOrdered ==
    ASSUME TableInv, NEW pages \in Seq(Items), Chain(pages), NEW n \in DOMAIN pages
    PROVE  /\ \A k \in 2..Len(PageOf(pages[n])) :
                  Precedes(PageOf(pages[n])[k - 1], PageOf(pages[n])[k])
           /\ n > 1 => Precedes(Last(PageOf(pages[n - 1])), Head(PageOf(pages[n])))
  <1>1. /\ PageOf(pages[n]) \in Contents /\ Ascending(PageOf(pages[n]))
        /\ \A k \in DOMAIN PageOf(pages[n]) : PageOf(pages[n])[k].address = pages[n].address
    BY CutPage
  <1>2. \A k \in 2..Len(PageOf(pages[n])) : Precedes(PageOf(pages[n])[k - 1], PageOf(pages[n])[k])
    <2> DEFINE page == PageOf(pages[n])
    <2> HIDE DEF page
    <2> SUFFICES ASSUME NEW k \in 2..Len(page) PROVE Precedes(page[k - 1], page[k])
      BY DEF page
    <2>1. k \in DOMAIN page /\ k - 1 \in DOMAIN page /\ k > 1
      BY <1>1 DEF page, Contents
    <2>2. page[k].slot \in Nat /\ page[k - 1].slot \in Nat
      BY <1>1, <2>1, FieldTypes DEF page, Contents
    <2>3. page[k].slot > page[k - 1].slot
      BY <1>1, <2>1 DEF page, Ascending
    <2>4. page[k].address = pages[n].address /\ page[k - 1].address = pages[n].address
      BY <1>1, <2>1 DEF page
    <2> QED
      BY <2>2, <2>3, <2>4 DEF Precedes
  <1>3. ASSUME n > 1
        PROVE  Precedes(Last(PageOf(pages[n - 1])), Head(PageOf(pages[n])))
    <2> DEFINE p == pages[n - 1]
               q == pages[n]
    <2>1. n - 1 \in DOMAIN pages /\ n - 1 # 0
      BY <1>3
    <2>2. /\ From(q) \in Nat \ {0} /\ To(q) \in Nat /\ From(q) <= To(q)
          /\ To(q) <= Len(table[q.address]) /\ From(q) = Held(pages, n - 1, q.address) + 1
      BY DEF Chain, Cut
    <2>3. /\ From(p) \in Nat \ {0} /\ To(p) \in Nat /\ From(p) <= To(p)
          /\ To(p) <= Len(table[p.address])
      BY <2>1 DEF Chain, Cut
    <2>4. p.address \in Accounts /\ q.address \in Accounts
      BY <2>1, CutPage
    <2>5. Len(table[q.address]) \in Nat
      BY <2>4, TableRows
    <2>a. p.address \in Nat /\ q.address \in Nat
      BY <2>4, FieldTypes
    <2>6. Last(PageOf(p)) = table[p.address][To(p)]
      BY <2>3, <2>4, PageShape DEF PageOf
    <2>7. Head(PageOf(q)) = table[q.address][From(q)]
      BY <2>2, <2>4, PageShape DEF PageOf
    <2>8. To(p) \in DOMAIN table[p.address] /\ From(q) \in DOMAIN table[q.address]
      BY <2>2, <2>3, <2>4, TableRows
    <2>9. /\ table[p.address][To(p)].address = p.address
          /\ table[q.address][From(q)].address = q.address
      BY <2>4, <2>8, TableRows
    <2>10. CASE p.address < q.address
      BY <2>6, <2>7, <2>9, <2>10 DEF Precedes
    <2>11. CASE p.address = q.address
      <3>1. Held(pages, n - 1, q.address) = To(p)
        BY <2>1, <2>a, <2>11 DEF Held
      <3>2. From(q) = To(p) + 1 /\ From(q) > 1 /\ From(q) - 1 = To(p)
        BY <2>2, <2>3, <3>1
      <3>3. Ascending(table[q.address])
        BY <2>4, TableRows
      <3>4. table[q.address][From(q)].slot > table[q.address][From(q) - 1].slot
        BY <2>8, <3>2, <3>3 DEF Ascending
      <3>5. /\ table[q.address][From(q)] \in FileRows /\ table[p.address][To(p)] \in FileRows
        BY <2>4, <2>8, TableRows, FieldTypes
      <3>6. /\ table[q.address][From(q)].slot \in Nat /\ table[p.address][To(p)].slot \in Nat
        BY <3>5, FieldTypes
      <3> QED
        BY <2>6, <2>7, <2>9, <2>11, <3>2, <3>4, <3>6 DEF Precedes
    <2>12. CASE p.address > q.address
      <3>1. Held(pages, n - 1, q.address) = Len(table[q.address])
        BY <2>1, <2>a, <2>12 DEF Held
      <3> QED
        BY <2>2, <2>5, <3>1
    <2> QED
      BY <2>a, <2>10, <2>11, <2>12
  <1> QED
    BY <1>2, <1>3

LEMMA CompleteManifest ==
    ASSUME TypeInv, ManifestInv
    PROVE  ManifestComplete
  <1> SUFFICES ASSUME manifest # None PROVE ManifestComplete
    BY DEF ManifestComplete
  <1> DEFINE pages == manifest.pages
  <1>1. TableInv /\ pages \in Seq(Items)
    BY DEF TypeInv, Layouts
  <1>2. /\ manifest.accounts = AccountRows /\ Chain(pages) /\ Complete(pages)
        /\ \A n \in DOMAIN pages : pages[n].sum = PageOf(pages[n])
    BY DEF ManifestInv, Intact
  <1> HIDE DEF pages
  <1>3. UNION {ToSet(pages[n].sum) : n \in DOMAIN pages} = CheckpointRows
    <2>1. \A n \in DOMAIN pages : ToSet(pages[n].sum) \subseteq CheckpointRows
      <3> SUFFICES ASSUME NEW n \in DOMAIN pages PROVE ToSet(pages[n].sum) \subseteq CheckpointRows
        OBVIOUS
      <3>1. ToSet(PageOf(pages[n])) \subseteq ToSet(table[pages[n].address])
        BY <1>1, <1>2, PageRows
      <3>2. pages[n].address \in Accounts
        BY <1>1, <1>2, CutPage
      <3> QED
        BY <1>2, <3>1, <3>2 DEF CheckpointRows
    <2>2. \A row \in CheckpointRows : \E n \in DOMAIN pages : row \in ToSet(pages[n].sum)
      <3> SUFFICES ASSUME NEW row \in CheckpointRows
                   PROVE  \E n \in DOMAIN pages : row \in ToSet(pages[n].sum)
        OBVIOUS
      <3>1. PICK a \in Accounts : row \in ToSet(table[a])
        BY DEF CheckpointRows
      <3>2. PICK k \in DOMAIN table[a] : row = table[a][k]
        BY <3>1 DEF ToSet
      <3>3. \E n \in DOMAIN pages : table[a][k] \in ToSet(PageOf(pages[n]))
        BY <1>1, <1>2, PagesCover
      <3> QED
        BY <1>2, <3>2, <3>3
    <2> QED
      BY <2>1, <2>2
  <1>4. \A n \in DOMAIN pages :
            /\ pages[n].sum # <<>>
            /\ \A k \in 2..Len(pages[n].sum) : Precedes(pages[n].sum[k - 1], pages[n].sum[k])
            /\ n > 1 => Precedes(Last(pages[n - 1].sum), Head(pages[n].sum))
    <2> SUFFICES ASSUME NEW n \in DOMAIN pages
                 PROVE  /\ pages[n].sum # <<>>
                        /\ \A k \in 2..Len(pages[n].sum) : Precedes(pages[n].sum[k - 1], pages[n].sum[k])
                        /\ n > 1 => Precedes(Last(pages[n - 1].sum), Head(pages[n].sum))
      OBVIOUS
    <2>1. pages[n].sum # <<>>
      BY <1>1, <1>2, CutPage
    <2>2. /\ \A k \in 2..Len(PageOf(pages[n])) :
                 Precedes(PageOf(pages[n])[k - 1], PageOf(pages[n])[k])
          /\ n > 1 => Precedes(Last(PageOf(pages[n - 1])), Head(PageOf(pages[n])))
      BY <1>1, <1>2, PagesOrdered
    <2>3. n > 1 => n - 1 \in DOMAIN pages
      BY <1>1
    <2> QED
      BY <1>2, <2>1, <2>2, <2>3
  <1> QED
    BY <1>2, <1>3, <1>4 DEF ManifestComplete, pages

----------------------------------------------------------------------------
(* What an import publishes                                                 *)

\* Rows with the proven storage root are the account's rows.
LEMMA ProvenRows ==
    ASSUME TableInv, NEW a \in Accounts, NEW rows \in SUBSET FileRows,
           \A row \in rows : row.address = a,
           StorageOf(rows) = Proven(a)
    PROVE  rows = ToSet(table[a])
  <1>1. \A row \in ToSet(table[a]) : row \in FileRows /\ row.address = a
    BY TableRows DEF ToSet
  <1>2. \A r \in rows : \E t \in ToSet(table[a]) : r.slot = t.slot /\ r.value = t.value
    <2> SUFFICES ASSUME NEW r \in rows
                 PROVE  \E t \in ToSet(table[a]) : r.slot = t.slot /\ r.value = t.value
      OBVIOUS
    <2>1. <<r.slot, r.value>> \in StorageOf(ToSet(table[a]))
      BY DEF StorageOf, Proven
    <2> QED
      BY <2>1 DEF StorageOf
  <1>3. \A t \in ToSet(table[a]) : \E r \in rows : r.slot = t.slot /\ r.value = t.value
    <2> SUFFICES ASSUME NEW t \in ToSet(table[a])
                 PROVE  \E r \in rows : r.slot = t.slot /\ r.value = t.value
      OBVIOUS
    <2>1. <<t.slot, t.value>> \in StorageOf(rows)
      BY DEF StorageOf, Proven
    <2> QED
      BY <2>1 DEF StorageOf
  <1>4. \A r \in rows, t \in ToSet(table[a]) : r.slot = t.slot /\ r.value = t.value => r = t
    <2> SUFFICES ASSUME NEW r \in rows, NEW t \in ToSet(table[a]), r.slot = t.slot, r.value = t.value
                 PROVE  r = t
      OBVIOUS
    <2>1. r = [address |-> r.address, slot |-> r.slot, value |-> r.value]
      BY FieldTypes
    <2>2. t = [address |-> t.address, slot |-> t.slot, value |-> t.value]
      BY <1>1, FieldTypes
    <2> QED
      BY <1>1, <2>1, <2>2
  <1> QED
    BY <1>2, <1>3, <1>4

LEMMA PublishedWhole ==
    ASSUME TypeInv, StoredVerified
    PROVE  stored = CheckpointRows /\ meta = AccountRows
  <1>1. TableInv /\ stored \in SUBSET FileRows /\ meta \in Counts
    BY DEF TypeInv, StoredVerified
  <1>2. \A a \in Accounts : /\ {row \in stored : row.address = a} = ToSet(table[a])
                            /\ meta[a] = Len(table[a])
    <2> SUFFICES ASSUME NEW a \in Accounts
                 PROVE  /\ {row \in stored : row.address = a} = ToSet(table[a])
                        /\ meta[a] = Len(table[a])
      OBVIOUS
    <2> DEFINE rows == {row \in stored : row.address = a}
    <2>1. StorageOf(rows) = Proven(a) /\ meta[a] = Cardinality(rows)
      BY DEF StoredVerified
    <2>2. rows \in SUBSET FileRows /\ \A row \in rows : row.address = a
      BY <1>1
    <2> HIDE DEF rows
    <2>3. rows = ToSet(table[a])
      BY <1>1, <2>1, <2>2, ProvenRows
    <2>4. Cardinality(ToSet(table[a])) = Len(table[a])
      BY <1>1, TableRows, RowCount
    <2> QED
      BY <2>1, <2>3, <2>4 DEF rows
  <1>3. \A row \in stored : row.address \in Accounts
    BY <1>1, FieldTypes
  <1>4. stored = CheckpointRows
    BY <1>2, <1>3 DEF CheckpointRows
  <1>5. meta = AccountRows
    BY <1>1, <1>2 DEF AccountRows, Counts
  <1> QED
    BY <1>4, <1>5

LEMMA ImportStep ==
    ASSUME TypeInv, ImportExact, [Next]_vars
    PROVE  ImportExact'
  <1> USE DEF checkpoint, directory, operation, history
  <1>t. UNCHANGED table => CheckpointRows' = CheckpointRows /\ AccountRows' = AccountRows
    BY DEF CheckpointRows, AccountRows
  <1>1. CASE Publish
    <2>1. StoredVerified /\ published' = published \cup {[rows |-> stored, accounts |-> meta]}
          /\ UNCHANGED table
      BY <1>1 DEF Publish
    <2> QED
      BY <1>t, <2>1, PublishedWhole DEF ImportExact
  <1>2. CASE ~Publish
    <2>1. UNCHANGED <<table, published>>
      BY <1>2 DEF Next, Export, Verify, Import, WriteAccounts, HashAccounts, WritePage, HashPage,
         EndPages, WriteManifest, CheckFile, ReadFile, EndVerify, Reject, RejectManifest, Begin, StartInsert,
         InsertFile, RejectStored, Die, Damage, vars
    <2> QED
      BY <1>t, <2>1 DEF ImportExact
  <1> QED
    BY <1>1, <1>2

----------------------------------------------------------------------------
(* A directory that nothing damaged                                         *)

LEMMA PagesAscend ==
    ASSUME TableInv, NEW pages \in Seq(Items), Chain(pages), NEW n \in DOMAIN pages, n > 1
    PROVE  pages[n].address >= pages[n - 1].address
  <1>1. n - 1 \in DOMAIN pages
    OBVIOUS
  <1>2. /\ PageOf(pages[n]) \in Contents /\ PageOf(pages[n]) # <<>>
        /\ \A k \in DOMAIN PageOf(pages[n]) : PageOf(pages[n])[k].address = pages[n].address
        /\ pages[n].address \in Accounts
    BY CutPage
  <1>3. /\ PageOf(pages[n - 1]) \in Contents /\ PageOf(pages[n - 1]) # <<>>
        /\ \A k \in DOMAIN PageOf(pages[n - 1]) :
               PageOf(pages[n - 1])[k].address = pages[n - 1].address
        /\ pages[n - 1].address \in Accounts
    BY <1>1, CutPage
  <1>4. Precedes(Last(PageOf(pages[n - 1])), Head(PageOf(pages[n])))
    BY PagesOrdered
  <1>5. \A s \in Contents : s # <<>> => /\ 1 \in DOMAIN s /\ Head(s) = s[1]
                                        /\ Len(s) \in DOMAIN s /\ Last(s) = s[Len(s)]
    BY DEF Contents, Last
  <1>6. Head(PageOf(pages[n])).address = pages[n].address
    BY <1>2, <1>5
  <1>7. Last(PageOf(pages[n - 1])).address = pages[n - 1].address
    BY <1>3, <1>5
  <1>8. pages[n].address \in Nat /\ pages[n - 1].address \in Nat
    BY <1>2, <1>3, FieldTypes
  <1> QED
    BY <1>4, <1>6, <1>7, <1>8 DEF Precedes

\* Without damage every check of a file passes.
LEMMA CleanFiles ==
    ASSUME TypeInv, StepInv, ChainInv, ManifestInv, CleanInv, damages = 0, pc \in ReadSteps
    PROVE  /\ TableInv /\ layout.pages \in Seq(Items)
           /\ Chain(layout.pages) /\ Complete(layout.pages) /\ LayoutValid
           /\ accounts = AccountRows /\ layout.accounts = AccountRows /\ accounts # None
           /\ \A n \in DOMAIN layout.pages :
                 /\ file[n] = layout.pages[n].sum /\ file[n] = PageOf(layout.pages[n])
                 /\ PageValid(layout.pages[n], file[n])
           /\ \A n \in Nat : n <= Len(layout.pages) =>
                 /\ Content(n) = ChecksumOf(n)
                 /\ n # 0 \/ bytes.accounts <= MaxJson => Readable(n)
  <1> DEFINE pages == layout.pages
  <1>1. TableInv /\ pages \in Seq(Items)
    BY LayoutParts DEF TypeInv
  <1>2. op # None
    BY DEF StepInv, ReadSteps
  <1>3. Chain(pages) /\ Complete(pages)
    BY <1>2 DEF ChainInv
  <1>4. \A n \in DOMAIN pages : file[n] = pages[n].sum
    BY <1>2 DEF CleanInv
  <1>5. accounts = AccountRows /\ layout.accounts = AccountRows
        /\ \A n \in DOMAIN pages : Intact(pages[n])
    <2>1. CASE op = "export"
      BY <2>1 DEF CleanInv, ReadSteps
    <2>2. CASE op # "export"
      <3>1. manifest # None /\ layout = manifest
        BY <1>2, <2>2 DEF TypeInv, StepInv
      <3> QED
        BY <3>1 DEF CleanInv, ManifestInv
    <2> QED
      BY <2>1, <2>2
  <1>6. accounts # None
    BY <1>1, <1>5, AccountRowsType, NoneApart
  <1> HIDE DEF pages
  <1>7. \A n \in DOMAIN pages : file[n] = PageOf(pages[n])
    BY <1>4, <1>5 DEF Intact
  <1>8. \A n \in DOMAIN pages : PageValid(pages[n], file[n])
    <2> SUFFICES ASSUME NEW n \in DOMAIN pages PROVE PageValid(pages[n], file[n])
      OBVIOUS
    <2>1. PageOf(pages[n]) # None
      BY <1>1, <1>3, CutPage, NoneApart
    <2> QED
      BY <1>1, <1>3, <1>7, <2>1, CutPage DEF PageValid
  <1>9. LayoutValid
    <2>1. \A n \in DOMAIN pages : pages[n].file = n /\ pages[n].address \in Accounts
      BY <1>1, <1>3, CutPage DEF Chain, Cut
    <2>2. \A n \in DOMAIN pages : n > 1 => pages[n].address >= pages[n - 1].address
      BY <1>1, <1>3, PagesAscend
    <2> QED
      BY <2>1, <2>2 DEF LayoutValid, pages
  <1>10. \A n \in Nat : n <= Len(pages) =>
             /\ Content(n) = ChecksumOf(n)
             /\ n # 0 \/ bytes.accounts <= MaxJson => Readable(n)
    <2> SUFFICES ASSUME NEW n \in Nat, n <= Len(pages)
                 PROVE  /\ Content(n) = ChecksumOf(n)
                        /\ n # 0 \/ bytes.accounts <= MaxJson => Readable(n)
      OBVIOUS
    <2>1. n = 0 \/ n \in DOMAIN pages
      BY <1>1
    <2> QED
      BY <1>4, <1>5, <1>6, <1>8, <2>1 DEF Content, ChecksumOf, Readable, pages
  <1> QED
    BY <1>1, <1>3, <1>4, <1>5, <1>6, <1>7, <1>8, <1>9, <1>10 DEF pages

\* Rows one after the other, in one piece.
LEMMA JoinRows ==
    ASSUME NEW s \in Seq(Rows), NEW h \in Nat, NEW j \in Nat, h < j, j <= Len(s)
    PROVE  SubSeq(s, 1, j) = SubSeq(s, 1, h) \o SubSeq(s, h + 1, j)
  <1> DEFINE x == SubSeq(s, 1, j)
             y == SubSeq(s, 1, h)
             z == SubSeq(s, h + 1, j)
  <1>1. x \in Seq(Rows) /\ Len(x) = j /\ \A k \in 1..j : x[k] = s[k]
    OBVIOUS
  <1>2. y \in Seq(Rows) /\ Len(y) = h /\ \A k \in 1..h : y[k] = s[k]
    OBVIOUS
  <1>3. z \in Seq(Rows) /\ Len(z) = j - h /\ \A k \in 1..(j - h) : z[k] = s[h + k]
    OBVIOUS
  <1> HIDE DEF x, y, z
  <1>4. y \o z \in Seq(Rows)
    BY <1>2, <1>3
  <1>5. Len(y \o z) = j
    <2>1. Len(y \o z) = Len(y) + Len(z)
      BY <1>2, <1>3
    <2>2. h + (j - h) = j
      OBVIOUS
    <2> QED
      BY <1>2, <1>3, <2>1, <2>2
  <1>6. \A k \in 1..j : (y \o z)[k] = x[k]
    <2> SUFFICES ASSUME NEW k \in 1..j PROVE (y \o z)[k] = x[k]
      OBVIOUS
    <2>1. k <= h \/ k > h
      OBVIOUS
    <2>2. CASE k <= h
      <3>1. k \in 1..Len(y)
        BY <1>2, <2>2
      <3>2. (y \o z)[k] = y[k]
        BY <1>2, <1>3, <3>1
      <3> QED
        BY <1>1, <1>2, <2>2, <3>2
    <2>3. CASE k > h
      <3>1. k - h \in 1..(j - h) /\ h + (k - h) = k
        BY <2>3
      <3>2. (y \o z)[k] = z[k - h]
        BY <1>2, <1>3, <2>3
      <3> QED
        BY <1>1, <1>3, <3>1, <3>2
    <2> QED
      BY <2>1, <2>2, <2>3
  <1>7. x = y \o z
    <2> DEFINE w == y \o z
    <2>1. w \in Seq(Rows) /\ Len(w) = j /\ \A k \in 1..j : w[k] = x[k]
      BY <1>4, <1>5, <1>6
    <2> HIDE DEF w
    <2>2. DOMAIN w = 1..j /\ DOMAIN x = 1..j
      BY <1>1, <2>1
    <2>3. x = w
      BY <1>1, <2>1, <2>2
    <2> QED
      BY <2>3 DEF w
  <1> QED
    BY <1>7 DEF x, y, z

LEMMA HeldNone ==
    ASSUME TableInv, NEW pages, NEW a \in Accounts
    PROVE  SubSeq(table[a], 1, Held(pages, 0, a)) = <<>>
  <1>1. Held(pages, 0, a) = 0 /\ table[a] \in Seq(Rows)
    BY TableRows DEF Held
  <1> QED
    BY <1>1

LEMMA HeldAll ==
    ASSUME TableInv, NEW pages, Complete(pages), NEW a \in Accounts
    PROVE  SubSeq(table[a], 1, Held(pages, Len(pages), a)) = table[a]
  <1>1. Held(pages, Len(pages), a) = Len(table[a]) /\ table[a] \in Seq(Rows)
    BY TableRows DEF Complete
  <1> QED
    BY <1>1

\* One more page read adds its rows to its account, and nothing to another.
LEMMA HeldNext ==
    ASSUME TableInv, NEW pages \in Seq(Items), Chain(pages), NEW n \in DOMAIN pages, NEW a \in Accounts
    PROVE  SubSeq(table[a], 1, Held(pages, n, a)) =
               IF a = pages[n].address
               THEN SubSeq(table[a], 1, Held(pages, n - 1, a)) \o PageOf(pages[n])
               ELSE SubSeq(table[a], 1, Held(pages, n - 1, a))
  <1>1. Cut(pages, n)
    BY DEF Chain
  <1>2. CASE a # pages[n].address
    <2>1. Held(pages, n, a) = Held(pages, n - 1, a)
      BY <1>1, <1>2 DEF Cut
    <2> QED
      BY <1>2, <2>1
  <1>3. CASE a = pages[n].address
    <2> DEFINE h == Held(pages, n - 1, a)
               j == To(pages[n])
    <2>1. h \in Nat
      BY HeldBounds
    <2>2. a \in Nat /\ n # 0
      BY FieldTypes
    <2>3. Held(pages, n, a) = j
      BY <1>3, <2>2 DEF Held
    <2>4. From(pages[n]) = h + 1 /\ j \in Nat /\ From(pages[n]) <= j /\ j <= Len(table[a])
      BY <1>1, <1>3 DEF Cut
    <2>5. PageOf(pages[n]) = SubSeq(table[a], h + 1, j)
      BY <1>3, <2>4 DEF PageOf
    <2> HIDE DEF h, j
    <2>6. h < j /\ table[a] \in Seq(Rows)
      BY <2>1, <2>4, TableRows
    <2>7. SubSeq(table[a], 1, j) = SubSeq(table[a], 1, h) \o SubSeq(table[a], h + 1, j)
      BY <2>1, <2>4, <2>6, JoinRows
    <2> QED
      BY <1>3, <2>3, <2>5, <2>7 DEF h
  <1> QED
    BY <1>2, <1>3

LEMMA JoinedRows ==
    ASSUME NEW s \in Contents, NEW t \in Contents
    PROVE  ToSet(s \o t) = ToSet(s) \cup ToSet(t)
  <1>1. /\ Len(s) \in Nat /\ Len(t) \in Nat /\ DOMAIN s = 1..Len(s) /\ DOMAIN t = 1..Len(t)
        /\ DOMAIN (s \o t) = 1..(Len(s) + Len(t))
        /\ \A k \in 1..Len(s) : (s \o t)[k] = s[k]
        /\ \A k \in 1..Len(t) : (s \o t)[Len(s) + k] = t[k]
    BY DEF Contents
  <1>2. ToSet(s) \cup ToSet(t) \subseteq ToSet(s \o t)
    <2>1. \A k \in 1..Len(s) : k \in DOMAIN (s \o t)
      BY <1>1
    <2>2. \A k \in 1..Len(t) : Len(s) + k \in DOMAIN (s \o t)
      BY <1>1
    <2> QED
      BY <1>1, <2>1, <2>2 DEF ToSet
  <1>3. ToSet(s \o t) \subseteq ToSet(s) \cup ToSet(t)
    <2> SUFFICES ASSUME NEW k \in DOMAIN (s \o t) PROVE (s \o t)[k] \in ToSet(s) \cup ToSet(t)
      BY DEF ToSet
    <2>1. CASE k <= Len(s)
      BY <1>1, <2>1 DEF ToSet
    <2>2. CASE k > Len(s)
      <3>1. k - Len(s) \in DOMAIN t /\ Len(s) + (k - Len(s)) = k
        BY <1>1, <2>2
      <3> QED
        BY <1>1, <3>1 DEF ToSet
    <2> QED
      BY <1>1, <2>1, <2>2
  <1> QED
    BY <1>2, <1>3

\* Without damage no check fails.
\* Nothing is refused but for its size.
LEMMA NeverFailing ==
    ASSUME TypeInv, StepInv, LimitInv, ChainInv, ManifestInv, CleanInv, damages = 0, WithinLimits
    PROVE  ~Failing
  <1>1. ASSUME pc = "hash" PROVE file[Len(file)] # None
    <2>1. op = "export" /\ Unwritten # {}
      BY <1>1 DEF StepInv, WriteSteps
    <2>2. file[Len(file)] = NextPage
      BY <1>1, <2>1 DEF CleanInv
    <2> QED
      BY <2>1, <2>2, NextPageShape, NoneApart
  <1>2. ASSUME pc = "hash accounts" PROVE accounts # None
    <2>1. op = "export"
      BY <1>2 DEF StepInv, WriteSteps
    <2>2. accounts = AccountRows /\ TableInv
      BY <1>2, <2>1 DEF CleanInv, TypeInv
    <2> QED
      BY <2>2, AccountRowsType, NoneApart
  <1>3. ASSUME pc \in {"check", "icheck"}, ~AllRead
        PROVE  LayoutValid /\ Content(NextFile) = ChecksumOf(NextFile)
    <2>a. read \in Nat /\ Len(layout.pages) \in Nat
      BY LayoutParts DEF TypeInv
    <2>b. read <= Len(layout.pages) + 1 /\ read # Len(layout.pages) + 1
      BY <1>3 DEF StepInv, AllRead
    <2>1. read <= Len(layout.pages)
      BY <2>a, <2>b
    <2>2. NextFile \in Nat /\ NextFile <= Len(layout.pages)
      BY <1>3, <2>1, NextFileNumber
    <2>3. pc \in ReadSteps
      BY <1>3 DEF ReadSteps
    <2> QED
      BY <2>2, <2>3, CleanFiles
  <1>4. ASSUME pc \in {"read", "insert"} PROVE Readable(NextFile)
    <2>1. read <= Len(layout.pages)
      BY <1>4 DEF StepInv
    <2>2. NextFile \in Nat /\ NextFile <= Len(layout.pages)
      BY <1>4, <2>1, NextFileNumber
    <2>3. pc \in ReadSteps /\ bytes.accounts <= MaxJson
      BY <1>4 DEF ReadSteps, WithinLimits
    <2> QED
      BY <2>2, <2>3, CleanFiles
  <1>5. ASSUME pc = "check", AllRead PROVE Verified
    <2>1. pc \in ReadSteps
      BY <1>5 DEF ReadSteps
    <2>2. TableInv /\ Complete(layout.pages) /\ LayoutValid
      BY <2>1, CleanFiles
    <2>3. read > 0 /\ PagesRead = Len(layout.pages)
      BY <1>5, LayoutParts DEF AllRead, PagesRead
    <2>4. meta = AccountRows /\ \A a \in Accounts : seen[a] = HeldRows(a)
      BY <1>5, <2>3 DEF CleanInv
    <2>5. \A a \in Accounts : seen[a] = table[a]
      BY <2>2, <2>3, <2>4, HeldAll DEF HeldRows
    <2>6. meta # None
      BY <2>2, <2>4, AccountRowsType, NoneApart
    <2>7. AccountsVerified
      BY <2>2, <2>4, <2>5, <2>6, TableRows DEF AccountsVerified, Proven, AccountRows
    <2> QED
      BY <1>5, <2>2, <2>7 DEF Verified
  <1>6. ASSUME pc = "pages", Unwritten # {} PROVE ~(Len(file) >= MaxPages)
    <2>1. pc \in WriteSteps /\ op # None /\ pc # "hash"
      BY <1>6, NoneApart DEF StepInv, WriteSteps
    <2>2. Len(file) = Len(layout.pages) /\ Len(layout.pages) \in Nat
      BY <2>1, LayoutParts DEF StepInv
    <2>3. PagesNeeded \in Nat /\ Len(layout.pages) < PagesNeeded
      BY <1>6, <2>1, MoreNeeded
    <2>4. PagesNeeded <= MaxPages /\ MaxPages \in Nat
      BY ExportAssumption DEF WithinLimits
    <2> QED
      BY <2>2, <2>3, <2>4
  <1> QED
    BY <1>1, <1>2, <1>3, <1>4, <1>5, <1>6 DEF Failing

LEMMA ManifestFits ==
    ASSUME LimitInv, WithinLimits
    PROVE  ~RejectManifest
  BY DEF LimitInv, WithinLimits, RejectManifest, ManifestReadable

LEMMA NeverStoredWrong ==
    ASSUME TypeInv, StepInv, ChainInv, ManifestInv, CleanInv, damages = 0, pc = "icheck", AllRead
    PROVE  StoredVerified
  <1>1. pc \in ReadSteps
    BY DEF ReadSteps
  <1>2. TableInv /\ Complete(layout.pages)
    BY <1>1, CleanFiles
  <1>3. PagesRead = Len(layout.pages)
    BY LayoutParts DEF AllRead, PagesRead
  <1>4. meta = AccountRows /\ \A a \in Accounts : {row \in stored : row.address = a} = ToSet(HeldRows(a))
    BY DEF CleanInv
  <1>5. meta # None
    BY <1>2, <1>4, AccountRowsType, NoneApart
  <1>6. \A a \in Accounts : {row \in stored : row.address = a} = ToSet(table[a])
    BY <1>2, <1>3, <1>4, HeldAll DEF HeldRows
  <1>7. \A a \in Accounts : Cardinality(ToSet(table[a])) = meta[a]
    BY <1>2, <1>4, TableRows, RowCount DEF AccountRows
  <1> QED
    BY <1>5, <1>6, <1>7 DEF StoredVerified, Proven

LEMMA CleanInit == Init => CleanInv
  <1> SUFFICES ASSUME Init PROVE CleanInv
    OBVIOUS
  <1>1. DOMAIN layout.pages = {}
    BY DEF Init, NoLayout
  <1> QED
    BY <1>1 DEF Init, CleanInv

\* What an export or an import leaves when it ends well or is killed.
LEMMA CleanStopped ==
    ASSUME CleanInv, damages = 0, Stop, UNCHANGED <<table, accounts, file>>,
           refused' => ~WithinLimits',
           manifest' # None => /\ accounts = AccountRows
                               /\ \A n \in DOMAIN manifest'.pages : file[n] = manifest'.pages[n].sum
    PROVE  CleanInv'
  <1>1. AccountRows' = AccountRows
    BY DEF AccountRows
  <1>2. op' = None /\ pc' = "end"
    BY DEF Stop
  <1> QED
    BY <1>1, <1>2, NoneApart DEF CleanInv

\* A page of the layout is read.
LEMMA CleanReadPage ==
    ASSUME TypeInv, StepInv, ChainInv, ManifestInv, CleanInv, damages = 0, ReadFile
    PROVE  /\ read' > 0 => meta' = AccountRows
           /\ \A a \in Accounts : seen'[a] = SubSeq(table[a], 1, Held(layout.pages, read, a))
  <1>1. /\ pc = "read" /\ NextFile = read /\ read \in Nat /\ read <= Len(layout.pages)
        /\ pc \in ReadSteps
    BY DEF ReadFile, NextFile, TypeInv, StepInv, ReadSteps
  <1>2. /\ TableInv /\ layout.pages \in Seq(Items) /\ Chain(layout.pages)
        /\ accounts = AccountRows
        /\ \A n \in DOMAIN layout.pages : file[n] = PageOf(layout.pages[n])
    BY <1>1, CleanFiles
  <1>3. /\ read > 0 => meta = AccountRows
        /\ \A a \in Accounts : seen[a] = HeldRows(a)
    BY <1>1 DEF CleanInv
  <1>4. CASE read = 0
    <2>1. meta' = accounts /\ seen' = seen
      BY <1>1, <1>4 DEF ReadFile
    <2>2. PagesRead = 0
      BY <1>1, <1>4 DEF PagesRead
    <2> QED
      BY <1>2, <1>3, <1>4, <2>1, <2>2 DEF HeldRows
  <1>5. CASE read # 0
    <2> DEFINE b == layout.pages[read].address
    <2>1. read \in DOMAIN layout.pages
      BY <1>1, <1>2, <1>5
    <2>2. b \in Accounts
      BY <2>1, LayoutParts DEF Items
    <2>3. meta' = meta /\ seen' = [seen EXCEPT ![b] = seen[b] \o file[read]]
      BY <1>1, <1>5 DEF ReadFile
    <2>4. PagesRead = read - 1
      BY <1>1, <1>5 DEF PagesRead
    <2> HIDE DEF b
    <2>5. \A a \in Accounts : seen'[a] = IF a = b THEN seen[a] \o PageOf(layout.pages[read]) ELSE seen[a]
      BY <1>2, <2>1, <2>2, <2>3 DEF TypeInv
    <2>6. \A a \in Accounts : seen'[a] = SubSeq(table[a], 1, Held(layout.pages, read, a))
      <3> SUFFICES ASSUME NEW a \in Accounts
                   PROVE  seen'[a] = SubSeq(table[a], 1, Held(layout.pages, read, a))
        OBVIOUS
      <3>1. SubSeq(table[a], 1, Held(layout.pages, read, a)) =
                IF a = b
                THEN SubSeq(table[a], 1, Held(layout.pages, read - 1, a)) \o PageOf(layout.pages[read])
                ELSE SubSeq(table[a], 1, Held(layout.pages, read - 1, a))
        BY <1>2, <2>1, HeldNext DEF b
      <3>2. seen[a] = SubSeq(table[a], 1, Held(layout.pages, read - 1, a))
        BY <1>3, <2>4 DEF HeldRows
      <3> QED
        BY <2>5, <3>1, <3>2
    <2>7. read > 0
      BY <1>1, <1>5
    <2>8. meta' = AccountRows
      BY <1>3, <2>3, <2>7
    <2> QED
      BY <2>6, <2>8
  <1> QED
    BY <1>4, <1>5

\* A file of the layout is inserted.
LEMMA CleanInsertPage ==
    ASSUME TypeInv, StepInv, ChainInv, ManifestInv, CleanInv, damages = 0, InsertFile
    PROVE  /\ AllRead' => meta' = AccountRows
           /\ \A a \in Accounts : {row \in stored' : row.address = a}
                                  = ToSet(SubSeq(table[a], 1, Held(layout.pages, PagesRead', a)))
  <1>1. /\ pc = "insert" /\ read \in Nat /\ read <= Len(layout.pages) /\ pc \in ReadSteps
        /\ read' = read + 1 /\ layout' = layout /\ pc' = "icheck" /\ Len(layout.pages) \in Nat
    BY LayoutParts DEF InsertFile, TypeInv, StepInv, ReadSteps
  <1>2. /\ TableInv /\ layout.pages \in Seq(Items) /\ Chain(layout.pages)
        /\ accounts = AccountRows
        /\ \A n \in DOMAIN layout.pages : file[n] = PageOf(layout.pages[n])
    BY <1>1, CleanFiles
  <1>3. \A a \in Accounts : {row \in stored : row.address = a} = ToSet(HeldRows(a))
    BY <1>1 DEF CleanInv
  <1>4. PagesRead = read
    BY <1>1 DEF PagesRead
  <1>5. CASE read = Len(layout.pages)
    <2>1. NextFile = 0
      BY <1>1, <1>5 DEF NextFile
    <2>2. meta' = accounts /\ stored' = stored
      BY <2>1 DEF InsertFile
    <2>3. PagesRead' = read
      BY <1>1, <1>5 DEF PagesRead
    <2> QED
      BY <1>2, <1>3, <1>4, <2>2, <2>3 DEF HeldRows
  <1>6. CASE read # Len(layout.pages)
    <2> DEFINE n == read + 1
               b == layout.pages[n].address
    <2>1. NextFile = n /\ n # 0 /\ n - 1 = read
      BY <1>1, <1>6 DEF NextFile
    <2>2. n \in DOMAIN layout.pages
      BY <1>1, <1>2, <1>6
    <2>3. ~AllRead'
      BY <1>1, <1>6 DEF AllRead
    <2>4. PagesRead' = n
      BY <1>1, <1>6 DEF PagesRead
    <2>5. stored' = stored \cup ToSet(PageOf(layout.pages[n]))
      BY <1>2, <2>1, <2>2 DEF InsertFile
    <2>6. \A k \in DOMAIN PageOf(layout.pages[n]) : PageOf(layout.pages[n])[k].address = b
      BY <1>2, <2>2, CutPage
    <2>7. PageOf(layout.pages[n]) \in Contents
      BY <1>2, <2>2, CutPage
    <2> HIDE DEF n, b
    <2>8. \A row \in ToSet(PageOf(layout.pages[n])) : row.address = b
      BY <2>6 DEF ToSet
    <2>9. \A a \in Accounts : {row \in stored' : row.address = a}
                              = ToSet(SubSeq(table[a], 1, Held(layout.pages, n, a)))
      <3> SUFFICES ASSUME NEW a \in Accounts
                   PROVE  {row \in stored' : row.address = a}
                          = ToSet(SubSeq(table[a], 1, Held(layout.pages, n, a)))
        OBVIOUS
      <3>1. SubSeq(table[a], 1, Held(layout.pages, n, a)) =
                IF a = b
                THEN SubSeq(table[a], 1, Held(layout.pages, n - 1, a)) \o PageOf(layout.pages[n])
                ELSE SubSeq(table[a], 1, Held(layout.pages, n - 1, a))
        BY <1>2, <2>2, HeldNext DEF b
      <3>2. {row \in stored : row.address = a} = ToSet(SubSeq(table[a], 1, Held(layout.pages, n - 1, a)))
        BY <1>3, <1>4, <2>1 DEF HeldRows
      <3>3. CASE a # b
        <4>1. {row \in stored' : row.address = a} = {row \in stored : row.address = a}
          BY <2>5, <2>8, <3>3
        <4> QED
          BY <3>1, <3>2, <3>3, <4>1
      <3>4. CASE a = b
        <4>1. {row \in stored' : row.address = a}
              = {row \in stored : row.address = a} \cup ToSet(PageOf(layout.pages[n]))
          BY <2>5, <2>8, <3>4
        <4>2. SubSeq(table[a], 1, Held(layout.pages, n - 1, a)) \in Contents
          <5>1. table[a] \in Seq(FileRows) /\ Len(table[a]) \in Nat
            BY <1>2, TableRows
          <5>2. n - 1 \in 0..Len(layout.pages)
            BY <1>1, <2>1
          <5>3. /\ Held(layout.pages, n - 1, a) \in Nat
                /\ Held(layout.pages, n - 1, a) <= Len(table[a])
            BY <1>2, <5>2, HeldBounds
          <5> QED
            BY <5>1, <5>3 DEF Contents
        <4> QED
          BY <2>7, <3>1, <3>2, <3>4, <4>1, <4>2, JoinedRows
      <3> QED
        BY <3>3, <3>4
    <2> QED
      BY <2>3, <2>4, <2>9
  <1> QED
    BY <1>5, <1>6

LEMMA CleanStep ==
    ASSUME TypeInv, StepInv, LimitInv, ChainInv, ManifestInv, CleanInv, [Next]_vars
    PROVE  CleanInv'
  <1> USE DEF checkpoint, directory, operation, history
  <1> SUFFICES ASSUME damages' = 0 PROVE CleanInv'
    BY DEF CleanInv
  <1>0. damages \in Nat
    BY DEF TypeInv
  <1>1. ~Damage
    BY <1>0 DEF Damage
  <1>2. damages = 0 /\ UNCHANGED <<table, size, bytes>>
    BY <1>1 DEF Next, Export, Verify, Import, WriteAccounts, HashAccounts, WritePage, HashPage,
       EndPages, WriteManifest, CheckFile, ReadFile, EndVerify, Reject, RejectManifest, Begin, StartInsert,
       InsertFile, Publish, RejectStored, Die, vars
  <1>3. AccountRows' = AccountRows /\ TableInv /\ Nothing' = Nothing /\ WithinLimits' = WithinLimits
    BY <1>2 DEF AccountRows, TypeInv, Nothing, WithinLimits, PagesNeeded, PageStarts
  <1>4. /\ refused => ~WithinLimits
        /\ (op = "export" /\ pc # "start") \/ manifest # None => accounts = AccountRows
        /\ op = "export" =>
              /\ pc \notin {"start", "hash accounts"} => layout.accounts = AccountRows
              /\ \A n \in DOMAIN layout.pages : Intact(layout.pages[n])
              /\ pc = "hash" => file[Len(file)] = NextPage
        /\ op # None => \A n \in DOMAIN layout.pages : file[n] = layout.pages[n].sum
        /\ manifest # None => \A n \in DOMAIN manifest.pages : file[n] = manifest.pages[n].sum
    BY <1>2 DEF CleanInv
  <1>5. \A item : Intact(item)' = Intact(item)
    BY <1>2 DEF Intact, PageOf, From, To, At
  <1>n. NoLayout.pages = <<>> /\ DOMAIN <<>> = {}
    BY DEF NoLayout
  <1>6. CASE WriteAccounts
    <2>1. /\ op = "export" /\ op' = op /\ pc' = "hash accounts" /\ accounts' = AccountRows
          /\ layout = NoLayout /\ UNCHANGED <<layout, file, manifest, refused>> /\ manifest = None
      BY <1>6 DEF WriteAccounts, StepInv
    <2>2. DOMAIN layout.pages = {}
      BY <1>n, <2>1
    <2> QED
      BY <1>3, <1>4, <2>1, <2>2 DEF CleanInv
  <1>7. CASE HashAccounts
    <2>1. /\ op = "export" /\ pc = "hash accounts" /\ op' = op /\ pc' = "pages"
          /\ layout = NoLayout /\ UNCHANGED <<accounts, file, manifest, refused>> /\ manifest = None
      BY <1>7 DEF HashAccounts, StepInv
    <2>2. layout'.accounts = accounts /\ layout'.pages = layout.pages
      BY <1>7, LayoutParts DEF HashAccounts
    <2>3. DOMAIN layout.pages = {}
      BY <1>n, <2>1
    <2> QED
      BY <1>3, <1>4, <2>1, <2>2, <2>3 DEF CleanInv
  <1>8. CASE WritePage
    <2>1. /\ op = "export" /\ pc = "pages" /\ op' = op /\ pc' = "hash"
          /\ UNCHANGED <<accounts, layout, manifest, refused, written>> /\ manifest = None
          /\ file' = Append(file, NextPage) /\ Unwritten # {}
      BY <1>8 DEF WritePage, StepInv
    <2>2. /\ DOMAIN layout.pages = 1..Len(file) /\ Len(file) \in Nat
      BY <2>1, NoneApart, LayoutParts, FileParts DEF StepInv
    <2>3. file'[Len(file')] = NextPage /\ \A n \in 1..Len(file) : file'[n] = file[n]
      BY <2>1, <2>2, NextPageShape DEF TypeInv
    <2>4. NextPage' = NextPage
      BY <1>2, <2>1 DEF NextPage, PageEnd, Current, Unwritten
    <2>5. op # None
      BY <2>1, NoneApart
    <2>6. \A n \in DOMAIN layout'.pages : Intact(layout.pages[n])' /\ file'[n] = layout'.pages[n].sum
      BY <1>4, <1>5, <2>1, <2>2, <2>3, <2>5
    <2> QED
      BY <1>3, <1>4, <2>1, <2>3, <2>4, <2>6 DEF CleanInv
  <1>9. CASE HashPage
    <2> DEFINE m == Len(layout.pages)
    <2>1. /\ op = "export" /\ pc = "hash" /\ op' = op /\ pc' = "pages"
          /\ UNCHANGED <<accounts, file, manifest, refused>> /\ manifest = None /\ op # None
      BY <1>9, NoneApart DEF HashPage, StepInv
    <2>2. /\ layout'.pages = Append(layout.pages, NewItem) /\ layout'.accounts = layout.accounts
          /\ NewItem \in Items /\ Len(file) = m + 1 /\ m \in Nat
          /\ DOMAIN layout.pages = 1..m /\ DOMAIN layout'.pages = 1..(m + 1)
          /\ layout'.pages[m + 1] = NewItem
          /\ \A n \in 1..m : layout'.pages[n] = layout.pages[n]
      BY <1>9, NewItemType, LayoutParts
    <2>3. PageOf(NewItem) = NextPage /\ NewItem.sum = file[m + 1]
      BY <1>9, <2>2, NewCut DEF NewItem
    <2>4. Intact(NewItem)
      BY <1>4, <2>1, <2>2, <2>3 DEF Intact
    <2> HIDE DEF m
    <2>5. \A n \in DOMAIN layout'.pages : Intact(layout'.pages[n]) /\ file[n] = layout'.pages[n].sum
      <3>1. \A n \in 1..(m + 1) : n \in 1..m \/ n = m + 1
        BY <2>2
      <3> QED
        BY <1>4, <2>1, <2>2, <2>3, <2>4, <3>1
    <2>6. \A n \in DOMAIN layout'.pages : Intact(layout.pages[n])' /\ file'[n] = layout'.pages[n].sum
      <3>1. \A n \in DOMAIN layout'.pages : Intact(layout.pages[n])' = Intact(layout'.pages[n])
        BY <1>2 DEF Intact, PageOf, From, To, At
      <3> QED
        BY <2>1, <2>5, <3>1
    <2> QED
      BY <1>3, <1>4, <2>1, <2>2, <2>6 DEF CleanInv
  <1>10. ASSUME UNCHANGED <<accounts, file, manifest, layout, op, refused>>,
                pc \notin {"start", "hash accounts", "hash"}, pc' \in ReadSteps,
                pc' \in {"check", "read"} => /\ read' > 0 => meta' = AccountRows
                                             /\ \A a \in Accounts : seen'[a] = HeldRows(a)',
                pc' \in {"icheck", "insert"} =>
                    /\ AllRead' => meta' = AccountRows
                    /\ \A a \in Accounts : {row \in stored' : row.address = a} = ToSet(HeldRows(a))'
         PROVE  CleanInv'
    <2>1. \A n \in DOMAIN layout'.pages : Intact(layout.pages[n])' = Intact(layout.pages[n])
      BY <1>2, <1>10 DEF Intact, PageOf, From, To, At
    <2>2. /\ refused' => ~WithinLimits'
          /\ (op' = "export" /\ pc' # "start") \/ manifest' # None => accounts' = AccountRows'
          /\ op' = "export" =>
                /\ pc' \notin {"start", "hash accounts"} => layout'.accounts = AccountRows'
                /\ \A n \in DOMAIN layout'.pages : Intact(layout.pages[n])'
                /\ pc' # "hash"
          /\ op' # None => \A n \in DOMAIN layout'.pages : file'[n] = layout'.pages[n].sum
          /\ manifest' # None => \A n \in DOMAIN manifest'.pages : file'[n] = manifest'.pages[n].sum
      BY <1>3, <1>4, <1>10, <2>1 DEF ReadSteps
    <2>3. /\ pc' \in {"check", "read"} => /\ read' > 0 => meta' = AccountRows'
                                          /\ \A a \in Accounts : seen'[a] = HeldRows(a)'
          /\ pc' \in {"icheck", "insert"} =>
                /\ AllRead' => meta' = AccountRows'
                /\ \A a \in Accounts : {row \in stored' : row.address = a} = ToSet(HeldRows(a))'
      BY <1>3, <1>10
    <2> QED
      BY <2>2, <2>3 DEF CleanInv
  <1>h. UNCHANGED layout => \A a \in Accounts, r \in Nat :
            Held(layout.pages, r, a)' = Held(layout.pages, r, a)
    BY <1>2 DEF Held, To, At
  <1>11. CASE EndPages
    <2>1. /\ UNCHANGED <<accounts, file, manifest, layout, op, refused, read, seen, meta, stored>>
          /\ pc = "pages" /\ pc' = "check"
      BY <1>11 DEF EndPages
    <2>2. read = 0 /\ seen = Nothing
      BY <2>1 DEF StepInv, WriteSteps
    <2>3. PagesRead' = 0
      BY <2>1, <2>2 DEF PagesRead
    <2>4. \A a \in Accounts : HeldRows(a)' = SubSeq(table[a], 1, Held(layout.pages, 0, a))
      BY <1>h, <1>2, <2>1, <2>3 DEF HeldRows
    <2>5. \A a \in Accounts : seen'[a] = HeldRows(a)'
      BY <1>3, <2>1, <2>2, <2>4, HeldNone DEF Nothing
    <2> QED
      BY <1>10, <2>1, <2>2, <2>5 DEF ReadSteps
  <1>12. CASE CheckFile
    <2>1. /\ UNCHANGED <<accounts, file, manifest, layout, op, refused, read, seen, meta, stored>>
          /\ pc \in {"check", "icheck"} /\ pc' = IF pc = "check" THEN "read" ELSE "insert"
      BY <1>12 DEF CheckFile
    <2>2. PagesRead' = PagesRead /\ AllRead' = AllRead
      BY <2>1 DEF PagesRead, AllRead
    <2>3. \A a \in Accounts : HeldRows(a)' = HeldRows(a)
      BY <1>2, <2>1, <2>2 DEF HeldRows, Held, To, At
    <2>4. /\ pc = "check" => /\ read > 0 => meta = AccountRows
                             /\ \A a \in Accounts : seen[a] = HeldRows(a)
          /\ pc = "icheck" =>
                /\ AllRead => meta = AccountRows
                /\ \A a \in Accounts : {row \in stored : row.address = a} = ToSet(HeldRows(a))
      BY <1>2, <2>1 DEF CleanInv
    <2>5. \A a \in Accounts : ToSet(HeldRows(a))' = ToSet(HeldRows(a))
      BY <2>3 DEF ToSet
    <2> QED
      BY <1>10, <2>1, <2>2, <2>3, <2>4, <2>5 DEF ReadSteps
  <1>13. CASE ReadFile
    <2>1. /\ UNCHANGED <<accounts, file, manifest, layout, op, refused, stored>>
          /\ pc = "read" /\ pc' = "check" /\ read' = read + 1 /\ read \in Nat
      BY <1>13 DEF ReadFile, TypeInv
    <2>2. /\ read' > 0 => meta' = AccountRows
          /\ \A a \in Accounts : seen'[a] = SubSeq(table[a], 1, Held(layout.pages, read, a))
      BY <1>2, <1>13, CleanReadPage
    <2>3. PagesRead' = read
      BY <2>1 DEF PagesRead
    <2>4. \A a \in Accounts : HeldRows(a)' = SubSeq(table[a], 1, Held(layout.pages, read, a))
      BY <1>2, <2>1, <2>3 DEF HeldRows, Held, To, At
    <2> QED
      BY <1>10, <2>1, <2>2, <2>4 DEF ReadSteps
  <1>14. CASE StartInsert
    <2>1. /\ UNCHANGED <<accounts, file, manifest, layout, op, refused, stored>>
          /\ pc = "check" /\ pc' = "icheck" /\ read' = 0 /\ stored = {}
      BY <1>14 DEF StartInsert, Verified, StepInv
    <2>2. Len(layout.pages) \in Nat
      BY LayoutParts
    <2>3. PagesRead' = 0 /\ ~AllRead'
      BY <2>1, <2>2 DEF PagesRead, AllRead
    <2>4. \A a \in Accounts : HeldRows(a)' = SubSeq(table[a], 1, Held(layout.pages, 0, a))
      BY <1>2, <2>1, <2>3 DEF HeldRows, Held, To, At
    <2>5. \A a \in Accounts : HeldRows(a)' = <<>>
      BY <1>3, <2>4, HeldNone
    <2>6. \A a \in Accounts : ToSet(HeldRows(a))' = {}
      BY <2>5 DEF ToSet
    <2> QED
      BY <1>10, <2>1, <2>3, <2>6 DEF ReadSteps
  <1>15. CASE InsertFile
    <2>1. /\ UNCHANGED <<accounts, file, manifest, layout, op, refused, seen>>
          /\ pc = "insert" /\ pc' = "icheck"
      BY <1>15 DEF InsertFile
    <2>2. /\ AllRead' => meta' = AccountRows
          /\ \A a \in Accounts : {row \in stored' : row.address = a}
                                 = ToSet(SubSeq(table[a], 1, Held(layout.pages, PagesRead', a)))
      BY <1>2, <1>15, CleanInsertPage
    <2>3. \A a \in Accounts : HeldRows(a)' = SubSeq(table[a], 1, Held(layout.pages, PagesRead', a))
      BY <1>2, <2>1 DEF HeldRows, Held, To, At
    <2>4. \A a \in Accounts :
              ToSet(HeldRows(a))' = ToSet(SubSeq(table[a], 1, Held(layout.pages, PagesRead', a)))
      BY <2>3 DEF ToSet
    <2> QED
      BY <1>10, <2>1, <2>2, <2>4 DEF ReadSteps
  <1>16. CASE \E o \in {"verify", "import"} : Begin(o)
    <2>1. /\ UNCHANGED <<accounts, file, manifest, refused, read, seen>> /\ manifest # None
          /\ op = None /\ layout' = manifest /\ pc' = "check" /\ op' # "export"
      BY <1>16 DEF Begin
    <2>2. pc = "end" /\ read = 0 /\ seen = Nothing
      BY <2>1 DEF StepInv
    <2>3. PagesRead' = 0
      BY <2>1, <2>2 DEF PagesRead
    <2>4. \A a \in Accounts : HeldRows(a)' = SubSeq(table[a], 1, Held(manifest.pages, 0, a))
      BY <1>2, <2>1, <2>3 DEF HeldRows, Held, To, At
    <2>5. \A a \in Accounts : seen'[a] = HeldRows(a)'
      BY <1>3, <2>1, <2>2, <2>4, HeldNone DEF Nothing
    <2>6. \A n \in DOMAIN layout'.pages : file'[n] = layout'.pages[n].sum
      BY <1>4, <2>1
    <2>7. \A n \in DOMAIN manifest'.pages : file'[n] = manifest'.pages[n].sum
      BY <1>4, <2>1
    <2> QED
      BY <1>3, <1>4, <2>1, <2>2, <2>5, <2>6, <2>7 DEF CleanInv
  <1>17. CASE WriteManifest
    <2>1. /\ Stop /\ manifest' = layout /\ UNCHANGED <<accounts, file, refused>>
          /\ op = "export" /\ op # None /\ pc = "check"
      BY <1>17, NoneApart DEF WriteManifest, Verified
    <2> QED
      BY <1>2, <1>3, <1>4, <2>1, CleanStopped
  <1>18. CASE EndVerify \/ Publish \/ Die
    <2>1. Stop /\ UNCHANGED <<accounts, file, refused, manifest>>
      BY <1>18 DEF EndVerify, Publish, Die
    <2> QED
      BY <1>2, <1>3, <1>4, <2>1, CleanStopped
  <1>19. CASE Reject
    <2>1. Stop /\ UNCHANGED <<accounts, file, manifest>> /\ Failing
      BY <1>19 DEF Reject
    <2>2. ~WithinLimits'
      BY <1>2, <1>3, <2>1, NeverFailing
    <2> QED
      BY <1>2, <1>4, <2>1, <2>2, CleanStopped
  <1>20. CASE RejectStored
    BY <1>2, <1>20, NeverStoredWrong DEF RejectStored
  <1>21. CASE RejectManifest \/ UNCHANGED vars
    <2>1. UNCHANGED <<accounts, file, manifest, layout, written, op, pc, read, seen, meta, stored>>
      BY <1>21 DEF RejectManifest, vars
    <2>r. refused' => ~WithinLimits
      BY <1>4, <1>21, ManifestFits DEF vars
    <2>2. NextPage' = NextPage
      BY <1>2, <2>1 DEF NextPage, PageEnd, Current, Unwritten
    <2>3. PagesRead' = PagesRead /\ AllRead' = AllRead
      BY <2>1 DEF PagesRead, AllRead
    <2>4. \A a \in Accounts : HeldRows(a)' = HeldRows(a)
      BY <1>2, <2>1, <2>3 DEF HeldRows, Held, To, At
    <2>5. \A a \in Accounts : ToSet(HeldRows(a))' = ToSet(HeldRows(a))
      BY <2>4 DEF ToSet
    <2>6. \A n \in DOMAIN layout'.pages : Intact(layout.pages[n])' = Intact(layout.pages[n])
      BY <1>2, <2>1 DEF Intact, PageOf, From, To, At
    <2> QED
      BY <1>2, <1>3, <2>1, <2>r, <2>2, <2>3, <2>4, <2>5, <2>6 DEF CleanInv
  <1> QED
    BY <1>1, <1>6, <1>7, <1>8, <1>9, <1>11, <1>12, <1>13, <1>14, <1>15, <1>16, <1>17, <1>18, <1>19,
       <1>20, <1>21 DEF Next, Export, Verify, Import

----------------------------------------------------------------------------
(* Theorems                                                                 *)

\* The inductive invariant of export, verification, import and damage of a
\* directory: every conjunct of ExportInv holds in every reachable state.
THEOREM DirectoryInvariant == Spec => []ExportInv
  <1>1. Init => ExportInv
    <2> SUFFICES ASSUME Init PROVE ExportInv
      OBVIOUS
    <2>1. /\ TypeInv /\ StepInv /\ LimitInv /\ ChainInv /\ DecayInv /\ ReadInv /\ ManifestInv
          /\ CleanInv
      BY TypeInit, StepInit, LimitInit, ChainInit, DecayInit, ReadInit, ManifestInit, CleanInit
    <2>2. ImportExact
      BY DEF Init, ImportExact
    <2> QED
      BY <2>1, <2>2 DEF ExportInv
  <1>2. ExportInv /\ [Next]_vars => ExportInv'
    <2> SUFFICES ASSUME ExportInv, [Next]_vars PROVE ExportInv'
      OBVIOUS
    <2>1. /\ TypeInv /\ StepInv /\ LimitInv /\ ChainInv /\ DecayInv /\ ReadInv /\ ManifestInv
          /\ CleanInv /\ ImportExact
      BY DEF ExportInv
    <2>2. TypeInv' /\ StepInv' /\ LimitInv' /\ ChainInv' /\ DecayInv' /\ ReadInv'
      BY <2>1, TypeStep, StepStep, LimitStep, ChainStep, DecayStep, ReadStep
    <2>3. ManifestInv' /\ CleanInv' /\ ImportExact'
      BY <2>1, ManifestStep, CleanStep, ImportStep
    <2> QED
      BY <2>2, <2>3 DEF ExportInv
  <1> QED
    BY <1>1, <1>2, PTL DEF Spec

\* manifest.json, which export_checkpoint writes last, is only ever there with
\* the checkpoint's rows behind its checksums, each once and in order, however
\* files were damaged while the directory was written.
THEOREM ManifestsAreComplete == Spec => []ManifestComplete
  <1>1. ExportInv => ManifestComplete
    BY CompleteManifest DEF ExportInv
  <1> QED
    BY <1>1, DirectoryInvariant, PTL

\* import_checkpoint publishes exactly the checkpoint's rows, although every
\* file may change between its checksum and its second opening.
THEOREM ImportsAreExact == Spec => []ImportExact
  <1>1. ExportInv => ImportExact
    BY DEF ExportInv
  <1> QED
    BY <1>1, DirectoryInvariant, PTL

\* A directory that nothing damaged passes every check of export_checkpoint,
\* verify_export and import_checkpoint, for any page size and any accounts whose
\* pages and metadata are within the limits of write_page and read_json: the
\* loop of the export writes exactly the pages that the rows fill.
THEOREM UndamagedIsAccepted == Spec => []Accepts
  <1>1. ExportInv => Accepts
    BY DEF ExportInv, CleanInv, TypeInv, Accepts
  <1> QED
    BY <1>1, DirectoryInvariant, PTL

=============================================================================
