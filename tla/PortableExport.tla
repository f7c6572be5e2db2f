--------------------------- MODULE PortableExport ---------------------------
(***************************************************************************)
(* A portable checkpoint directory: export.rs, which writes and verifies   *)
(* it, and importer.rs, which verifies it again and restores it.           *)
(*                                                                         *)
(* Files are checked by checksum and then opened a second time to be read. *)
(* Between any two steps the medium may damage or lose a file, and the     *)
(* process may die.  A checksum stands for the content, a storage root for *)
(* the account's slots: equal hashes mean equal data.                      *)
(***************************************************************************)
EXTENDS Integers, SequencesExt

CONSTANTS
    Accounts, Slots,    \* addresses and slots, as numbers in their order
    Values,             \* nonzero storage values
    Bad,                \* a value that damage leaves in a row
    PageSizes,          \* page_size of the export (1 to 10000 in the code)
    Bytes,              \* sizes of accounts.json, and of the checkpoint in manifest.json,
                        \* in the size of a page's entry there
    MaxPages,           \* page files of an export (1000000 in the code)
    MaxJson,            \* MAX_JSON_BYTES, in the same unit
    MaxDamages,         \* bound: files the medium damages
    None

\* Rows of checkpoint_storage, and rows that a damaged file may hold.
Rows == [address : Accounts, slot : Slots, value : Values]
FileRows == [address : Accounts, slot : Slots, value : Values \cup {Bad}]

ASSUME ExportAssumption ==
    /\ Accounts \subseteq Nat /\ Slots \subseteq Nat /\ PageSizes \subseteq Nat \ {0}
    /\ IsFiniteSet(Accounts) /\ IsFiniteSet(Slots)
    /\ Bytes \subseteq [accounts : Nat, checkpoint : Nat]
    /\ Bad \notin Values /\ {MaxPages, MaxJson, MaxDamages} \subseteq Nat
    /\ None \notin Seq(FileRows) \cup [Accounts -> Nat] \cup {"export", "verify", "import"}

VARIABLES
    table,      \* rows of the checkpoint by account, ORDER BY slot; its proofs commit to them
    size,       \* page_size
    bytes,      \* how large the checkpoint's metadata is
    accounts,   \* accounts.json: each account's number of slots
    file,       \* file[n] is storage-(n-1).jsonl.gz
    manifest,   \* manifest.json
    op,         \* "export", "verify", "import", or None
    pc,         \* next step of the operation
    layout,     \* the checksum of accounts.json and the pages it knows
    written,    \* rows that an export has in pages, by account
    read,       \* how many files the operation has read
    seen, meta, \* storage rows by account, and account rows it read
    stored,     \* rows of the generation an import inserts
    published,  \* generations that have a manifest row in the database
    damages,    \* history: files damaged or lost
    refused     \* history: a verification was refused

checkpoint == <<table, size, bytes>>
directory == <<accounts, file, manifest>>
operation == <<op, pc, layout, written, read, seen, meta, stored>>
history == <<damages, refused>>
vars == <<checkpoint, directory, operation, published, history>>

NoLayout == [accounts |-> None, pages |-> <<>>]
Nothing == [a \in Accounts |-> <<>>]

\* Slots one after the other, none twice.
Ascending(rows) == \A n \in DOMAIN rows : n > 1 => rows[n].slot > rows[n - 1].slot

\* SELECT ... WHERE address = a ORDER BY slot: any rows of a in the order of slots.
Ordered(a) ==
    UNION {{rows \in [1..n -> {row \in Rows : row.address = a}] : Ascending(rows)} :
           n \in 0..Cardinality(Slots)}
AccountRows == [a \in Accounts |-> Len(table[a])]
CheckpointRows == UNION {ToSet(table[a]) : a \in Accounts}

Init ==
    /\ table \in [Accounts -> UNION {Ordered(a) : a \in Accounts}]
    /\ \A a \in Accounts : table[a] \in Ordered(a)
    /\ size \in PageSizes /\ bytes \in Bytes
    /\ accounts = None /\ file = <<>> /\ manifest = None
    /\ op = "export" /\ pc = "start" /\ layout = NoLayout
    /\ written = [a \in Accounts |-> 0] /\ read = 0 /\ seen = Nothing /\ meta = None
    /\ stored = {} /\ published = {} /\ damages = 0 /\ refused = FALSE

\* An operation ends; the next import fills a generation of its own.
Stop ==
    /\ op' = None /\ pc' = "end" /\ layout' = NoLayout /\ read' = 0 /\ seen' = Nothing
    /\ written' = [a \in Accounts |-> 0] /\ meta' = None /\ stored' = {}

----------------------------------------------------------------------------
(* export_checkpoint                                                        *)

\* A directory that exists already is refused, so it is written only once.
WriteAccounts ==
    /\ op = "export" /\ pc = "start"
    /\ accounts' = AccountRows
    /\ pc' = "hash accounts"
    /\ UNCHANGED <<checkpoint, file, manifest, op, layout, written, read, seen, meta, stored,
                   published, history>>

HashAccounts ==
    /\ op = "export" /\ pc = "hash accounts" /\ accounts # None
    /\ layout' = [layout EXCEPT !.accounts = accounts]
    /\ pc' = "pages"
    /\ UNCHANGED <<checkpoint, directory, op, written, read, seen, meta, stored, published,
                   history>>

\* Mutant of Unwritten: what is left below a full page is forgotten.
UnwrittenFull == {a \in Accounts : Len(table[a]) - written[a] >= size}

Unwritten == {a \in Accounts : written[a] < Len(table[a])}
Current == CHOOSE a \in Unwritten : \A b \in Unwritten : a <= b

\* A page is full, or holds what is left of its account.
PageEnd == IF written[Current] + size < Len(table[Current]) THEN written[Current] + size
           ELSE Len(table[Current])
NextPage == SubSeq(table[Current], written[Current] + 1, PageEnd)

WritePage ==
    /\ op = "export" /\ pc = "pages" /\ Unwritten # {} /\ Len(file) < MaxPages
    /\ file' = Append(file, NextPage)
    /\ pc' = "hash"
    /\ UNCHANGED <<checkpoint, accounts, manifest, op, layout, written, read, seen, meta, stored,
                   published, history>>

\* The checksum is taken from the file, after it was written.
HashPage ==
    /\ op = "export" /\ pc = "hash"
    /\ file[Len(file)] # None
    /\ layout' = [layout EXCEPT !.pages =
                    Append(@, [file |-> Len(file), address |-> Current, rows |-> Len(NextPage),
                               sum |-> file[Len(file)], first |-> Head(NextPage).slot,
                               last |-> Last(NextPage).slot])]
    /\ written' = [written EXCEPT ![Current] = PageEnd]
    /\ pc' = "pages"
    /\ UNCHANGED <<checkpoint, directory, op, read, seen, meta, stored, published, history>>

EndPages ==
    /\ op = "export" /\ pc = "pages" /\ Unwritten = {}
    /\ pc' = "check"
    /\ UNCHANGED <<checkpoint, directory, op, layout, written, read, seen, meta, stored, published,
                   history>>

----------------------------------------------------------------------------
(* verify_layout, page_rows                                                 *)

\* Page files in sequence, grouped by account in order.
LayoutValid ==
    \A n \in DOMAIN layout.pages :
        /\ layout.pages[n].file = n /\ layout.pages[n].address \in Accounts
        /\ n > 1 => layout.pages[n].address >= layout.pages[n - 1].address

\* PageRows::read_next over a whole page: its account, ascending slots, the
\* declared number of rows and boundaries.
PageValid(item, rows) ==
    /\ rows # None /\ rows # <<>>
    /\ \A n \in DOMAIN rows : rows[n].address = item.address
    /\ Ascending(rows)
    /\ Len(rows) = item.rows
    /\ Head(rows).slot = item.first /\ Last(rows).slot = item.last

\* A verification reads accounts.json and then the pages, an import after it
\* the pages and then accounts.json.  Number 0 stands for accounts.json.
AllRead == read = Len(layout.pages) + 1
NextFile == IF pc \in {"check", "read"} THEN read
            ELSE IF read = Len(layout.pages) THEN 0 ELSE read + 1

Content(n) == IF n = 0 THEN accounts ELSE file[n]
ChecksumOf(n) == IF n = 0 THEN layout.accounts ELSE layout.pages[n].sum
Readable(n) == IF n = 0 THEN accounts # None /\ bytes.accounts <= MaxJson
               ELSE PageValid(layout.pages[n], file[n])

\* check_file of the next file; the layout as a whole is checked first.
CheckFile ==
    /\ pc \in {"check", "icheck"} /\ ~AllRead
    /\ LayoutValid
    /\ Content(NextFile) = ChecksumOf(NextFile)
    /\ pc' = IF pc = "check" THEN "read" ELSE "insert"
    /\ UNCHANGED <<checkpoint, directory, op, layout, written, read, seen, meta, stored, published,
                   history>>

\* The file is opened again and read.
ReadFile ==
    /\ pc = "read" /\ Readable(NextFile)
    /\ IF NextFile = 0 THEN meta' = accounts /\ UNCHANGED seen
       ELSE /\ seen' = [seen EXCEPT ![layout.pages[NextFile].address] = @ \o file[NextFile]]
            /\ UNCHANGED meta
    /\ read' = read + 1 /\ pc' = "check"
    /\ UNCHANGED <<checkpoint, directory, op, layout, written, stored, published, history>>

\* What a storage root commits to.
StorageOf(rows) == {<<row.slot, row.value>> : row \in rows}
\* verify_account: what the account's proof commits to.
Proven(a) == StorageOf(ToSet(table[a]))

\* Mutant of AccountsVerified: counts are compared instead of roots.
AccountsVerifiedCount == meta # None /\ \A a \in Accounts : Len(seen[a]) = meta[a]

\* Every account: ascending slots across its pages, the proven storage root,
\* and the declared number of slots.
AccountsVerified ==
    /\ meta # None
    /\ \A a \in Accounts : /\ Ascending(seen[a])
                           /\ StorageOf(ToSet(seen[a])) = Proven(a)
                           /\ Len(seen[a]) = meta[a]

Verified == pc = "check" /\ AllRead /\ LayoutValid /\ AccountsVerified

\* The manifest appears only after the whole directory was verified.
WriteManifest ==
    /\ op = "export" /\ Verified
    /\ manifest' = layout
    /\ Stop
    /\ UNCHANGED <<checkpoint, accounts, file, published, history>>

EndVerify ==
    /\ op = "verify" /\ Verified
    /\ Stop
    /\ UNCHANGED <<checkpoint, directory, published, history>>

\* A check fails; the operation returns an error and changes nothing more.
Failing == \/ pc = "pages" /\ Unwritten # {} /\ Len(file) >= MaxPages
           \/ pc = "hash" /\ file[Len(file)] = None
           \/ pc = "hash accounts" /\ accounts = None
           \/ /\ pc \in {"check", "icheck"} /\ ~AllRead
              /\ ~(LayoutValid /\ Content(NextFile) = ChecksumOf(NextFile))
           \/ pc \in {"read", "insert"} /\ ~Readable(NextFile)
           \/ pc = "check" /\ AllRead /\ ~Verified
Reject ==
    /\ Failing
    /\ refused' = TRUE
    /\ Stop
    /\ UNCHANGED <<checkpoint, directory, published, damages>>

----------------------------------------------------------------------------
(* verify_export, import_checkpoint                                         *)

\* read_json of the manifest, which an export writes whatever its size.
ManifestReadable == bytes.checkpoint + Len(manifest.pages) <= MaxJson

RejectManifest ==
    /\ op = None /\ manifest # None /\ ~ManifestReadable
    /\ refused' = TRUE
    /\ UNCHANGED <<checkpoint, directory, operation, published, damages>>

Begin(o) ==
    /\ op = None /\ manifest # None /\ ManifestReadable
    /\ op' = o /\ pc' = "check" /\ layout' = manifest
    /\ UNCHANGED <<checkpoint, directory, written, read, seen, meta, stored, published, history>>

\* The directory is good: a new generation is filled from it.
StartInsert ==
    /\ op = "import" /\ Verified
    /\ pc' = "icheck" /\ read' = 0 /\ seen' = Nothing /\ meta' = None
    /\ UNCHANGED <<checkpoint, directory, op, layout, written, stored, published, history>>

InsertFile ==
    /\ pc = "insert" /\ Readable(NextFile)
    /\ IF NextFile = 0 THEN meta' = accounts /\ UNCHANGED stored
       ELSE stored' = stored \cup ToSet(file[NextFile]) /\ UNCHANGED meta
    /\ read' = read + 1 /\ pc' = "icheck"
    /\ UNCHANGED <<checkpoint, directory, op, layout, written, seen, published, history>>

\* Mutant of StoredVerified: the files were verified, the rows are not.
StoredVerifiedCount == meta # None /\ Cardinality(stored) = Cardinality(CheckpointRows)

\* verify_stored reads the generation back from the database.
StoredVerified ==
    /\ meta # None
    /\ \A a \in Accounts :
        LET rows == {row \in stored : row.address = a}
        IN  StorageOf(rows) = Proven(a) /\ meta[a] = Cardinality(rows)

Publish ==
    /\ op = "import" /\ pc = "icheck" /\ AllRead
    /\ StoredVerified
    /\ published' = published \cup {[rows |-> stored, accounts |-> meta]}
    /\ Stop
    /\ UNCHANGED <<checkpoint, directory, history>>

RejectStored ==
    /\ op = "import" /\ pc = "icheck" /\ AllRead /\ ~StoredVerified
    /\ refused' = TRUE
    /\ Stop
    /\ UNCHANGED <<checkpoint, directory, published, damages>>

\* The process is killed, or runs out of space or budget.  Rows that it
\* inserted stay in the database without a manifest row.
Die ==
    /\ op # None
    /\ Stop
    /\ UNCHANGED <<checkpoint, directory, published, history>>

----------------------------------------------------------------------------
(* The medium                                                               *)

\* Another number of slots; a value altered, or the last row cut off.
DamagedAccounts == {[accounts EXCEPT ![a] = @ + 1] : a \in Accounts}
Damaged(rows) == {[rows EXCEPT ![k].value = Bad] : k \in DOMAIN rows}
                 \cup (IF rows = <<>> THEN {} ELSE {Front(rows)})

DamageAccounts ==
    /\ accounts # None
    /\ accounts' \in DamagedAccounts \cup {None}
    /\ UNCHANGED file

DamagePage ==
    /\ \E n \in DOMAIN file :
        /\ file[n] # None
        /\ \E bad \in Damaged(file[n]) \cup {None} : file' = [file EXCEPT ![n] = bad]
    /\ UNCHANGED accounts

Damage ==
    /\ damages < MaxDamages
    /\ DamageAccounts \/ DamagePage
    /\ damages' = damages + 1
    /\ UNCHANGED <<checkpoint, manifest, operation, published, refused>>

Export == WriteAccounts \/ HashAccounts \/ WritePage \/ HashPage \/ EndPages \/ WriteManifest
Verify == \/ CheckFile \/ ReadFile \/ EndVerify \/ Reject \/ RejectManifest
          \/ \E o \in {"verify", "import"} : Begin(o)
Import == StartInsert \/ InsertFile \/ Publish \/ RejectStored

Next == Export \/ Verify \/ Import \/ Die \/ Damage

Spec == Init /\ [][Next]_vars

----------------------------------------------------------------------------
(* Properties                                                               *)

Precedes(r, s) == r.address < s.address \/ (r.address = s.address /\ r.slot < s.slot)

\* manifest.json exists only for a directory whose checksummed files are the
\* checkpoint's rows, each once and in order.
ManifestComplete ==
    manifest # None =>
        LET pages == manifest.pages
        IN  /\ manifest.accounts = AccountRows
            /\ UNION {ToSet(pages[n].sum) : n \in DOMAIN pages} = CheckpointRows
            /\ \A n \in DOMAIN pages :
                /\ pages[n].sum # <<>>
                /\ \A k \in 2..Len(pages[n].sum) : Precedes(pages[n].sum[k - 1], pages[n].sum[k])
                /\ n > 1 => Precedes(Last(pages[n - 1].sum), Head(pages[n].sum))

\* A generation that an import publishes holds the checkpoint's rows, even if a
\* file changed between its checksum and its second opening.
ImportExact ==
    \A g \in published : g.rows = CheckpointRows /\ g.accounts = AccountRows

\* An account has a page <<a, n>> if it has rows behind n full pages.
PageStarts == {p \in Accounts \X (0..Cardinality(Slots)) : p[2] * size < Len(table[p[1]])}
PagesNeeded == Cardinality(PageStarts)

\* What fits: the page files, accounts.json and manifest.json.
WithinLimits ==
    /\ PagesNeeded <= MaxPages
    /\ bytes.accounts <= MaxJson /\ bytes.checkpoint + PagesNeeded <= MaxJson

\* A directory that nothing damaged is refused, by the export that wrote it, a
\* verification or an import, only if the checkpoint in this page size exceeds
\* the number of page files or the size of metadata that the code allows.
Accepts == refused /\ damages = 0 => ~WithinLimits
============================================================================
