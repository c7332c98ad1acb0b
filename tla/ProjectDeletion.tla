-------------------------- MODULE ProjectDeletion --------------------------
(***************************************************************************)
(* Deletion of a whole book (services/project_deletion*.py) with what it   *)
(* meets: imports and their command keys, exports by the local exporter, the *)
(* mirror folder, restored backups, and content shared between books.      *)
(*                                                                         *)
(* The rows go in one transaction that also writes a receipt with the list *)
(* of files; the files go afterwards, one at a time, in a transaction of   *)
(* its own that may stop anywhere and be asked for again.  Both hold an    *)
(* exclusive lock on every table, so only a worker that writes a file      *)
(* outside any transaction interleaves with them.                          *)
(***************************************************************************)
EXTENDS Naturals, FiniteSets

CONSTANTS
    Books,          \* books; the import preview of a book is named by it
    Blobs,          \* contents of provider-outputs, each stored under its hash
    Nested,         \* pairs <<x, y>>: the text of blob x contains the hash of y
    OldBooks,       \* the books, with blobs, that older versions left behind
    DeletionKeys,   \* idempotency keys an author sends with a deletion
    MaxActs,        \* search bound: edits, syncs, exports, calls and backups
    MaxStops,       \* search bound: crashes and failing file operations
    NoBook

ASSUME DeletionAssumption ==
    /\ Nested \subseteq Blobs \X Blobs
    /\ OldBooks \subseteq Books
    /\ NoBook \notin Books
    /\ MaxActs \in Nat /\ MaxStops \in Nat

VARIABLES
    rows,           \* rows of each book and of its tasks, calls and preview
    commandKey,     \* the key row of each book's import: none, saved, retired
    disk,           \* what each path holds
    archive,        \* hashes in the backup the author downloaded last, or NoBook
    seen,           \* what the author saw and confirmed under each key
    receipts,       \* project_deletions
    cleaner,        \* the transaction that removes files
    exporter,       \* hashes in the export a worker is about to write, or NoBook
    late,           \* history: files written by a worker that lost its task
    created,        \* history: how often an import has made each book
    acts, stops     \* how much of the two bounds is used

deletionVars == <<rows, commandKey, disk, archive, seen, receipts, cleaner,
                  exporter, late, created, acts, stops>>

-----------------------------------------------------------------------------
(* Paths and contents.  A file holds a version of the text and hashes.     *)

Scope(b) == {<<"staged", b>>, <<"mirror", b>>, <<"manifest", b>>}
            \cup {<<"export", b, v>> : v \in {1, 2}}
BlobPath(x) == <<"blob", x>>
Paths == (UNION {Scope(b) : b \in Books}) \cup {BlobPath(x) : x \in Blobs}

NoFile   == [text |-> 0, hashes |-> {"none"}]
File(t, h) == [text |-> t + 1, hashes |-> h]
OnDisk   == {p \in Paths : disk[p] # NoFile}

Absent   == [book |-> FALSE, text |-> 0, cites |-> {}, import |-> "none",
             task |-> "none", call |-> "none"]
NoReceipt == [status |-> "none"]
Idle      == [book |-> NoBook, todo |-> {}]

DeletionTypeOK ==
    /\ rows \in [Books -> [book : BOOLEAN, text : 0..MaxActs, cites : SUBSET Blobs,
                           import : {"none", "previewed", "completed"},
                           task : {"none", "queued", "running", "done"},
                           call : {"none", "executing", "unknown", "closed"}]]
    /\ commandKey \in [Books -> {"none", "saved", "retired"}]
    /\ archive = NoBook \/ archive \subseteq Blobs
    /\ cleaner.book \in Books \cup {NoBook} /\ cleaner.todo \subseteq Paths
    /\ \A b \in Books : exporter[b] = NoBook \/ exporter[b] \subseteq Blobs
    /\ late \subseteq Paths
    /\ created \in [Books -> Nat] /\ acts \in 0..MaxActs /\ stops \in 0..MaxStops

InitDeletion ==
    /\ rows = [b \in Books |-> IF b \in OldBooks
                               THEN [Absent EXCEPT !.book = TRUE, !.cites = Blobs]
                               ELSE Absent]
    /\ commandKey = [b \in Books |-> IF b \in OldBooks THEN "saved" ELSE "none"]
    /\ disk = [p \in Paths |-> IF p[1] = "blob"
                 THEN File(0, {y \in Blobs : <<p[2], y>> \in Nested}) ELSE NoFile]
    /\ archive = NoBook
    /\ seen = [k \in DeletionKeys |-> NoReceipt]
    /\ receipts = [b \in Books |-> NoReceipt]
    /\ cleaner = Idle
    /\ exporter = [b \in Books |-> NoBook] /\ late = {}
    /\ created = [b \in Books |-> IF b \in OldBooks THEN 1 ELSE 0] /\ acts = 0 /\ stops = 0

-----------------------------------------------------------------------------
(* What the books do meanwhile.  A transaction that touches any table      *)
(* waits while the cleaner holds them all.                                 *)

Unlocked == cleaner.book = NoBook

Row(b, field, value) == rows' = [rows EXCEPT ![b][field] = value]

Act == acts < MaxActs /\ acts' = acts + 1

StageImport(b) ==
    /\ Unlocked /\ rows[b] = Absent /\ receipts[b] = NoReceipt /\ commandKey[b] = "none"
    /\ disk[<<"staged", b>>] = NoFile
    /\ Row(b, "import", "previewed")
    /\ disk' = [disk EXCEPT ![<<"staged", b>>] = File(0, {})]
    /\ UNCHANGED <<commandKey, archive, seen, receipts, cleaner, exporter, late, created, acts, stops>>

(* The key lock makes two copies of one command take turns; the second     *)
(* finds the saved response, and after a deletion the retired key.         *)
MayRunUnlessSaved(b) == commandKey[b] # "saved"
MayRun(b)            == commandKey[b] = "none"

(* A book is named by the command that makes it: only a repeat of that     *)
(* command comes back to the name, and would make another row of project.  *)
CreateBook(b) ==
    /\ Unlocked /\ MayRun(b) /\ rows[b] = Absent
    /\ receipts[b] # NoReceipt => commandKey[b] # "none"
    /\ rows' = [rows EXCEPT ![b].book = TRUE]
    /\ commandKey' = [commandKey EXCEPT ![b] = "saved"]
    /\ created' = [created EXCEPT ![b] = @ + 1]
    /\ UNCHANGED <<disk, archive, seen, receipts, cleaner, exporter, late, acts, stops>>

CommitImport(b) ==
    /\ Unlocked /\ MayRun(b)
    /\ rows[b].import = "previewed" /\ disk[<<"staged", b>>] # NoFile
    /\ rows' = [rows EXCEPT ![b].book = TRUE, ![b].import = "completed"]
    /\ commandKey' = [commandKey EXCEPT ![b] = "saved"]
    /\ created' = [created EXCEPT ![b] = @ + 1]
    /\ UNCHANGED <<disk, archive, seen, receipts, cleaner, exporter, late, acts, stops>>

Backup(b) ==
    /\ Act /\ Unlocked /\ rows[b].book /\ archive = NoBook
    /\ archive' = rows[b].cites
    /\ UNCHANGED <<rows, commandKey, disk, seen, receipts, cleaner, exporter, late, created, stops>>

(* Restored receipts keep the hashes they name; a restore has no key.      *)
RestoreArchive(b) ==
    /\ Unlocked /\ archive # NoBook
    /\ rows[b] = Absent /\ receipts[b] = NoReceipt /\ commandKey[b] = "none"
    /\ rows' = [rows EXCEPT ![b].book = TRUE, ![b].cites = archive]
    /\ created' = [created EXCEPT ![b] = 1]
    /\ UNCHANGED <<commandKey, disk, archive, seen, receipts, cleaner, exporter, late, acts, stops>>

EditBook(b) ==
    /\ Act /\ Unlocked /\ rows[b].book /\ rows[b].text < MaxActs
    /\ Row(b, "text", rows[b].text + 1)
    /\ UNCHANGED <<commandKey, disk, archive, seen, receipts, cleaner, exporter, late, created, stops>>

CallSteps == {<<"none", "executing">>, <<"executing", "closed">>,
              <<"executing", "unknown">>, <<"unknown", "closed">>}

MoveCall(b) ==
    /\ Unlocked /\ rows[b].book
    /\ \E s \in CallSteps : rows[b].call = s[1] /\ Row(b, "call", s[2])
    /\ IF rows[b].call = "none" THEN Act ELSE UNCHANGED acts
    /\ UNCHANGED <<commandKey, disk, archive, seen, receipts, cleaner, exporter, late, created, stops>>

QueueExport(b) ==
    /\ Act /\ Unlocked /\ rows[b].book /\ rows[b].task = "none"
    /\ Row(b, "task", "queued")
    /\ UNCHANGED <<commandKey, disk, archive, seen, receipts, cleaner, exporter, late, created, stops>>

ClaimExport(b) ==
    /\ Unlocked /\ rows[b].task = "queued"
    /\ Row(b, "task", "running")
    /\ exporter' = [exporter EXCEPT ![b] = rows[b].cites]
    /\ UNCHANGED <<commandKey, disk, archive, seen, receipts, cleaner, late, created, acts, stops>>

(* The artifact is written outside any transaction under the hash of its   *)
(* content; a backup is dated, so a second worker may write a second file. *)
WriteExport(b) ==
    /\ exporter[b] # NoBook
    /\ \E v \in {1, 2} :
         /\ rows[b].task = "running" => v = 1
         /\ disk' = [disk EXCEPT ![<<"export", b, v>>] = File(v, exporter[b])]
         /\ late' = IF rows[b].task = "running" THEN late ELSE late \cup {<<"export", b, v>>}
    /\ IF rows[b].task = "running"
       THEN Unlocked /\ Row(b, "task", "done")
       ELSE UNCHANGED rows
    /\ exporter' = [exporter EXCEPT ![b] = NoBook]
    /\ UNCHANGED <<commandKey, archive, seen, receipts, cleaner, created, acts, stops>>

(* Its lease runs out: another worker does the whole task.                 *)
TakeOverExport(b) ==
    /\ Unlocked /\ rows[b].task = "running" /\ stops < MaxStops
    /\ Row(b, "task", "done")
    /\ disk' = [disk EXCEPT ![<<"export", b, 1>>] = File(1, rows[b].cites)]
    /\ stops' = stops + 1
    /\ UNCHANGED <<commandKey, archive, seen, receipts, cleaner, exporter, late, created, acts>>

(* The mirror is written inside a reading transaction; the manifest comes  *)
(* last, so a sync that dies leaves the folder without one.                *)
SyncMirror(b) ==
    /\ Act /\ Unlocked /\ rows[b].book
    /\ \E dies \in BOOLEAN :
         /\ dies => stops < MaxStops
         /\ disk' = [p \in Paths |->
                IF p = <<"mirror", b>> \/ (p = <<"manifest", b>> /\ ~dies)
                THEN File(rows[b].text, rows[b].cites) ELSE disk[p]]
         /\ stops' = IF dies THEN stops + 1 ELSE stops
    /\ UNCHANGED <<rows, commandKey, archive, seen, receipts, cleaner, exporter, late, created>>

(* The author changes a mirrored file by hand.                             *)
TouchMirror(b) ==
    /\ Act /\ <<"mirror", b>> \in OnDisk
    /\ disk' = [disk EXCEPT ![<<"mirror", b>>].text = MaxActs + 2]
    /\ UNCHANGED <<rows, commandKey, archive, seen, receipts, cleaner, exporter, late, created, stops>>

-----------------------------------------------------------------------------
(* The inventory: which content is whose.                                  *)

Rows      == {b \in Books : rows[b].book \/ rows[b].import # "none"}
Linked(H) == H \cup UNION {disk[BlobPath(x)].hashes : x \in {y \in H : BlobPath(y) \in OnDisk}}
Reach(H)  == {x \in Blobs : \A S \in SUBSET Blobs :
                             H \cap Blobs \subseteq S /\ Linked(S) \cap Blobs \subseteq S => x \in S}

(* Hashes found in rows of others and in every file but the excluded ones; *)
(* provider-outputs is read only by following hashes.                      *)
Protected(b, excluded) ==
    Reach((UNION {rows[o].cites : o \in Books \ {b}}) \cup
          UNION {disk[p].hashes : p \in {q \in OnDisk : q[1] # "blob" /\ q \notin excluded}})

(* A folder of the mirror is the book's by its manifest; one without a     *)
(* manifest cannot be attributed and stops the deletion.                   *)
Folder(b)     == {<<"mirror", b>>, <<"manifest", b>>}
AttributedBySuffix(b) == TRUE
Attributed(b) == <<"mirror", b>> \in OnDisk => <<"manifest", b>> \in OnDisk
OwnFiles(b)   == {p \in Scope(b) \cap OnDisk : p \in Folder(b) => <<"manifest", b>> \in OnDisk}

Manifest(b) ==
    LET named == Reach(rows[b].cites \cup UNION {disk[p].hashes : p \in OwnFiles(b)})
        freed == {BlobPath(x) : x \in named \ Protected(b, OwnFiles(b))} \cap OnDisk
    IN [p \in Paths |-> IF p \in OwnFiles(b) \cup freed THEN disk[p] ELSE NoFile]

Binding(b) == [status |-> "seen", book |-> b, rows |-> rows[b], files |-> Manifest(b)]

Producing(b) == rows[b].call = "executing" \/ rows[b].task = "running"
Blocked(b)   == rows[b].call \in {"executing", "unknown"} \/ rows[b].task \in {"queued", "running"}

-----------------------------------------------------------------------------
(* The author previews and confirms; the rows go; the files follow.        *)

PreviewDeletion(k, b) ==
    /\ Unlocked /\ rows[b].book /\ Attributed(b)
    /\ \A o \in Books : receipts[o] # NoReceipt => receipts[o].key # k
    /\ seen' = [seen EXCEPT ![k] = Binding(b)]
    /\ UNCHANGED <<rows, commandKey, disk, archive, receipts, cleaner, exporter, late, created, acts, stops>>

(* An earlier receipt of this book or this key answers the request.        *)
Answered(k, b) == \E o \in Books : receipts[o] # NoReceipt /\ (o = b \/ receipts[o].key = k)

Deletable(k, b) ==
    /\ rows[b].book /\ ~Answered(k, b)
    /\ ~Blocked(b) /\ Attributed(b)
    /\ \A o \in Books : ~Producing(o)
    /\ seen[k] = Binding(b)

DeleteBook(k, b) ==
    /\ Unlocked /\ seen[k] # NoReceipt /\ seen[k].book = b
    /\ Deletable(k, b)
    /\ receipts' = [receipts EXCEPT ![b] = [status |-> "cleanup_pending", key |-> k,
                                            confirmed |-> seen[k], plan |-> Manifest(b)]]
    /\ rows' = [rows EXCEPT ![b] = Absent]
    /\ commandKey' = [commandKey EXCEPT ![b] = IF @ = "saved" THEN "retired" ELSE @]
    /\ UNCHANGED <<disk, archive, seen, cleaner, exporter, late, created, acts, stops>>

Planned(b) == {p \in Paths : receipts[b].plan[p] # NoFile}

(* Two conflicts keep the receipt pending: a row or a producer, and a file *)
(* in the book's folders that nobody confirmed.                            *)
MayClean(b) ==
    /\ b \notin Rows
    /\ \A o \in Books : ~Producing(o)
    /\ OwnFiles(b) \subseteq Planned(b)

UnsharedAsConfirmed(b) == Planned(b)
Unshared(b) == {p \in Planned(b) : p[1] = "blob" => p[2] \notin Protected(b, Planned(b))}

StartCleanup(b) ==
    /\ Unlocked /\ receipts[b].status = "cleanup_pending" /\ MayClean(b)
    /\ cleaner' = [book |-> b, todo |-> Unshared(b)]
    /\ UNCHANGED <<rows, commandKey, disk, archive, seen, receipts, exporter, late, created, acts, stops>>

UnchangedUnread(p) == TRUE
Unchanged(p) == disk[p] = receipts[cleaner.book].plan[p]

RemoveFile(p) ==
    /\ p \in cleaner.todo
    /\ IF p \in OnDisk /\ ~Unchanged(p)
       THEN cleaner' = Idle /\ UNCHANGED disk
       ELSE /\ cleaner' = [cleaner EXCEPT !.todo = @ \ {p}]
            /\ disk' = [disk EXCEPT ![p] = NoFile]
    /\ UNCHANGED <<rows, commandKey, archive, seen, receipts, exporter, late, created, acts, stops>>

(* A crash rolls the transaction back, a failing unlink is noted in it.    *)
StopCleanup ==
    /\ ~Unlocked /\ stops < MaxStops
    /\ cleaner' = Idle /\ stops' = stops + 1
    /\ UNCHANGED <<rows, commandKey, disk, archive, seen, receipts, exporter, late, created, acts>>

FinishCleanup ==
    /\ ~Unlocked /\ cleaner.todo = {}
    /\ receipts' = [receipts EXCEPT ![cleaner.book].status = "completed",
                                    ![cleaner.book].plan = [p \in Paths |-> NoFile]]
    /\ cleaner' = Idle
    /\ UNCHANGED <<rows, commandKey, disk, archive, seen, exporter, late, created, acts, stops>>

NextDeletion ==
    \/ \E b \in Books :
         \/ StageImport(b) \/ CreateBook(b) \/ CommitImport(b) \/ Backup(b) \/ RestoreArchive(b)
         \/ EditBook(b) \/ MoveCall(b)
         \/ QueueExport(b) \/ ClaimExport(b) \/ WriteExport(b) \/ TakeOverExport(b)
         \/ SyncMirror(b) \/ TouchMirror(b) \/ StartCleanup(b)
         \/ \E k \in DeletionKeys : PreviewDeletion(k, b) \/ DeleteBook(k, b)
    \/ \E p \in Paths : RemoveFile(p)
    \/ StopCleanup \/ FinishCleanup

-----------------------------------------------------------------------------
(* Properties.                                                             *)

(* Only what the author saw in the preview and confirmed is ever removed,  *)
(* with the content it had then, whatever happened since: edits, exports,  *)
(* syncs, crashes and repeated cleanups (binding_sha256, cleanup_files).   *)
AsConfirmed(p) == \E b \in Books :
    receipts[b].status = "cleanup_pending" /\ receipts[b].confirmed.files[p] = disk[p]

(* And no file that another book still needs: not its own folders, and no  *)
(* content its rows name, directly or through other content                *)
(* (retained_hashes, in both transactions).                                *)
StillNeeded(p) == \E b \in Books :
    rows[b].book /\ (p \in Scope(b) \/ (p[1] = "blob" /\ p[2] \in Reach(rows[b].cites)))

RemovedAsConfirmed ==
    [][\A p \in OnDisk : disk'[p] = NoFile => AsConfirmed(p) /\ ~StillNeeded(p)]_deletionVars

(* However often the cleanup stops, a file in a deleted book's folders is  *)
(* either still planned or was written by a worker that had lost its task  *)
(* (the receipt, its manifest and the new-file check).                     *)
NothingLeftBehind ==
    \A b \in Books : receipts[b] # NoReceipt =>
        \A p \in (Scope(b) \cap OnDisk) \ late :
            receipts[b].status = "cleanup_pending" /\ p \in Planned(b)

(* A command makes its book once, also when it is repeated after the book  *)
(* was deleted (retired_commands).                                         *)
MadeOnce == \A b \in Books : created[b] <= 1 /\ (receipts[b] # NoReceipt => ~rows[b].book)

(* Both (services/project_deletion.py, services/idempotency.py).            *)
DeletionIsSound == NothingLeftBehind /\ MadeOnce

DeletionSpec == InitDeletion /\ [][NextDeletion]_deletionVars

=============================================================================
