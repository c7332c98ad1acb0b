------------------------------- MODULE BookIntake -------------------------------
(***************************************************************************)
(* How a book comes into the workbench and goes out again: the setup       *)
(* drafts (routes/workflow.py), the preview of an uploaded manuscript and  *)
(* its commit (routes/portability.py, import_previews.py), the backup of a *)
(* book, its restoration as a new book and the exported text               *)
(* (data_portability.py, generation/archive.py), and the mirror of a book  *)
(* in a folder (project_workspaces.py).                                    *)
(*                                                                         *)
(* A command is one transaction and one step; what interleaves is the      *)
(* order of the commands, the clock, what another program does to the      *)
(* staged file, and the steps of a synchronisation, which writes files.    *)
(***************************************************************************)
EXTENDS Integers, Sequences, FiniteSets, FiniteSetsExt, SequencesExt

CONSTANTS
    Manuscripts,    \* the texts an author uploads: sequences of lines
    Uploads,        \* import previews
    SetupDrafts,    \* drafts of the setup dialog
    MaxBooks,       \* search bound: books ever made
    MaxCopies,      \* search bound: backups ever taken
    MaxEdits,       \* search bound: chapters adopted and styles saved
    OldPools,       \* card pools that books of an older release have
    Syncers         \* synchronisations of a mirror that may overlap

Marks == {"number", "name", "text"}

ASSUME IntakeAssumption ==
    /\ \A m \in Manuscripts : m \in Seq([mark : Marks, number : Nat, words : Nat])
    /\ MaxBooks \in Nat /\ MaxCopies \in Nat /\ MaxEdits \in Nat
    /\ OldPools \subseteq {"none", "project", "mixed"}

VARIABLES
    drafts,     \* project_setup_drafts
    previews,   \* import_previews
    upload,     \* the staged file of a preview
    books,      \* the books, in the order they were made
    copies,     \* the backups an author keeps
    mirror,     \* the versions of the text and of the manifest in the folder of book 1
    syncs,      \* synchronisations in progress
    edits

intakeVars == <<drafts, previews, upload, books, copies, mirror, syncs, edits>>

-----------------------------------------------------------------------------
(* Manuscripts.  A heading is numbered ("第3章 ...") or named; words are     *)
(* numbers, 0 for none, and the title a chapter gets from its place -n.    *)

Default(n) == -n
HeadingLines(m) == SetToSortSeq({i \in DOMAIN m : m[i].mark # "text"}, <)

\* A named heading takes its place among all headings, a numbered one the number it says.
NumberByPlace(m, k) == k
Number(m, k) ==
    LET line == m[HeadingLines(m)[k]] IN IF line.mark = "number" THEN line.number ELSE k

TitleOf(m, k) ==
    LET line == m[HeadingLines(m)[k]]
    IN  IF line.words = 0 THEN Default(Number(m, k)) ELSE line.words

BodyOf(m, k) ==
    LET heads == HeadingLines(m)
        last  == IF k = Len(heads) THEN Len(m) ELSE heads[k + 1] - 1
    IN  SubSeq(m, heads[k] + 1, last)

(* parse_manuscript: headings without a text are dropped, a text without   *)
(* headings is one chapter.                                                *)
ChaptersIn(m) ==
    IF HeadingLines(m) = <<>> THEN <<[ordinal |-> 1, title |-> Default(1), body |-> m]>>
    ELSE SelectSeq([k \in DOMAIN HeadingLines(m) |->
                       [ordinal |-> Number(m, k), title |-> TitleOf(m, k), body |-> BodyOf(m, k)]],
                   LAMBDA c : c.body # <<>>)

Readable(m) ==
    /\ m # <<>> /\ ChaptersIn(m) # <<>>
    /\ \A i \in DOMAIN ChaptersIn(m) : ChaptersIn(m)[i].ordinal >= 1

\* The unique place of a chapter in its book; a preview does not look at it.
Distinct(cs) == IsInjective([i \in DOMAIN cs |-> cs[i].ordinal])
InOrder(cs)  == SortSeq(cs, LAMBDA c, d : c.ordinal < d.ordinal)

-----------------------------------------------------------------------------
(* Books.  A chapter of book b is named by b and its physical ordinal; a   *)
(* fact of the formal state cites a chapter, its place and its words.      *)

NoUpload == <<>>
NoCopy   == 0
Style   == [pool : {"none", "project", "mixed"}, assets : 0..MaxEdits]
Unstyled == [pool |-> "none", assets |-> 0]

Chapter(b, ordinal, place, c) ==
    [id |-> <<b, ordinal>>, place |-> place, title |-> c.title, body |-> c.body]

Snapshot(b, cs) == [i \in DOMAIN cs |-> Chapter(b, InOrder(cs)[i].ordinal, InOrder(cs)[i].ordinal,
                                                InOrder(cs)[i])]

\* What a backup or an export says of the chapters, in the order of their places.
Portable(book) ==
    InOrder([i \in DOMAIN book.chapters |->
                [ordinal |-> book.chapters[i].place, title |-> book.chapters[i].title,
                 body |-> book.chapters[i].body]])

Book(chapters, facts, style, history, copy) ==
    [chapters |-> chapters, facts |-> facts, style |-> style, history |-> history,
     version |-> 1, copy |-> copy]

Next1 == Len(books) + 1
MayMake == Len(books) < MaxBooks

NoDraft   == [status |-> "none"]
NoPreview == [status |-> "none"]
Empty     == [status |-> "draft", mode |-> "blank", preview |-> "none", pool |-> "none", book |-> 0]
Payloads  == [mode : {"blank", "import"}, preview : Uploads, pool : {"none", "project", "mixed"}]

InitIntake ==
    /\ drafts = [d \in SetupDrafts |-> NoDraft]
    /\ previews = [p \in Uploads |-> NoPreview] /\ upload = [p \in Uploads |-> NoUpload]
    /\ \E pool \in OldPools :
           books = <<Book(<<>>, {}, [pool |-> pool, assets |-> 0], <<>>, NoCopy)>>
    /\ copies = <<>>
    /\ mirror = [text |-> 0, manifest |-> 0] /\ syncs = [s \in Syncers |-> [step |-> 0, version |-> 0]]
    /\ edits = 0

-----------------------------------------------------------------------------
(* Imports.                                                                *)

(* The file is written, read and parsed before its row: what cannot be     *)
(* read leaves neither.                                                    *)
UploadManuscript(p, m) ==
    /\ previews[p] = NoPreview /\ Readable(m)
    /\ previews' = [previews EXCEPT ![p] = [status |-> "previewed", text |-> m,
                                            shown |-> ChaptersIn(m), fresh |-> TRUE, book |-> 0]]
    /\ upload' = [upload EXCEPT ![p] = m]
    /\ UNCHANGED <<drafts, books, copies, mirror, syncs, edits>>

PassADay(p) ==
    /\ previews[p].status = "previewed" /\ previews[p].fresh
    /\ previews' = [previews EXCEPT ![p].fresh = FALSE]
    /\ UNCHANGED <<drafts, upload, books, copies, mirror, syncs, edits>>

TouchUpload(p, m) ==
    /\ previews[p].status = "previewed" /\ upload[p] # m
    /\ upload' = [upload EXCEPT ![p] = m]
    /\ UNCHANGED <<drafts, previews, books, copies, mirror, syncs, edits>>

StillThere(p) == upload[p] # NoUpload /\ Readable(upload[p])
\* The whole binding is computed again from the bytes of the file.
AsPreviewed(p) == upload[p] = previews[p].text

Committable(p) ==
    /\ previews[p].status = "previewed" /\ previews[p].fresh /\ AsPreviewed(p)
    /\ Distinct(ChaptersIn(upload[p])) /\ MayMake

CommittedAs(p) == [previews EXCEPT ![p].status = "completed", ![p].book = Next1]
Imported(p, style) ==
    Append(books, Book(Snapshot(Next1, ChaptersIn(upload[p])), {}, style, <<>>, NoCopy))

CommitUpload(p) ==
    /\ Committable(p)
    /\ previews' = CommittedAs(p) /\ books' = Imported(p, Unstyled)
    /\ UNCHANGED <<drafts, upload, copies, mirror, syncs, edits>>

-----------------------------------------------------------------------------
(* The setup dialog.                                                       *)

OpenDraft(d) ==
    /\ drafts[d] = NoDraft
    /\ drafts' = [drafts EXCEPT ![d] = Empty]
    /\ UNCHANGED <<previews, upload, books, copies, mirror, syncs, edits>>

SaveSetup(d, payload) ==
    /\ drafts[d].status = "draft" /\ previews[payload.preview] # NoPreview
    /\ drafts' = [drafts EXCEPT ![d].mode = payload.mode, ![d].preview = payload.preview,
                                ![d].pool = payload.pool]
    /\ drafts' # drafts
    /\ UNCHANGED <<previews, upload, books, copies, mirror, syncs, edits>>

\* The rule for a pool an author saves now; older pools can only be read.
MaySave(pool) == pool # "mixed"
Chosen(pool)  == [pool |-> pool, assets |-> 0]
FinishedAs(d, b) == drafts' = [drafts EXCEPT ![d].status = "completed", ![d].book = b]

FinalizeBlank(d) ==
    /\ drafts[d].status = "draft" /\ drafts[d].mode = "blank"
    /\ MaySave(drafts[d].pool) /\ MayMake
    /\ books' = Append(books, Book(<<>>, {}, Chosen(drafts[d].pool), <<>>, NoCopy))
    /\ FinishedAs(d, Next1)
    /\ UNCHANGED <<previews, upload, copies, mirror, syncs, edits>>

FinalizeImport(d) ==
    LET p == drafts[d].preview IN
    /\ drafts[d].status = "draft" /\ drafts[d].mode = "import"
    /\ Committable(p) /\ MaySave(drafts[d].pool)
    /\ previews' = CommittedAs(p) /\ books' = Imported(p, Chosen(drafts[d].pool))
    /\ FinishedAs(d, Next1)
    /\ UNCHANGED <<upload, copies, mirror, syncs, edits>>

(* The preview was committed before: the commit answers with the book it   *)
(* made, and the style chosen in the dialog replaces the style that book   *)
(* has.                                                                    *)
FinalizeCommitted(d) ==
    LET b == previews[drafts[d].preview].book IN
    /\ drafts[d].status = "draft" /\ drafts[d].mode = "import"
    /\ previews[drafts[d].preview].status = "completed" /\ MaySave(drafts[d].pool)
    /\ books' = IF drafts[d].pool = "none" THEN books
                ELSE [books EXCEPT ![b].style = Chosen(drafts[d].pool)]
    /\ FinishedAs(d, b)
    /\ UNCHANGED <<previews, upload, copies, mirror, syncs, edits>>

-----------------------------------------------------------------------------
(* What an author does with a book.                                        *)

Edit == edits < MaxEdits /\ edits' = edits + 1

SaveStyle(b, pool) ==
    /\ Edit /\ MaySave(pool)
    /\ books' = [books EXCEPT ![b].style = [pool |-> pool, assets |-> edits']]
    /\ UNCHANGED <<drafts, previews, upload, copies, mirror, syncs>>

(* The next chapter is placed by the number of formal chapters; where that *)
(* place is taken, as in a manuscript with gaps, the adoption fails.  The  *)
(* stage that wrote it stays with the book as its history.                 *)
Places(b)    == {books[b].chapters[i].place : i \in DOMAIN books[b].chapters}
Ordinals(b)  == {books[b].chapters[i].id[2] : i \in DOMAIN books[b].chapters}
NextPlace(b) == Len(books[b].chapters) + 1
NextRow(b)   == IF Ordinals(b) = {} THEN 1 ELSE Max(Ordinals(b)) + 1

AdoptNext(b) ==
    LET place   == NextPlace(b)
        words   == [title |-> Default(place), body |-> <<[mark |-> "text", number |-> 0, words |-> edits']>>]
        chapter == Chapter(b, NextRow(b), place, words)
    IN  /\ Edit /\ place \notin Places(b)
        /\ books' = [books EXCEPT ![b].chapters = Append(@, chapter), ![b].version = @ + 1,
                         ![b].facts = @ \cup {[id |-> chapter.id, place |-> place, quote |-> words.body]},
                         ![b].history = Append(@, [batch |-> <<b, edits'>>, original |-> <<>>])]
        /\ UNCHANGED <<drafts, previews, upload, copies, mirror, syncs>>

-----------------------------------------------------------------------------
(* Backups.  A batch that was restored is exported as the batch it was     *)
(* restored from.                                                          *)

ItsOwn(h)   == h.batch
Evidence(h) == IF h.original = <<>> THEN h.batch ELSE h.original

TakeBackup(b) ==
    /\ Len(copies) < MaxCopies
    /\ copies' = Append(copies,
           [chapters |-> Portable(books[b]), facts |-> books[b].facts, style |-> books[b].style,
            history |-> [i \in DOMAIN books[b].history |-> Evidence(books[b].history[i])]])
    /\ UNCHANGED <<drafts, previews, upload, books, mirror, syncs, edits>>

(* _rebind_chapter_references: a citation follows the place it names to    *)
(* the new row of that chapter.                                            *)
Unbound(f, cs) == f
Rebind(f, cs) ==
    IF \E i \in DOMAIN cs : cs[i].place = f.place
    THEN [f EXCEPT !.id = (CHOOSE c \in Range(cs) : c.place = f.place).id] ELSE f

(* The old batches come back as archived evidence, without calls.  A pool  *)
(* of an older release is refused, and the restoration with it.            *)
RestoreCopy(k) ==
    LET copy     == copies[k]
        chapters == Snapshot(Next1, copy.chapters)
    IN  /\ MayMake /\ MaySave(copy.style.pool)
        /\ books' = Append(books,
               Book(chapters, {Rebind(f, chapters) : f \in copy.facts}, copy.style,
                    [i \in DOMAIN copy.history |->
                        [batch |-> <<Next1, -i>>, original |-> copy.history[i]]], k))
        /\ UNCHANGED <<drafts, previews, upload, copies, mirror, syncs, edits>>

(* export_markdown.                                                        *)
Heading(c) == [mark |-> "number", number |-> c.ordinal,
               words |-> IF c.title = Default(c.ordinal) THEN 0 ELSE c.title]
Exported(b) ==
    <<[mark |-> "name", number |-> 0, words |-> 1]>>
        \o FlattenSeq([i \in DOMAIN Portable(books[b]) |->
               <<Heading(Portable(books[b])[i])>> \o Portable(books[b])[i].body])

-----------------------------------------------------------------------------
(* The mirror of the first book: the formal files, the sessions, then the  *)
(* manifest, from the version the synchronisation began with.              *)

MirrorStepsTurned == <<"manifest", "text">>
MirrorSteps == <<"text", "manifest">>

BeginSync(s) ==
    /\ syncs[s].step = 0
    /\ syncs' = [syncs EXCEPT ![s] = [step |-> 1, version |-> books[1].version]]
    /\ UNCHANGED <<drafts, previews, upload, books, copies, mirror, edits>>

WriteMirror(s) ==
    /\ syncs[s].step > 0
    /\ mirror' = [mirror EXCEPT ![MirrorSteps[syncs[s].step]] = syncs[s].version]
    /\ syncs' = [syncs EXCEPT ![s] = IF @.step = 2 THEN [step |-> 0, version |-> 0]
                                     ELSE [@ EXCEPT !.step = 2]]
    /\ UNCHANGED <<drafts, previews, upload, books, copies, edits>>

StopSync(s) ==
    /\ syncs[s].step > 0
    /\ syncs' = [syncs EXCEPT ![s] = [step |-> 0, version |-> 0]]
    /\ UNCHANGED <<drafts, previews, upload, books, copies, mirror, edits>>

-----------------------------------------------------------------------------
NextBooks ==
    \/ \E p \in Uploads :
         \/ PassADay(p) \/ CommitUpload(p)
         \/ \E m \in Manuscripts : UploadManuscript(p, m)
         \/ \E m \in Manuscripts \cup {NoUpload} : TouchUpload(p, m)
    \/ \E d \in SetupDrafts :
         \/ OpenDraft(d) \/ FinalizeBlank(d) \/ FinalizeImport(d) \/ FinalizeCommitted(d)
         \/ \E payload \in Payloads : SaveSetup(d, payload)
    \/ \E b \in DOMAIN books :
         \/ AdoptNext(b) \/ TakeBackup(b)
         \/ \E pool \in {"none", "project"} : SaveStyle(b, pool)
    \/ \E k \in DOMAIN copies : RestoreCopy(k)

\* The mirror reads nothing of all this but the version of its book.
NextMirror ==
    \/ AdoptNext(1)
    \/ \E s \in Syncers : BeginSync(s) \/ WriteMirror(s) \/ StopSync(s)

NextIntake == NextBooks \/ NextMirror

IntakeSpec == InitIntake /\ [][NextIntake]_intakeVars

-----------------------------------------------------------------------------
(* Properties.                                                             *)

IntakeTypeOK ==
    /\ \A d \in SetupDrafts : drafts[d] = NoDraft \/ drafts[d].status \in {"draft", "completed"}
    /\ \A p \in Uploads :
           \/ previews[p] = NoPreview
           \/ previews[p].status = "previewed"
           \/ (previews[p].status = "completed" /\ previews[p].book \in DOMAIN books)
    /\ upload \in [Uploads -> Manuscripts \cup {NoUpload}]
    /\ \A b \in DOMAIN books : books[b].style \in Style /\ books[b].copy \in 0..Len(copies)
    /\ mirror.text \in 0..MaxEdits + 1 /\ mirror.manifest \in 0..MaxEdits + 1
    /\ \A s \in Syncers : syncs[s].step \in 0..Len(MirrorSteps)
    /\ edits \in 0..MaxEdits

(* An imported book begins with the chapters its author was shown, though  *)
(* the staged file changed, the day passed or two commands used one        *)
(* preview (import_previews.py).                                           *)
MadeAsShown ==
    \A p \in Uploads : previews[p].status = "completed" =>
        LET shown == InOrder(previews[p].shown)
            made  == books[previews[p].book].chapters
        IN  \A i \in DOMAIN shown : /\ made[i].place = shown[i].ordinal
                                    /\ made[i].title = shown[i].title
                                    /\ made[i].body = shown[i].body

(* Every citation of a formal state finds its words in the chapter it      *)
(* names, of the same book, also in the copy of a copy.                    *)
CitationsHold ==
    \A b \in DOMAIN books : \A f \in books[b].facts :
        \E c \in Range(books[b].chapters) :
            c.id = f.id /\ c.place = f.place /\ c.body = f.quote

(* A restored book, as it was restored, would make the same backup again:  *)
(* no chapter, citation or piece of evidence is lost on the way.           *)
RestoredIsSame ==
    \A b \in DOMAIN books : books[b].copy # NoCopy /\ books[b].version = 1 =>
        LET copy == copies[books[b].copy] IN
        /\ Portable(books[b]) = copy.chapters
        /\ {[f EXCEPT !.id = 0] : f \in books[b].facts} = {[f EXCEPT !.id = 0] : f \in copy.facts}
        /\ [i \in DOMAIN books[b].history |-> Evidence(books[b].history[i])] = copy.history

(* An exported text, imported again, has the chapters of the book.         *)
ExportReadsBack ==
    \A b \in DOMAIN books :
        books[b].chapters # <<>> => ChaptersIn(Exported(b)) = Portable(books[b])

(* A mirror whose manifest names the current version holds its text.       *)
MirrorIsHonest == mirror.manifest = books[1].version => mirror.text = books[1].version

(* What comes in and goes out is the book: imports as they were shown,     *)
(* copies and exports without loss, a mirror that says what it holds.      *)
IntakeIsSound ==
    MadeAsShown /\ CitationsHold /\ RestoredIsSame /\ ExportReadsBack /\ MirrorIsHonest
=============================================================================
