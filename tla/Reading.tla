-------------------------------- MODULE Reading --------------------------------
(***************************************************************************)
(* The reading desk of one book (services/local_search.py, reader_view.py, *)
(* state_health.py and their routes in api/routes/longform.py): the search *)
(* index and the pages read from it, the reader's view of the current      *)
(* version, and the repair of damaged facts.                               *)
(*                                                                         *)
(* A page takes several statements, each of which sees what is committed   *)
(* by then; meanwhile versions are published, chapters are deleted and the *)
(* index is rebuilt.  The queue a rebuild comes from is the subject of the *)
(* module LocalTasks: here there is one worker and one rebuild at a time.  *)
(***************************************************************************)
EXTENDS Naturals, FiniteSets, Sequences

CONSTANTS
    Words,          \* what a document is found by: a word of its title or its text
    Query,          \* the word a reader looks for
    Folded,         \* words that only the database takes for the query
    ListFacts,      \* facts that are lists, and
    TextFacts,      \* facts that are texts, by their place
    BooksAtFirst,   \* versions published so far, some of them damaged long ago
    MaxChapterRows, \* search bound: chapters ever written
    MaxPublished,   \* search bound: versions
    PageSize        \* rows of a page

Facts          == ListFacts \cup TextFacts
ChapterIds     == 1 .. MaxChapterRows
VersionNumbers == 1 .. MaxPublished

(* A fact is a word, a list, or what PowerShell once made of it: the name  *)
(* of an array, a text around such a name, a text where a list belongs.    *)
Marked == {"array", "wrapped"}
Values == Words \cup {"list", "text"} \cup Marked

EditionRows == [lists : SUBSET ChapterIds, titles : [ChapterIds -> Words], facts : [Facts -> Values]]

ASSUME ReadingAssumption ==
    /\ Query \in Words /\ Folded \subseteq Words \ {Query}
    /\ ListFacts \subseteq Nat /\ TextFacts \subseteq Nat /\ ListFacts \cap TextFacts = {}
    /\ IsFiniteSet(Facts) /\ BooksAtFirst \subseteq Seq(EditionRows) \ {<<>>}
    /\ \A book \in BooksAtFirst : Len(book) <= MaxPublished /\ \E n \in 0 .. MaxChapterRows :
          UNION {book[v].lists : v \in DOMAIN book} = 1 .. n
    /\ MaxChapterRows \in Nat /\ MaxPublished \in Nat \ {0} /\ PageSize \in Nat \ {0}

VARIABLES
    published,      \* the versions; the last one is current
    chapterRows,    \* the chapters there are, each with its one revision
    written,        \* chapters ever written
    documents,      \* the index
    rebuild,        \* the newest rebuild: how far it is and what it has read
    search,         \* a reader's search, page by page
    view,           \* a reader's view of the book
    repairs         \* versions made by a repair, and the number its author confirmed

readingVars == <<published, chapterRows, written, documents, rebuild, search, view, repairs>>

DocumentRows == [kind : {"chapter", "fact"}, source : ChapterIds \cup Facts,
                 version : VersionNumbers, current : BOOLEAN, word : Words]

Ordered(set, _\prec_) ==
    [i \in 1 .. Cardinality(set) |->
        CHOOSE x \in set : Cardinality({y \in set : y \prec x}) = i - 1]

CurrentNumber == Len(published)
Edition == published[CurrentNumber]

NoRebuild == [pc |-> "none", current |-> 0, last |-> 0, docs |-> {}]
NoSearch  == [pc |-> "idle", history |-> FALSE, start |-> 0, book |-> 0, fresh |-> FALSE, some |-> FALSE,
              held |-> TRUE, ready |-> TRUE, total |-> 0, cursor |-> 0, found |-> <<>>,
              steady |-> TRUE]
NoView    == [pc |-> "idle", number |-> 0, there |-> {}, chapters |-> <<>>]

ReadingTypeOK ==
    /\ published \in Seq(EditionRows) /\ CurrentNumber \in VersionNumbers
    /\ written \in 0 .. MaxChapterRows /\ chapterRows \subseteq 1 .. written
    /\ documents \subseteq DocumentRows
    /\ rebuild.pc \in {"none", "queued", "begun", "versions", "sources", "built", "completed", "failed"}
    /\ rebuild.docs \subseteq DocumentRows
    /\ search.pc \in {"idle", "book", "judged", "known", "counted", "page"}
    /\ search.found \in Seq(DocumentRows)
    /\ view.pc \in {"idle", "version", "chapters", "shown"} /\ view.there \subseteq ChapterIds
    /\ \A r \in repairs : r.made \in VersionNumbers /\ r.seen \in VersionNumbers

InitReading ==
    /\ published \in BooksAtFirst
    /\ chapterRows = UNION {published[v].lists : v \in DOMAIN published}
    /\ written = Cardinality(chapterRows)
    /\ documents = {} /\ rebuild = NoRebuild
    /\ search = NoSearch /\ view = NoView /\ repairs = {}

-----------------------------------------------------------------------------
(* Versions come and go.                                                   *)

Desk == <<rebuild, view, repairs>>

(* StoryState.model_validate: a list is no text.                           *)
Valid(facts) == \A f \in ListFacts : facts[f] = "list"

AppendVersion(edition) ==
    /\ CurrentNumber < MaxPublished
    /\ published' = Append(published, edition)

WriteChapter(w) ==
    LET c == written + 1 IN
    /\ c \in ChapterIds /\ Valid(Edition.facts)
    /\ written' = c /\ chapterRows' = chapterRows \cup {c}
    /\ AppendVersion([Edition EXCEPT !.lists = @ \cup {c}, !.titles[c] = w])
    /\ UNCHANGED <<Desk, documents, search>>

EditFact(f, w) ==
    /\ w # Edition.facts[f] /\ Valid(Edition.facts)
    /\ AppendVersion([Edition EXCEPT !.facts[f] = w])
    /\ UNCHANGED <<Desk, documents, search, chapterRows, written>>

Rename(c, w) ==
    /\ c \in Edition.lists /\ Edition.lists \subseteq chapterRows /\ w # Edition.titles[c]
    /\ AppendVersion([Edition EXCEPT !.titles[c] = w])
    /\ UNCHANGED <<Desk, documents, search, chapterRows, written>>

ReturnTo(v) ==
    /\ v < CurrentNumber /\ AppendVersion(published[v])
    /\ UNCHANGED <<Desk, documents, search, chapterRows, written>>

TruncateFrom(c) ==
    /\ c \in Edition.lists \cap chapterRows /\ Valid(Edition.facts)
    /\ AppendVersion([Edition EXCEPT !.lists = {d \in Edition.lists : d < c}])
    /\ UNCHANGED <<Desk, documents, search, chapterRows, written>>

(* A chapter the current version does not list goes with all it has: by a  *)
(* foreign key with its documents.                                         *)
DeleteChapter(c) ==
    /\ c \in chapterRows \ Edition.lists
    /\ chapterRows' = chapterRows \ {c}
    /\ documents' = {d \in documents : d.kind = "chapter" => d.source # c}
    /\ search' = [search EXCEPT !.steady = @ /\ documents' = documents]
    /\ UNCHANGED <<Desk, published, written>>

-----------------------------------------------------------------------------
(* The index is built anew as a whole, in one transaction.                 *)

DeskVars == <<view, repairs>>
BookVars   == <<published, chapterRows, written>>
Rebuilding(pc) == rebuild.pc = pc

QueueRebuild ==
    /\ rebuild.pc \in {"none", "completed", "failed"}
    /\ rebuild' = [NoRebuild EXCEPT !.pc = "queued"]
    /\ UNCHANGED <<BookVars, DeskVars, documents, search>>

BeginRebuild ==
    /\ Rebuilding("queued")
    /\ rebuild' = [rebuild EXCEPT !.pc = "begun", !.current = CurrentNumber]
    /\ UNCHANGED <<BookVars, DeskVars, documents, search>>

ReadVersions ==
    /\ Rebuilding("begun")
    /\ rebuild' = [rebuild EXCEPT !.pc = "versions", !.last = CurrentNumber]
    /\ UNCHANGED <<BookVars, DeskVars, documents, search>>

(* A chapter that is gone and a fact that is empty have no document.       *)
ChapterDocuments(v, current) ==
    {[kind |-> "chapter", source |-> c, version |-> v, current |-> current,
      word |-> published[v].titles[c]] : c \in published[v].lists \cap chapterRows}

StateDocuments(v, current) ==
    {[kind |-> "fact", source |-> f, version |-> v, current |-> current,
      word |-> published[v].facts[f]] : f \in {g \in TextFacts : published[v].facts[g] \in Words}}

SourceDocuments(last, current) ==
    UNION {ChapterDocuments(v, v = current) \cup StateDocuments(v, v = current) : v \in 1 .. last}

ReadSources ==
    /\ Rebuilding("versions")
    /\ rebuild' = [rebuild EXCEPT !.pc = "sources",
                                  !.docs = SourceDocuments(rebuild.last, rebuild.current)]
    /\ UNCHANGED <<BookVars, DeskVars, documents, search>>

(* All the old rows go.  No row may refer to a chapter that is gone.       *)
InsertDocuments ==
    /\ Rebuilding("sources") /\ \A d \in rebuild.docs : d.kind = "chapter" => d.source \in chapterRows
    /\ documents' = rebuild.docs
    /\ rebuild' = [NoRebuild EXCEPT !.pc = "built"]
    /\ search' = [search EXCEPT !.steady = FALSE]
    /\ UNCHANGED <<BookVars, DeskVars>>

CompleteRebuild ==
    /\ Rebuilding("built") /\ rebuild' = [rebuild EXCEPT !.pc = "completed"]
    /\ UNCHANGED <<BookVars, DeskVars, documents, search>>

(* Wherever it fails, nothing of it stays but what was inserted.           *)
FailRebuild ==
    /\ rebuild.pc \in {"sources", "built"}
    /\ rebuild' = [NoRebuild EXCEPT !.pc = "failed"]
    /\ UNCHANGED <<BookVars, DeskVars, documents, search>>

-----------------------------------------------------------------------------
(* A search: the book, what the status makes of the documents and then of  *)
(* the newest rebuild, the number of matches, and one page of them.  A     *)
(* reader looks at one thing at a time.                                    *)

DeskOthers == <<BookVars, documents, rebuild, repairs>>
Searching(pc) == search.pc = pc

Recognized(d) == d.word = Query
MatchesOf(history) ==
    {d \in documents : d.word \in Folded \cup {Query} /\ (history \/ d.current)}

(* The database finds more than the reader sees.                           *)
Shown(page) ==
    LET shown[n \in 0 .. Len(page)] ==
            IF n = 0 THEN <<>>
            ELSE IF Recognized(page[n]) THEN Append(shown[n - 1], page[n]) ELSE shown[n - 1]
    IN  shown[Len(page)]

(* Current ones first, then the newest, by kind and by source.             *)
Precedes(a, b) ==
    IF a.current # b.current THEN a.current
    ELSE IF a.version # b.version THEN a.version > b.version
    ELSE IF a.kind # b.kind THEN a.kind = "chapter"
    ELSE a.source < b.source

BeginSearch(history) ==
    /\ search.pc \in {"idle", "page"} /\ view.pc \in {"idle", "shown"}
    /\ search' = [NoSearch EXCEPT !.pc = "book", !.history = history, !.start = CurrentNumber,
                              !.book = CurrentNumber]
    /\ view' = NoView /\ UNCHANGED DeskOthers

(* The next page is a request of its own.                                  *)
NextPage ==
    /\ Searching("page") /\ search.cursor < search.total
    /\ search' = [search EXCEPT !.pc = "book", !.book = CurrentNumber]
    /\ UNCHANGED <<DeskOthers, view>>

CurrentDocuments == {d \in documents : d.current}

JudgeDocuments ==
    /\ Searching("book")
    /\ search' = [search EXCEPT !.pc = "judged", !.held = @ /\ CurrentDocuments # {},
                                !.some = documents # {},
                                !.fresh = \A d \in CurrentDocuments : d.version = search.book]
    /\ UNCHANGED <<DeskOthers, view>>

(* The rebuild is asked for after the documents.                           *)
IndexBuilt  == rebuild.pc = "completed" \/ (rebuild.pc = "none" /\ search.some)
ReadyIfIdle == IndexBuilt
Ready       == IndexBuilt /\ search.fresh
JudgeRebuild ==
    /\ Searching("judged")
    /\ search' = [search EXCEPT !.pc = "known", !.ready = @ /\ Ready, !.book = 0,
                                !.fresh = FALSE, !.some = FALSE]
    /\ UNCHANGED <<DeskOthers, view>>

CountMatches ==
    /\ Searching("known")
    /\ search' = [search EXCEPT !.pc = "counted", !.total = Cardinality(MatchesOf(search.history))]
    /\ UNCHANGED <<DeskOthers, view>>

(* The cursor counts rows, shown or not.                                   *)
AdvanceByShown(page, shown) == Len(shown)
Advanced(page, shown)       == Len(page)

ShowPage ==
    LET sorted == Ordered(MatchesOf(search.history), Precedes)
        upto   == IF search.cursor + PageSize < Len(sorted) THEN search.cursor + PageSize
                                                             ELSE Len(sorted)
        page   == SubSeq(sorted, search.cursor + 1, upto)
        shown  == Shown(page)
    IN  /\ Searching("counted")
        /\ search' = [search EXCEPT !.pc = "page", !.found = @ \o shown,
                                    !.cursor = @ + Advanced(page, shown)]
        /\ UNCHANGED <<DeskOthers, view>>

-----------------------------------------------------------------------------
(* The view: the version, the chapters, their revisions.                   *)

BeginView ==
    /\ search.pc \in {"idle", "page"} /\ view.pc \in {"idle", "shown"}
    /\ view' = [NoView EXCEPT !.pc = "version", !.number = CurrentNumber]
    /\ search' = NoSearch /\ UNCHANGED DeskOthers

ReadChapters ==
    /\ view.pc = "version"
    /\ view' = [view EXCEPT !.pc = "chapters", !.there = chapterRows]
    /\ UNCHANGED <<DeskOthers, search>>

ViewOf(edition) ==
    LET listed == Ordered(edition.lists \cap view.there, <)
    IN  [i \in 1 .. Len(listed) |-> [chapter |-> listed[i], title |-> edition.titles[listed[i]]]]

CurrentEdition == Edition
ViewedEdition  == published[view.number]

(* A chapter that is gone by now has no revision: the page is not found.   *)
ShowView ==
    /\ view.pc = "chapters"
    /\ view' = IF published[view.number].lists \cap view.there \subseteq chapterRows
               THEN [view EXCEPT !.pc = "shown", !.chapters = ViewOf(ViewedEdition), !.there = {}]
               ELSE NoView
    /\ UNCHANGED <<DeskOthers, search>>

-----------------------------------------------------------------------------
(* The repair of what can be repaired mechanically: scan and normalize.    *)

Findings(facts) == {f \in Facts : facts[f] \in Marked \/ (f \in ListFacts /\ facts[f] # "list")}

Repairable(facts) == {f \in ListFacts : facts[f] = "array"}
Manual(facts)     == {f \in Facts : facts[f] \in Marked} \ Repairable(facts)

NormalizeFacts(facts) == [f \in Facts |-> IF f \in Repairable(facts) THEN "list" ELSE facts[f]]

AnyBase(base) == TRUE
SameBase(base) == base = CurrentNumber

(* "base" is the version whose findings the author was shown.              *)
ApplyRepairs(base) ==
    LET facts == NormalizeFacts(Edition.facts) IN
    /\ base <= CurrentNumber /\ SameBase(base)
    /\ Manual(Edition.facts) = {} /\ Repairable(Edition.facts) # {} /\ Valid(facts)
    /\ AppendVersion([Edition EXCEPT !.facts = facts])
    /\ repairs' = repairs \cup {[made |-> CurrentNumber + 1, seen |-> base]}
    /\ UNCHANGED <<chapterRows, written, documents, rebuild, search, view>>

NextReading ==
    \/ \E w \in Words : WriteChapter(w)
    \/ \E f \in TextFacts, w \in Words : EditFact(f, w)
    \/ \E c \in ChapterIds, w \in Words : Rename(c, w)
    \/ \E v \in VersionNumbers : ReturnTo(v) \/ ApplyRepairs(v)
    \/ \E c \in ChapterIds : TruncateFrom(c) \/ DeleteChapter(c)
    \/ QueueRebuild \/ BeginRebuild \/ ReadVersions \/ ReadSources \/ InsertDocuments
    \/ CompleteRebuild \/ FailRebuild
    \/ \E history \in BOOLEAN : BeginSearch(history)
    \/ NextPage \/ JudgeDocuments \/ JudgeRebuild \/ CountMatches \/ ShowPage
    \/ BeginView \/ ReadChapters \/ ShowView

ReadingSpec == InitReading /\ [][NextReading]_readingVars

-----------------------------------------------------------------------------
(* Properties.                                                             *)

(* Pages that say the index is ready, of an index that has documents of a  *)
(* current version, show as current what belongs to the version that was   *)
(* current when the search began or to a later one, in that version's      *)
(* words (local_search.py search and status: five statements and a rebuild *)
(* that commits between any two of them).                                  *)
ReadyIsTrue ==
    Searching("page") /\ search.ready /\ search.held =>
        \A i \in 1 .. Len(search.found) :
            LET d == search.found[i] IN
            /\ d.current => d.version >= search.start
            /\ d.kind = "chapter" => d.word = published[d.version].titles[d.source]

(* Whoever follows the cursor through an index nobody changes meanwhile    *)
(* is shown every match once, in order, though a page may show less than   *)
(* it counts; and, if it says ready, every chapter of the version that is  *)
(* found by its title (local_search.py search).                            *)
WalkIsComplete ==
    Searching("page") /\ search.steady /\ search.cursor >= search.total =>
        /\ search.found = Shown(Ordered(MatchesOf(search.history), Precedes))
        /\ search.ready /\ search.held =>
              \A c \in published[search.start].lists \cap chapterRows :
                  published[search.start].titles[c] = Query =>
                      \E i \in 1 .. Len(search.found) :
                          /\ search.found[i].kind = "chapter" /\ search.found[i].source = c
                          /\ search.found[i].current

(* A view is the version it names: its chapters in order under its titles, *)
(* all that are still there (reader_view.py build_reader_view).            *)
ViewIsOneVersion ==
    view.pc = "shown" =>
        LET edition == published[view.number]
            shown   == {view.chapters[i].chapter : i \in 1 .. Len(view.chapters)}
        IN  /\ edition.lists \cap chapterRows \subseteq shown /\ shown \subseteq edition.lists
            /\ \A i \in 1 .. Len(view.chapters) :
                  /\ view.chapters[i].title = edition.titles[view.chapters[i].chapter]
                  /\ \A j \in 1 .. i - 1 : view.chapters[j].chapter < view.chapters[i].chapter

(* A repair replaces the version its author was shown, leaves nothing to   *)
(* find and touches nothing else (state_health.py apply_safe_repairs).     *)
RepairIsExact ==
    \A r \in repairs :
        LET before == published[r.seen]
            after  == published[r.made]
        IN  /\ r.made = r.seen + 1 /\ Findings(after.facts) = {}
            /\ after = [before EXCEPT !.facts = after.facts]
            /\ \A f \in Facts \ Findings(before.facts) : after.facts[f] = before.facts[f]

ReadingIsSound == ReadyIsTrue /\ WalkIsComplete /\ ViewIsOneVersion /\ RepairIsExact

================================================================================
