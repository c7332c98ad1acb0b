---------------------------- MODULE FormalVersions ----------------------------
(***************************************************************************)
(* The formal versions of one book (services/workflow*.py and the other    *)
(* commands that publish a version): adoption, rollback, truncation, a new *)
(* start, blueprint edits, state repairs, titles, pruning, the archive.    *)
(*                                                                         *)
(* A version is a row: which revision each chapter has, and the state of   *)
(* the story.  Every command locks the project's row first, so a command   *)
(* is one step; what interleaves is the order of the commands and what an  *)
(* author saw before sending one.                                          *)
(***************************************************************************)
EXTENDS Integers, FiniteSets, FiniteSetsExt

CONSTANTS
    MaxChapters,    \* search bound: chapters ever created
    MaxNumber,      \* search bound: versions ever published
    KeepLatest,     \* versions a pruning keeps (10 in the route)
    Works,          \* generation batches and writing sessions
    Legacy,         \* the writing sessions: an older release left them behind
    RestoredBook,   \* the book comes from a restored backup
    RemovesAdopted  \* its author deletes chapters that a truncation has taken out

ASSUME FormalAssumption ==
    /\ MaxChapters \in Nat \ {0} /\ MaxNumber \in Nat \ {0} /\ KeepLatest \in Nat \ {0}
    /\ Legacy \subseteq Works
    /\ RestoredBook \in BOOLEAN /\ (RestoredBook => MaxChapters >= 2)
    /\ RemovesAdopted \in BOOLEAN

VARIABLES
    versions,       \* state_versions by number
    current,        \* number of the project's current version
    chapter,        \* chapters with their revision
    work,           \* unfinished workspaces
    shelved         \* the project is archived

formalVars == <<versions, current, chapter, work, shelved>>

-----------------------------------------------------------------------------
(* A chapter's text brings evidence into the state: scenes, events, what   *)
(* the reader learns.  "parent" and "source" (rollback_of, restart_of) are *)
(* the links that a pruning may clear, 0 is null.                          *)

Chapters == 1..MaxChapters      \* by creation, which is the order of their ordinals
Numbers  == 1..MaxNumber

NoVersion  == [kept |-> FALSE, chapters |-> {}, evidence |-> {}, parent |-> 0, source |-> 0]
NoChapter  == [row |-> "none", ordinal |-> 0, display |-> 0, revised |-> FALSE,
               text |-> FALSE, base |-> 0]
NoWork     == [status |-> "none", base |-> 0, calling |-> FALSE]

VersionRecords == [kept : BOOLEAN, chapters : SUBSET Chapters, evidence : SUBSET Chapters,
                   parent : 0..MaxNumber, source : 0..MaxNumber]
ChapterRecords == [row : {"none", "row", "gone"}, ordinal : 0..MaxChapters,
                   display : 0..MaxChapters, revised : BOOLEAN,
                   text : BOOLEAN, base : 0..MaxNumber]
WorkRecords    == [status : {"none", "live", "archived", "adopted"},
                   base : 0..MaxNumber, calling : BOOLEAN]

FormalTypeOK ==
    /\ versions \in [Numbers -> VersionRecords]
    /\ current \in Numbers /\ versions[current].kept
    /\ chapter \in [Chapters -> ChapterRecords]
    /\ work \in [Works -> WorkRecords]
    /\ shelved \in BOOLEAN

(* A restored backup is one version that is the base of its own chapters.  *)
InitFormal ==
    LET book == IF RestoredBook THEN {1, 2} ELSE {} IN
    /\ versions = [n \in Numbers |-> IF n = 1
            THEN [NoVersion EXCEPT !.kept = TRUE, !.chapters = book, !.evidence = book]
            ELSE NoVersion]
    /\ current = 1
    /\ chapter = [c \in Chapters |-> IF c \in book
            THEN [row |-> "row", ordinal |-> c, display |-> c, revised |-> TRUE,
                  text |-> TRUE, base |-> 1]
            ELSE NoChapter]
    /\ work = [w \in Works |-> IF w \in Legacy
            THEN [NoWork EXCEPT !.status = "live", !.base = 1] ELSE NoWork]
    /\ shelved = FALSE

-----------------------------------------------------------------------------
(* What the commands share.                                                *)

Now       == versions[current]
LiveWork      == {w \in Works : work[w].status = "live"}
ChapterRows      == {c \in Chapters : chapter[c].row = "row"}
Unused    == {c \in Chapters : chapter[c].row = "none"}
NextOrdinal == 1 + Max({0} \cup {chapter[c].ordinal : c \in ChapterRows})
Formal    == {c \in ChapterRows : c \in Now.chapters}
Place(c)  == IF chapter[c].display # 0 THEN chapter[c].display ELSE chapter[c].ordinal
Rank(c, S) == Cardinality({d \in S : d <= c})

(* A version command refuses while a call of a workspace is under way.     *)
Calling == \E w \in Works : work[w].status = "live" /\ work[w].calling

SynchronizeBatchesOnly ==
    /\ ~Calling
    /\ work' = [w \in Works |-> IF w \in LiveWork \ Legacy
                                THEN [work[w] EXCEPT !.status = "archived"] ELSE work[w]]

Synchronize ==
    /\ ~Calling
    /\ work' = [w \in Works |-> IF w \in LiveWork
                                THEN [work[w] EXCEPT !.status = "archived"] ELSE work[w]]

(* The rows follow the map of the new version: places in the order of the  *)
(* chapters, no place and no revision for all others.                      *)
RenumberKeepsOthers(map) ==
    chapter' = [c \in Chapters |->
        IF c \in ChapterRows \cap map
        THEN [chapter[c] EXCEPT !.display = Rank(c, ChapterRows \cap map), !.revised = TRUE]
        ELSE chapter[c]]
Renumber(map) ==
    chapter' = [c \in Chapters |->
        IF c \in ChapterRows \cap map
        THEN [chapter[c] EXCEPT !.display = Rank(c, ChapterRows \cap map), !.revised = TRUE]
        ELSE [chapter[c] EXCEPT !.display = 0, !.revised = FALSE]]

PublishFormal(new) ==
    /\ current < MaxNumber
    /\ versions' = [versions EXCEPT ![current + 1] =
                      [new EXCEPT !.kept = TRUE, !.parent = current]]
    /\ current' = current + 1

-----------------------------------------------------------------------------
(* Workspaces and adoption.                                                *)

CreateBatch(w) ==
    /\ work[w].status = "none" /\ ~shelved
    /\ work' = [work EXCEPT ![w] = [NoWork EXCEPT !.status = "live", !.base = current]]
    /\ UNCHANGED <<versions, current, chapter, shelved>>

(* A call of a batch is reserved under the project's lock and only for a   *)
(* batch that is still current; writing sessions are driven no more.       *)
BeginCall(w) ==
    /\ w \in LiveWork \ Legacy /\ ~work[w].calling
    /\ work[w].base = current /\ ~shelved
    /\ work' = [work EXCEPT ![w].calling = TRUE]
    /\ UNCHANGED <<versions, current, chapter, shelved>>

EndCall(w) ==
    /\ work[w].calling
    /\ work' = [work EXCEPT ![w].calling = FALSE]
    /\ UNCHANGED <<versions, current, chapter, shelved>>

(* The complete chapters of a stage, all on the version it started from.   *)
(* Two rows of a project never share a place.                              *)
Adopt(w, new) ==
    /\ w \in LiveWork \ Legacy /\ work[w].base = current /\ ~shelved
    /\ new # {} /\ new = {c \in Unused : \E d \in new : c <= d}
    /\ LET place(c) == Cardinality(Now.chapters) + Rank(c, new) IN
       /\ \A c \in new : /\ place(c) <= MaxChapters
                         /\ \A d \in ChapterRows : chapter[d].display # place(c)
       /\ ~Calling
       /\ chapter' = [c \in Chapters |-> IF c \in new
              THEN [row |-> "row", ordinal |-> NextOrdinal + Rank(c, new) - 1,
                    display |-> place(c), revised |-> TRUE, text |-> TRUE, base |-> current]
              ELSE chapter[c]]
    /\ work' = [v \in Works |-> IF v = w THEN [work[v] EXCEPT !.status = "adopted"]
                                ELSE IF v \in LiveWork THEN [work[v] EXCEPT !.status = "archived"]
                                ELSE work[v]]
    /\ PublishFormal([Now EXCEPT !.chapters = @ \cup new, !.evidence = @ \cup new,
                           !.source = 0])
    /\ UNCHANGED shelved

(* An empty chapter for a place the author chooses.                        *)
CreateChapter(place) ==
    /\ \A c \in ChapterRows : chapter[c].display # place
    /\ \E c \in Unused :
          /\ \A d \in Unused : c <= d
          /\ chapter' = [chapter EXCEPT ![c] =
                  [NoChapter EXCEPT !.row = "row", !.ordinal = NextOrdinal, !.display = place]]
    /\ UNCHANGED <<versions, current, work, shelved>>

-----------------------------------------------------------------------------
(* Commands on versions.                                                   *)

Rollback(n) ==
    /\ versions[n].kept /\ n # current
    /\ Synchronize
    /\ Renumber(versions[n].chapters)
    /\ PublishFormal([versions[n] EXCEPT !.source = n])
    /\ UNCHANGED shelved

RestartStory ==
    /\ Synchronize
    /\ Renumber({})
    /\ PublishFormal([Now EXCEPT !.chapters = {}, !.evidence = {}, !.source = current])
    /\ UNCHANGED shelved

EditBlueprint ==
    /\ Synchronize
    /\ PublishFormal([Now EXCEPT !.source = 0])
    /\ UNCHANGED <<chapter, shelved>>

(* Only titles change: sessions move to the new version, batches do not.   *)
RenameTitles ==
    /\ Now.chapters \subseteq ChapterRows
    /\ ~Calling
    /\ work' = [w \in Works |->
                  IF w \notin LiveWork THEN work[w]
                  ELSE IF w \in Legacy
                       THEN [work[w] EXCEPT !.base = IF @ = current THEN current + 1 ELSE @]
                       ELSE [work[w] EXCEPT !.status = "archived"]]
    /\ PublishFormal([Now EXCEPT !.source = 0])
    /\ UNCHANGED <<chapter, shelved>>

(* The state before the chapter: the state its text was written on, and    *)
(* what the chapters kept since then have added.                           *)
TruncatedFromBase(c, kept) == versions[chapter[c].base].evidence
Truncated(c, kept) ==
    versions[chapter[c].base].evidence \cup (kept \ versions[chapter[c].base].chapters)

(* The plan an author confirms is bound to the version, the chapters and   *)
(* the workspaces it names and computed again: it is that of this moment.  *)
Truncate(c) ==
    /\ c \in Formal
    /\ LET kept == {d \in Formal : Place(d) < Place(c)} IN
       /\ Synchronize
       /\ Renumber(kept)
       /\ PublishFormal([NoVersion EXCEPT !.chapters = kept, !.evidence = Truncated(c, kept)])
    /\ UNCHANGED shelved

(* The same command on a chapter outside the current version.  A chapter   *)
(* that was taken out has no current revision either: its text goes too,   *)
(* for every version that lists it.                                        *)
DeleteEmpty(c) ==
    /\ c \in ChapterRows \ Formal /\ ~chapter[c].revised
    /\ chapter[c].text => RemovesAdopted
    /\ chapter' = [chapter EXCEPT ![c] = [NoChapter EXCEPT !.row = "gone"]]
    /\ UNCHANGED <<versions, current, work, shelved>>

(* Versions beyond the latest ones go unless a text or a workspace was     *)
(* based on them; the links of the others are cleared.                     *)
Latest       == {n \in Numbers : versions[n].kept
                   /\ Cardinality({k \in n..current : versions[k].kept}) <= KeepLatest}
BasesOfText  == {chapter[c].base : c \in {d \in Chapters : chapter[d].text}}
BasesOfWork  == {work[w].base : w \in Works}
PrunableUnlessText  == {n \in Numbers : versions[n].kept} \ (Latest \cup BasesOfText)
Prunable     == {n \in Numbers : versions[n].kept} \ (Latest \cup BasesOfWork \cup BasesOfText)

Prune ==
    /\ Prunable # {}
    /\ LET cleared(n) == IF n \in Prunable THEN 0 ELSE n IN
       versions' = [n \in Numbers |-> IF n \in Prunable THEN NoVersion
                    ELSE [versions[n] EXCEPT !.parent = cleared(@), !.source = cleared(@)]]
    /\ UNCHANGED <<current, chapter, work, shelved>>

Shelve ==
    /\ ~shelved /\ Synchronize
    /\ shelved' = TRUE
    /\ UNCHANGED <<versions, current, chapter>>

Unshelve ==
    /\ shelved
    /\ shelved' = FALSE
    /\ UNCHANGED <<versions, current, chapter, work>>

NextFormal ==
    \/ \E w \in Works : CreateBatch(w) \/ BeginCall(w) \/ EndCall(w)
    \/ \E w \in Works, new \in SUBSET Chapters : Adopt(w, new)
    \/ \E c \in Chapters : CreateChapter(c) \/ Truncate(c) \/ DeleteEmpty(c)
    \/ \E n \in Numbers : Rollback(n)
    \/ RestartStory \/ EditBlueprint \/ RenameTitles \/ Prune \/ Shelve \/ Unshelve

FormalSpec == InitFormal /\ [][NextFormal]_formalVars

-----------------------------------------------------------------------------
(* Properties.                                                             *)

(* The evidence in the state of every version is that of its chapters: no  *)
(* truncation, rollback or new start leaves a scene of a chapter that is   *)
(* out, or loses one of a chapter that is in.                              *)
EvidenceMatches == \A n \in Numbers : versions[n].evidence = versions[n].chapters

(* The rows of the chapters say what the current version says: its         *)
(* chapters have the places 1, 2, ... and a revision, the others no        *)
(* revision, and a place only if they are new and empty.                   *)
RowsFollow ==
    \A c \in ChapterRows :
        IF c \in Now.chapters
        THEN chapter[c].revised /\ chapter[c].display = Rank(c, Formal)
        ELSE ~chapter[c].revised /\ (chapter[c].text => chapter[c].display = 0)

(* An unfinished workspace is based on the current version of a project    *)
(* that is not archived: whatever was published, it was archived or moved. *)
WorkIsCurrent == \A w \in LiveWork : work[w].base = current /\ ~shelved

(* What later commands read of old versions survives the pruning: the base *)
(* of every text and workspace, every link, and the latest versions.       *)
BasesKept ==
    /\ \A c \in Chapters : chapter[c].text => versions[chapter[c].base].kept
    /\ \A w \in Works : work[w].base # 0 => versions[work[w].base].kept
    /\ \A n \in Numbers : \A m \in {versions[n].parent, versions[n].source} :
           m # 0 => m < n /\ versions[m].kept
    /\ \A n \in Numbers : n <= current /\ n > current - KeepLatest => versions[n].kept

(* The versions are sound: the story's rows are those of its current       *)
(* version, and what a version or a candidate builds on is never truncated *)
(* away (formal_state.py, state_truncation.py).                            *)
VersionsAreSound == RowsFollow /\ BasesKept

(* Nothing an author adopted is ever lost: a version that is kept can be   *)
(* rolled back to with the text of all its chapters.                       *)
VersionsReadable == \A n \in Numbers : \A c \in versions[n].chapters : chapter[c].text

=============================================================================
