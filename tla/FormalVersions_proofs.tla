------------------------ MODULE FormalVersions_proofs ------------------------
(***************************************************************************)
(* The version chain of a book, for any number of chapters, versions and   *)
(* workspaces (FormalVersions).                                            *)
(***************************************************************************)
EXTENDS FormalVersions, FiniteSetTheorems, WellFoundedInduction, TLAPS

-----------------------------------------------------------------------------
(* The inductive invariant.  A truncation rebuilds the state from the      *)
(* version a chapter was written on; that is right because a chapter is    *)
(* written on chapters created before it, and every version that lists it  *)
(* lists those too (Founded).  Places are right because chapters are used  *)
(* in the order of their creation and those of a version have their rows   *)
(* (Used, Listed).                                                         *)

FormalTypes ==
  /\ versions \in [Numbers -> VersionRecords]
  /\ current \in Numbers
  /\ chapter \in [Chapters -> ChapterRecords]
  /\ work \in [Works -> WorkRecords]
  /\ shelved \in BOOLEAN

\* What is not kept is blank, and nothing is newer than the current version.
Chain ==
  /\ versions[current].kept
  /\ \A n \in Numbers :
       /\ n > current => ~versions[n].kept
       /\ ~versions[n].kept => versions[n] = NoVersion
       /\ n <= current /\ n > current - KeepLatest => versions[n].kept

Links ==
  \A n \in Numbers : \A m \in {versions[n].parent, versions[n].source} :
    m # 0 => m \in Numbers /\ m < n /\ versions[m].kept

TextBases ==
  \A c \in Chapters :
    chapter[c].text => chapter[c].base \in Numbers /\ versions[chapter[c].base].kept

WorkBases ==
  \A w \in Works :
    /\ work[w].base # 0 => work[w].base \in Numbers /\ versions[work[w].base].kept
    /\ work[w].status = "live" => work[w].base = current /\ ~shelved

\* Chapters are used one after the other, and their ordinals follow.
Used ==
  /\ \A c, d \in Chapters : chapter[c].row # "none" /\ chapter[d].row = "none" => c < d
  /\ \A c \in Chapters :
       /\ chapter[c].row # "row" => ~chapter[c].text /\ ~chapter[c].revised
       /\ chapter[c].row = "row" => chapter[c].ordinal \in 1 .. c
  /\ \A c, d \in Chapters : chapter[c].row = "row" /\ chapter[d].row = "row" /\ c < d =>
       chapter[c].ordinal < chapter[d].ordinal

\* A version lists chapters that were adopted, and they are there unless authors delete them.
Listed ==
  \A n \in Numbers : \A c \in versions[n].chapters :
    /\ chapter[c].row # "none"
    /\ chapter[c].row = "row" => chapter[c].text
    /\ ~RemovesAdopted => chapter[c].row = "row"

Founded ==
  ~RestoredBook /\ ~RemovesAdopted =>
    \A n \in Numbers : \A c \in versions[n].chapters :
      \A d \in versions[chapter[c].base].chapters : d \in versions[n].chapters /\ d < c

Placed == ~RemovesAdopted => RowsFollow

Evident == ~RestoredBook /\ ~RemovesAdopted => EvidenceMatches

FormalInv ==
  /\ FormalTypes /\ Chain /\ Links /\ TextBases /\ WorkBases /\ Used
  /\ Listed /\ Founded /\ Placed /\ Evident

-----------------------------------------------------------------------------
(* Ranks and greatest elements.                                            *)

LEMMA LeastExists ==
  ASSUME NEW S \in SUBSET Nat, S # {}
  PROVE  \E x \in S : \A y \in S : x <= y
<1>1. PICK x \in S : \A y \in S : <<y, x>> \notin OpToRel(<, Nat)
  BY NatLessThanWellFounded, WFMin
<1>2. \A y \in S : ~(y < x)
  BY <1>1 DEF OpToRel
<1>3. QED
  BY <1>2

LEMMA GreatestExists ==
  ASSUME NEW N \in Nat, NEW S \in SUBSET (0 .. N), S # {}
  PROVE  Max(S) \in S /\ \A y \in S : y <= Max(S)
<1> DEFINE T == {N - x : x \in S}
<1>0. \A x \in S : x \in Nat /\ N - x \in Nat
  OBVIOUS
<1>1. T \in SUBSET Nat /\ T # {}
  BY <1>0
<1>2. PICK t \in T : \A u \in T : t <= u
  BY <1>1, LeastExists
<1>3. PICK x \in S : t = N - x
  BY <1>2
<1>4. \A y \in S : N - y \in T
  OBVIOUS
<1> HIDE DEF T
<1>5. \A y \in S : N - x <= N - y
  BY <1>2, <1>3, <1>4
<1>a. \A y \in S : x >= y
  BY <1>0, <1>5
<1>6. QED
  BY <1>0, <1>3, <1>a DEF Max

LEMMA ChapterNumbers == \A c \in Chapters : c \in Nat /\ c > 0 /\ c <= MaxChapters
BY FormalAssumption DEF Chapters

LEMMA ChaptersFinite ==
  ASSUME NEW S \in SUBSET Chapters
  PROVE  /\ IsFiniteSet(S) /\ Cardinality(S) \in Nat /\ Cardinality(S) <= MaxChapters
<1>1. IsFiniteSet(Chapters) /\ Cardinality(Chapters) = MaxChapters
  BY FormalAssumption, FS_Interval DEF Chapters
<1>2. QED
  BY <1>1, FS_Subset, FS_CardinalityType

\* Rank counts from 1 within a set, in order.
LEMMA RankCounts ==
  ASSUME NEW S \in SUBSET Chapters, NEW c \in Chapters
  PROVE  /\ Rank(c, S) \in 0 .. MaxChapters
         /\ c \in S => Rank(c, S) >= 1
         /\ \A d \in S : c < d => Rank(c, S) < Rank(d, S)
<1> DEFINE below(x) == {e \in S : e <= x}
<1>1. \A x \in Chapters : /\ IsFiniteSet(below(x)) /\ Cardinality(below(x)) \in 0 .. MaxChapters
                          /\ Rank(x, S) = Cardinality(below(x))
  <2>1. ASSUME NEW x \in Chapters PROVE below(x) \in SUBSET Chapters
    OBVIOUS
  <2>2. QED
    BY <2>1, ChaptersFinite, FormalAssumption DEF Rank
<1>2. ASSUME c \in S PROVE Cardinality(below(c)) >= 1
  <2>1. c \in below(c)
    BY <1>2, ChapterNumbers
  <2>2. Cardinality({c}) = 1 /\ {c} \in SUBSET below(c)
    BY <2>1, FS_Singleton
  <2>3. QED
    BY <1>1, <2>2, FS_Subset
<1>3. ASSUME NEW d \in S, c < d PROVE Cardinality(below(c)) < Cardinality(below(d))
  <2>1. d \in Chapters /\ \A e \in below(c) : e <= d
    BY <1>3, ChapterNumbers
  <2>a. below(c) \in SUBSET below(d)
    BY <2>1
  <2>2. d \in below(d) /\ d \notin below(c)
    BY <1>3, <2>1, ChapterNumbers
  <2>3. Cardinality(below(c)) <= Cardinality(below(d)) /\ Cardinality(below(c)) # Cardinality(below(d))
    BY <1>1, <2>1, <2>2, <2>a, FS_Subset
  <2>4. QED
    BY <1>1, <2>1, <2>3
<1>4. QED
  BY <1>1, <1>2, <1>3

\* The chapters of a set that come before all others of it keep their ranks, and the others
\* count on from there.
LEMMA RankExtends ==
  ASSUME NEW S \in SUBSET Chapters, NEW T \in SUBSET Chapters,
         \A c \in S, d \in T : c < d
  PROVE  /\ \A c \in S : Rank(c, S \cup T) = Rank(c, S)
         /\ \A d \in T : Rank(d, S \cup T) = Cardinality(S) + Rank(d, T)
<1>1. ASSUME NEW c \in S PROVE Rank(c, S \cup T) = Rank(c, S)
  <2>1. \A e \in T : ~(e <= c)
    BY ChapterNumbers
  <2>a. {e \in S \cup T : e <= c} = {e \in S : e <= c}
    BY <2>1
  <2>2. QED
    BY <2>a DEF Rank
<1>2. ASSUME NEW d \in T PROVE Rank(d, S \cup T) = Cardinality(S) + Rank(d, T)
  <2> DEFINE U == {e \in T : e <= d}
  <2>0. \A e \in S : e <= d /\ \A f \in T : e # f
    BY ChapterNumbers
  <2>1. {e \in S \cup T : e <= d} = S \cup U
    BY <2>0
  <2>2. S \cap U = {}
    BY <2>0
  <2>3. IsFiniteSet(S) /\ IsFiniteSet(U) /\ Cardinality(S) \in Nat /\ Cardinality(U) \in Nat
    BY ChaptersFinite
  <2>4. Cardinality(S \cup U) = Cardinality(S) + Cardinality(U)
    BY <2>2, <2>3, FS_Union, FS_EmptySet
  <2>5. QED
    BY <2>1, <2>4 DEF Rank
<1>3. QED
  BY <1>1, <1>2

\* The next ordinal is above all that are in use, and not above the next chapter.
LEMMA NextOrdinalFits ==
  ASSUME FormalTypes, Used
  PROVE  /\ NextOrdinal \in Nat \ {0}
         /\ \A c \in ChapterRows : chapter[c].ordinal < NextOrdinal
         /\ \A d \in Unused : NextOrdinal <= d
<1> DEFINE S == {0} \cup {chapter[c].ordinal : c \in ChapterRows}
<1>1. S \in SUBSET (0 .. MaxChapters) /\ S # {} /\ MaxChapters \in Nat
  BY FormalAssumption DEF FormalTypes, ChapterRecords, ChapterRows
<1>2. Max(S) \in S /\ \A y \in S : y <= Max(S)
  BY <1>1, GreatestExists
<1>3. NextOrdinal = 1 + Max(S)
  BY DEF NextOrdinal
<1>4. Max(S) \in Nat
  BY <1>1, <1>2
<1> HIDE DEF S
<1>5. \A c \in ChapterRows : chapter[c].ordinal \in S /\ chapter[c].ordinal \in Nat
  BY <1>1 DEF S
<1>6. ASSUME NEW d \in Unused PROVE Max(S) < d
  <2>1. d \in Chapters /\ d \in Nat \ {0}
    BY FormalAssumption DEF Unused, Chapters
  <2>2. CASE Max(S) = 0
    BY <2>1, <2>2
  <2>3. CASE Max(S) # 0
    <3>1. PICK c \in ChapterRows : Max(S) = chapter[c].ordinal
      BY <1>2, <2>3 DEF S
    <3>2. c \in Chapters /\ c \in Nat /\ c < d /\ chapter[c].ordinal <= c
      BY <2>1, FormalAssumption DEF Used, ChapterRows, Unused, Chapters
    <3>3. QED
      BY <1>4, <2>1, <3>1, <3>2
  <2>4. QED
    BY <2>2, <2>3
<1>7. QED
  BY <1>2, <1>3, <1>4, <1>5, <1>6 DEF Unused, Chapters

-----------------------------------------------------------------------------
(* What the commands share.                                                *)

\* A new version is put after the current one and disturbs no other.
LEMMA Published ==
  ASSUME FormalInv, NEW new \in VersionRecords, PublishFormal(new),
         new.source # 0 => new.source \in Numbers /\ versions[new.source].kept
  PROVE  /\ versions' \in [Numbers -> VersionRecords]
         /\ current' \in Numbers /\ current' = current + 1
         /\ \A n \in Numbers : versions[n].kept => n # current' /\ versions'[n] = versions[n]
         /\ \A n \in Numbers : n # current' => versions'[n] = versions[n]
         /\ versions'[current'].kept /\ versions'[current'].chapters = new.chapters
         /\ versions'[current'].evidence = new.evidence
         /\ Chain' /\ Links'
<1> DEFINE made == [new EXCEPT !.kept = TRUE, !.parent = current]
<1>1. /\ versions \in [Numbers -> VersionRecords] /\ current \in Numbers
      /\ current < MaxNumber /\ versions' = [versions EXCEPT ![current + 1] = made]
      /\ current' = current + 1
  BY DEF FormalInv, FormalTypes, PublishFormal
<1>2. Numbers = 1 .. MaxNumber /\ MaxNumber \in Nat /\ KeepLatest \in Nat \ {0}
  BY FormalAssumption DEF Numbers
<1>3. current \in Nat /\ current >= 1 /\ current + 1 \in Numbers /\ current \in 0 .. MaxNumber
  BY <1>1, <1>2
<1>4. /\ made \in VersionRecords /\ made.kept /\ made.parent = current
      /\ made.chapters = new.chapters /\ made.evidence = new.evidence /\ made.source = new.source
  BY <1>3 DEF VersionRecords
<1> HIDE DEF made
<1>5. /\ versions' \in [Numbers -> VersionRecords] /\ versions'[current'] = made
      /\ \A n \in Numbers : n # current' => versions'[n] = versions[n]
  BY <1>1, <1>3, <1>4
<1>6. \A n \in Numbers : versions[n].kept => n <= current /\ n # current'
  BY <1>1, <1>2, <1>3 DEF FormalInv, Chain
<1>7. Chain'
  <2>1. ASSUME NEW n \in Numbers, n > current' PROVE ~versions'[n].kept
    BY <1>1, <1>2, <1>3, <1>5, <2>1 DEF FormalInv, Chain
  <2>2. ASSUME NEW n \in Numbers, ~versions'[n].kept PROVE versions'[n] = NoVersion
    BY <1>4, <1>5, <2>2 DEF FormalInv, Chain
  <2>3. ASSUME NEW n \in Numbers, n <= current', n > current' - KeepLatest
        PROVE  versions'[n].kept
    BY <1>1, <1>2, <1>3, <1>4, <1>5, <2>3 DEF FormalInv, Chain
  <2>4. QED
    BY <1>4, <1>5, <2>1, <2>2, <2>3 DEF Chain
<1>8. Links'
  <2> SUFFICES ASSUME NEW n \in Numbers,
                      NEW m \in {versions'[n].parent, versions'[n].source}, m # 0
               PROVE  m \in Numbers /\ m < n /\ versions'[m].kept
    BY DEF Links
  <2>1. CASE n = current'
    <3>1. m \in Numbers /\ versions[m].kept
      BY <1>1, <1>4, <1>5, <2>1 DEF FormalInv, Chain
    <3>2. QED
      BY <1>1, <1>2, <1>3, <1>5, <1>6, <2>1, <3>1
  <2>2. CASE n # current'
    <3>1. m \in Numbers /\ m < n /\ versions[m].kept
      BY <1>5, <2>2 DEF FormalInv, Links
    <3>2. QED
      BY <1>5, <1>6, <3>1
  <2>3. QED
    BY <2>1, <2>2
<1>9. QED
  BY <1>1, <1>3, <1>4, <1>5, <1>6, <1>7, <1>8

\* A command that publishes a version and leaves texts and their bases alone keeps the invariant
\* when the new version is sound.
LEMMA PublishKeeps ==
  ASSUME FormalInv, NEW new \in VersionRecords, PublishFormal(new),
         new.source # 0 => new.source \in Numbers /\ versions[new.source].kept,
         chapter' \in [Chapters -> ChapterRecords], Used',
         \A c \in Chapters : /\ chapter'[c].row = chapter[c].row
                             /\ chapter'[c].text = chapter[c].text
                             /\ chapter'[c].base = chapter[c].base,
         work' \in [Works -> WorkRecords], WorkBases', shelved' \in BOOLEAN,
         \A c \in new.chapters : /\ chapter[c].row # "none"
                                 /\ chapter[c].row = "row" => chapter[c].text
                                 /\ ~RemovesAdopted => chapter[c].row = "row",
         ~RestoredBook /\ ~RemovesAdopted =>
           /\ new.evidence = new.chapters
           /\ \A c \in new.chapters : \A d \in versions[chapter[c].base].chapters :
                d \in new.chapters /\ d < c,
         Placed'
  PROVE  FormalInv'
<1>1. /\ versions' \in [Numbers -> VersionRecords]
      /\ current' \in Numbers /\ current' = current + 1
      /\ \A n \in Numbers : versions[n].kept => n # current' /\ versions'[n] = versions[n]
      /\ \A n \in Numbers : n # current' => versions'[n] = versions[n]
      /\ versions'[current'].kept /\ versions'[current'].chapters = new.chapters
      /\ versions'[current'].evidence = new.evidence
      /\ Chain' /\ Links'
  BY Published
<1>2. FormalTypes'
  BY <1>1 DEF FormalTypes
<1>3. TextBases'
  <2> SUFFICES ASSUME NEW c \in Chapters, chapter'[c].text
               PROVE  chapter'[c].base \in Numbers /\ versions'[chapter'[c].base].kept
    BY DEF TextBases
  <2>1. chapter'[c].base = chapter[c].base /\ chapter[c].text
    OBVIOUS
  <2>2. chapter[c].base \in Numbers /\ versions[chapter[c].base].kept
    BY <2>1 DEF FormalInv, TextBases
  <2>3. versions'[chapter[c].base] = versions[chapter[c].base]
    BY <1>1, <2>2
  <2>4. QED
    BY <2>1, <2>2, <2>3
<1>4. Listed'
  <2> SUFFICES ASSUME NEW n \in Numbers, NEW c \in versions'[n].chapters
               PROVE  /\ chapter'[c].row # "none"
                      /\ chapter'[c].row = "row" => chapter'[c].text
                      /\ ~RemovesAdopted => chapter'[c].row = "row"
    BY DEF Listed
  <2>1. c \in Chapters
    BY <1>1 DEF VersionRecords
  <2>2. CASE n = current'
    BY <1>1, <2>1, <2>2
  <2>3. CASE n # current'
    BY <1>1, <2>1, <2>3 DEF FormalInv, Listed
  <2>4. QED
    BY <2>2, <2>3
<1>5. Founded'
  <2> SUFFICES ASSUME ~RestoredBook, ~RemovesAdopted, NEW n \in Numbers,
                      NEW c \in versions'[n].chapters,
                      NEW d \in versions'[chapter'[c].base].chapters
               PROVE  d \in versions'[n].chapters /\ d < c
    BY DEF Founded
  <2>1. c \in Chapters
    BY <1>1 DEF VersionRecords
  <2>2. chapter[c].text
    <3>1. CASE n = current'
      BY <1>1, <3>1
    <3>2. CASE n # current'
      BY <1>1, <3>2 DEF FormalInv, Listed
    <3>3. QED
      BY <3>1, <3>2
  <2>3. d \in versions[chapter[c].base].chapters
    <3>1. chapter'[c].base = chapter[c].base
      BY <2>1
    <3>2. chapter[c].base \in Numbers /\ versions[chapter[c].base].kept
      BY <2>1, <2>2 DEF FormalInv, TextBases
    <3>3. versions'[chapter[c].base] = versions[chapter[c].base]
      BY <1>1, <3>2
    <3>4. QED
      BY <3>1, <3>3
  <2>4. CASE n = current'
    BY <1>1, <2>3, <2>4
  <2>5. CASE n # current'
    BY <1>1, <2>3, <2>5 DEF FormalInv, Founded
  <2>6. QED
    BY <2>4, <2>5
<1>6. Evident'
  BY <1>1 DEF FormalInv, Evident, EvidenceMatches
<1>7. QED
  BY <1>1, <1>2, <1>3, <1>4, <1>5, <1>6 DEF FormalInv

\* Rows renumbered by the map of a version.
LEMMA Renumbered ==
  ASSUME FormalTypes, Used, NEW map \in SUBSET Chapters, Renumber(map)
  PROVE  /\ chapter' \in [Chapters -> ChapterRecords] /\ Used'
         /\ \A c \in Chapters : /\ chapter'[c].row = chapter[c].row
                                /\ chapter'[c].text = chapter[c].text
                                /\ chapter'[c].base = chapter[c].base
                                /\ chapter'[c].revised <=> c \in ChapterRows \cap map
                                /\ chapter'[c].display = IF c \in ChapterRows \cap map
                                                         THEN Rank(c, ChapterRows \cap map) ELSE 0
<1> DEFINE S == ChapterRows \cap map
           row(c) == IF c \in S
                     THEN [chapter[c] EXCEPT !.display = Rank(c, S), !.revised = TRUE]
                     ELSE [chapter[c] EXCEPT !.display = 0, !.revised = FALSE]
<1>1. chapter' = [c \in Chapters |-> row(c)]
  BY DEF Renumber
<1>2. S \in SUBSET Chapters
  OBVIOUS
<1>3. \A c \in Chapters : Rank(c, S) \in 0 .. MaxChapters
  BY <1>2, RankCounts
<1> HIDE DEF S
<1>4. ASSUME NEW c \in Chapters
      PROVE  /\ row(c) \in ChapterRecords /\ row(c).row = chapter[c].row
             /\ row(c).text = chapter[c].text /\ row(c).base = chapter[c].base
             /\ row(c).ordinal = chapter[c].ordinal /\ (row(c).revised <=> c \in S)
             /\ row(c).display = IF c \in S THEN Rank(c, S) ELSE 0
  <2>1. chapter[c] \in ChapterRecords /\ Rank(c, S) \in 0 .. MaxChapters /\ 0 \in 0 .. MaxChapters
    BY <1>3, FormalAssumption DEF FormalTypes
  <2>2. CASE c \in S
    BY <2>1, <2>2 DEF ChapterRecords
  <2>3. CASE c \notin S
    BY <2>1, <2>3 DEF ChapterRecords
  <2>4. QED
    BY <2>2, <2>3
<1> HIDE DEF row
<1>5. Used'
  <2>1. \A c \in S : chapter[c].row = "row"
    BY DEF S, ChapterRows
  <2>2. QED
    BY <1>1, <1>4, <2>1 DEF Used
<1>6. QED
  BY <1>1, <1>4, <1>5 DEF S

\* A version command archives the workspaces.
LEMMA Synchronized ==
  ASSUME FormalInv, Synchronize
  PROVE  /\ work' \in [Works -> WorkRecords]
         /\ \A w \in Works : work'[w].base = work[w].base /\ work'[w].status # "live"
<1>1. work' = [w \in Works |-> IF w \in LiveWork
                              THEN [work[w] EXCEPT !.status = "archived"] ELSE work[w]]
  BY DEF Synchronize
<1>2. ASSUME NEW w \in Works
      PROVE  /\ work'[w] \in WorkRecords
             /\ work'[w].base = work[w].base /\ work'[w].status # "live"
  BY <1>1 DEF FormalInv, FormalTypes, WorkRecords, LiveWork
<1>3. QED
  BY <1>1, <1>2

\* Only workspaces change, or the project is archived.
LEMMA WorkChanges ==
  ASSUME FormalInv, UNCHANGED <<versions, current, chapter>>, shelved' \in BOOLEAN,
         work' \in [Works -> WorkRecords], WorkBases'
  PROVE  FormalInv'
<1>1. FormalTypes' /\ Chain' /\ Links' /\ TextBases' /\ Used' /\ Listed'
  BY DEF FormalInv, FormalTypes, Chain, Links, TextBases, Used, Listed
<1>2. Founded' /\ Evident'
  BY DEF FormalInv, Founded, Evident, EvidenceMatches
<1>3. Placed'
  BY DEF FormalInv, Placed, RowsFollow, Now, Formal, ChapterRows
<1>4. QED
  BY <1>1, <1>2, <1>3 DEF FormalInv

-----------------------------------------------------------------------------
(* The commands.                                                           *)

LEMMA BatchKeeps ==
  ASSUME FormalInv, NEW w \in Works, CreateBatch(w) \/ BeginCall(w) \/ EndCall(w)
  PROVE  FormalInv'
<1>1. UNCHANGED <<versions, current, chapter, shelved>>
  BY DEF CreateBatch, BeginCall, EndCall
<1>2. /\ current \in Numbers /\ current \in 0 .. MaxNumber /\ versions[current].kept
      /\ shelved \in BOOLEAN
  BY FormalAssumption DEF FormalInv, FormalTypes, Chain, Numbers
<1>3. CASE CreateBatch(w)
  <2> DEFINE batch == [NoWork EXCEPT !.status = "live", !.base = current]
  <2>1. work' = [work EXCEPT ![w] = batch] /\ ~shelved
    BY <1>3 DEF CreateBatch
  <2>2. batch \in WorkRecords /\ batch.base = current
    BY <1>2 DEF NoWork, WorkRecords
  <2> HIDE DEF batch
  <2>3. work' \in [Works -> WorkRecords] /\ WorkBases'
    BY <1>1, <1>2, <2>1, <2>2 DEF FormalInv, FormalTypes, WorkBases
  <2>4. QED
    BY <1>1, <1>2, <2>3, WorkChanges
<1>4. ASSUME NEW b \in BOOLEAN, work' = [work EXCEPT ![w].calling = b] PROVE FormalInv'
  <2>1. \A v \in Works : /\ work'[v] \in WorkRecords
                         /\ work'[v].base = work[v].base /\ work'[v].status = work[v].status
    BY <1>4 DEF FormalInv, FormalTypes, WorkRecords
  <2>2. work' \in [Works -> WorkRecords]
    BY <1>4, <2>1 DEF FormalInv, FormalTypes
  <2>3. WorkBases'
    BY <1>1, <2>1 DEF FormalInv, WorkBases
  <2>4. QED
    BY <1>1, <1>2, <2>2, <2>3, WorkChanges
<1>5. QED
  BY <1>3, <1>4 DEF BeginCall, EndCall, CreateBatch

LEMMA ShelveKeeps ==
  ASSUME FormalInv, Shelve \/ Unshelve
  PROVE  FormalInv'
<1>1. CASE Shelve
  <2>1. UNCHANGED <<versions, current, chapter>> /\ shelved' = TRUE /\ Synchronize
    BY <1>1 DEF Shelve
  <2>2. /\ work' \in [Works -> WorkRecords]
        /\ \A w \in Works : work'[w].base = work[w].base /\ work'[w].status # "live"
    BY <2>1, Synchronized
  <2>3. WorkBases'
    BY <2>1, <2>2 DEF FormalInv, WorkBases
  <2>4. QED
    BY <2>1, <2>2, <2>3, WorkChanges
<1>2. CASE Unshelve
  <2>1. UNCHANGED <<versions, current, chapter, work>> /\ shelved' = FALSE /\ shelved
    BY <1>2 DEF Unshelve
  <2>2. WorkBases' /\ work' \in [Works -> WorkRecords]
    BY <2>1 DEF FormalInv, FormalTypes, WorkBases
  <2>3. QED
    BY <2>1, <2>2, WorkChanges
<1>3. QED
  BY <1>1, <1>2

\* A command that archives the workspaces, renumbers the rows by a map and publishes it.
LEMMA CommandKeeps ==
  ASSUME FormalInv, NEW new \in VersionRecords, PublishFormal(new),
         new.source # 0 => new.source \in Numbers /\ versions[new.source].kept,
         Synchronize, Renumber(new.chapters), UNCHANGED shelved,
         \A c \in new.chapters : /\ chapter[c].row # "none"
                                 /\ chapter[c].row = "row" => chapter[c].text
                                 /\ ~RemovesAdopted => chapter[c].row = "row",
         ~RestoredBook /\ ~RemovesAdopted =>
           /\ new.evidence = new.chapters
           /\ \A c \in new.chapters : \A d \in versions[chapter[c].base].chapters :
                d \in new.chapters /\ d < c
  PROVE  FormalInv'
<1>1. new.chapters \in SUBSET Chapters
  BY DEF VersionRecords
<1>2. /\ chapter' \in [Chapters -> ChapterRecords] /\ Used'
      /\ \A c \in Chapters : /\ chapter'[c].row = chapter[c].row
                             /\ chapter'[c].text = chapter[c].text
                             /\ chapter'[c].base = chapter[c].base
                             /\ chapter'[c].revised <=> c \in ChapterRows \cap new.chapters
                             /\ chapter'[c].display =
                                  IF c \in ChapterRows \cap new.chapters
                                  THEN Rank(c, ChapterRows \cap new.chapters) ELSE 0
  BY <1>1, Renumbered DEF FormalInv
<1>3. /\ work' \in [Works -> WorkRecords]
      /\ \A w \in Works : work'[w].base = work[w].base /\ work'[w].status # "live"
  BY Synchronized
<1>4. /\ \A n \in Numbers : versions[n].kept => versions'[n] = versions[n]
      /\ versions'[current'].chapters = new.chapters
  BY Published
<1>5. WorkBases'
  BY <1>3, <1>4 DEF FormalInv, WorkBases
<1>6. ChapterRows' = ChapterRows /\ Now'.chapters = new.chapters
  BY <1>2, <1>4 DEF ChapterRows, Now
<1>7. Formal' = ChapterRows \cap new.chapters
  BY <1>6 DEF Formal
<1>8. Placed'
  <2> SUFFICES ASSUME NEW c \in ChapterRows'
               PROVE  IF c \in Now'.chapters
                      THEN chapter'[c].revised /\ chapter'[c].display = Rank(c, Formal')
                      ELSE ~chapter'[c].revised /\ (chapter'[c].text => chapter'[c].display = 0)
    BY DEF Placed, RowsFollow, Rank
  <2>1. c \in Chapters /\ c \in ChapterRows
    BY <1>6 DEF ChapterRows
  <2>2. QED
    BY <1>2, <1>6, <1>7, <2>1
<1>9. shelved' \in BOOLEAN
  BY DEF FormalInv, FormalTypes
<1>10. QED
  BY <1>2, <1>3, <1>5, <1>8, <1>9, PublishKeeps

LEMMA RollbackKeeps ==
  ASSUME FormalInv, NEW n \in Numbers, Rollback(n)
  PROVE  FormalInv'
<1> DEFINE new == [versions[n] EXCEPT !.source = n]
<1>1. versions[n].kept /\ Synchronize /\ Renumber(versions[n].chapters)
      /\ PublishFormal(new) /\ UNCHANGED shelved
  BY DEF Rollback
<1>2. n \in 0 .. MaxNumber /\ versions[n] \in VersionRecords
  BY FormalAssumption DEF FormalInv, FormalTypes, Numbers
<1>3. /\ new \in VersionRecords /\ new.source = n
      /\ new.chapters = versions[n].chapters /\ new.evidence = versions[n].evidence
  BY <1>2 DEF VersionRecords
<1> HIDE DEF new
<1>4. \A c \in new.chapters : /\ chapter[c].row # "none"
                              /\ chapter[c].row = "row" => chapter[c].text
                              /\ ~RemovesAdopted => chapter[c].row = "row"
  BY <1>3 DEF FormalInv, Listed
<1>5. ~RestoredBook /\ ~RemovesAdopted =>
        /\ new.evidence = new.chapters
        /\ \A c \in new.chapters : \A d \in versions[chapter[c].base].chapters :
             d \in new.chapters /\ d < c
  BY <1>3 DEF FormalInv, Evident, EvidenceMatches, Founded
<1>6. QED
  BY <1>1, <1>3, <1>4, <1>5, CommandKeeps

LEMMA RestartKeeps ==
  ASSUME FormalInv, RestartStory
  PROVE  FormalInv'
<1> DEFINE new == [Now EXCEPT !.chapters = {}, !.evidence = {}, !.source = current]
<1>1. Synchronize /\ Renumber({}) /\ PublishFormal(new) /\ UNCHANGED shelved
  BY DEF RestartStory
<1>2. /\ current \in 0 .. MaxNumber /\ Now \in VersionRecords /\ current \in Numbers
      /\ versions[current].kept
  BY FormalAssumption DEF FormalInv, FormalTypes, Numbers, Now, Chain
<1>3. new \in VersionRecords /\ new.source = current /\ new.chapters = {} /\ new.evidence = {}
  BY <1>2 DEF VersionRecords
<1> HIDE DEF new
<1>4. QED
  BY <1>1, <1>2, <1>3, CommandKeeps

\* A command that publishes the chapters of the current version again.
LEMMA RepublishKeeps ==
  ASSUME FormalInv, PublishFormal([Now EXCEPT !.source = 0]), UNCHANGED <<chapter, shelved>>,
         work' \in [Works -> WorkRecords], WorkBases'
  PROVE  FormalInv'
<1> DEFINE new == [Now EXCEPT !.source = 0]
<1>1. Now \in VersionRecords /\ current \in Numbers /\ 0 \in 0 .. MaxNumber
  BY FormalAssumption DEF FormalInv, FormalTypes, Now
<1>2. /\ new \in VersionRecords /\ new.source = 0
      /\ new.chapters = Now.chapters /\ new.evidence = Now.evidence
  BY <1>1 DEF VersionRecords
<1>3. PublishFormal(new)
  OBVIOUS
<1> HIDE DEF new
<1>4. chapter' \in [Chapters -> ChapterRecords] /\ Used' /\ shelved' \in BOOLEAN
  BY DEF FormalInv, FormalTypes, Used
<1>5. \A c \in new.chapters : /\ chapter[c].row # "none"
                              /\ chapter[c].row = "row" => chapter[c].text
                              /\ ~RemovesAdopted => chapter[c].row = "row"
  BY <1>1, <1>2 DEF FormalInv, Listed, Now
<1>6. ~RestoredBook /\ ~RemovesAdopted =>
        /\ new.evidence = new.chapters
        /\ \A c \in new.chapters : \A d \in versions[chapter[c].base].chapters :
             d \in new.chapters /\ d < c
  BY <1>1, <1>2 DEF FormalInv, Evident, EvidenceMatches, Founded, Now
<1>7. versions'[current'].chapters = new.chapters
  BY <1>2, <1>3, Published
<1>8. Placed'
  BY <1>2, <1>7 DEF FormalInv, Placed, RowsFollow, Now, Formal, ChapterRows
<1>9. QED
  BY <1>2, <1>3, <1>4, <1>5, <1>6, <1>8, PublishKeeps

LEMMA EditKeeps ==
  ASSUME FormalInv, EditBlueprint
  PROVE  FormalInv'
<1>1. Synchronize /\ PublishFormal([Now EXCEPT !.source = 0]) /\ UNCHANGED <<chapter, shelved>>
  BY DEF EditBlueprint
<1>2. /\ work' \in [Works -> WorkRecords]
      /\ \A w \in Works : work'[w].base = work[w].base /\ work'[w].status # "live"
  BY <1>1, Synchronized
<1>3. \A n \in Numbers : versions[n].kept => versions'[n].kept
  <2>1. Now \in VersionRecords /\ 0 \in 0 .. MaxNumber
    BY FormalAssumption DEF FormalInv, FormalTypes, Now
  <2>2. [Now EXCEPT !.source = 0] \in VersionRecords /\ [Now EXCEPT !.source = 0].source = 0
    BY <2>1 DEF VersionRecords
  <2>3. QED
    BY <1>1, <2>2, Published
<1>4. WorkBases'
  BY <1>2, <1>3 DEF FormalInv, WorkBases
<1>5. QED
  BY <1>1, <1>2, <1>4, RepublishKeeps

LEMMA RenameKeeps ==
  ASSUME FormalInv, RenameTitles
  PROVE  FormalInv'
<1>1. /\ PublishFormal([Now EXCEPT !.source = 0]) /\ UNCHANGED <<chapter, shelved>>
      /\ work' = [w \in Works |->
                    IF w \notin LiveWork THEN work[w]
                    ELSE IF w \in Legacy
                         THEN [work[w] EXCEPT !.base = IF work[w].base = current
                                                       THEN current + 1 ELSE work[w].base]
                         ELSE [work[w] EXCEPT !.status = "archived"]]
  BY DEF RenameTitles
<1>2. /\ \A n \in Numbers : versions[n].kept => versions'[n].kept
      /\ current' = current + 1 /\ current' \in Numbers /\ versions'[current'].kept
  <2>1. Now \in VersionRecords /\ 0 \in 0 .. MaxNumber
    BY FormalAssumption DEF FormalInv, FormalTypes, Now
  <2>2. [Now EXCEPT !.source = 0] \in VersionRecords /\ [Now EXCEPT !.source = 0].source = 0
    BY <2>1 DEF VersionRecords
  <2>3. QED
    BY <1>1, <2>2, Published
<1>3. current' \in 0 .. MaxNumber
  BY <1>2, FormalAssumption DEF Numbers
<1>4. ASSUME NEW w \in Works
      PROVE  /\ work'[w] \in WorkRecords
             /\ work'[w].base # 0 => work'[w].base \in Numbers /\ versions'[work'[w].base].kept
             /\ work'[w].status = "live" => work'[w].base = current' /\ ~shelved'
  <2>1. /\ work[w] \in WorkRecords /\ (work[w].status = "live" => work[w].base = current /\ ~shelved)
        /\ work[w].base # 0 => work[w].base \in Numbers /\ versions'[work[w].base].kept
    BY <1>2 DEF FormalInv, FormalTypes, WorkBases
  <2>2. CASE w \notin LiveWork
    <3>1. work'[w] = work[w] /\ work[w].status # "live"
      BY <1>1, <2>2 DEF LiveWork
    <3>2. QED
      BY <2>1, <3>1
  <2>3. CASE w \in LiveWork /\ w \in Legacy
    <3> DEFINE moved == [work[w] EXCEPT !.base = current + 1]
    <3>1. work'[w] = moved
      BY <1>1, <2>1, <2>3 DEF LiveWork
    <3>2. moved \in WorkRecords /\ moved.base = current'
      BY <1>2, <1>3, <2>1 DEF WorkRecords
    <3> HIDE DEF moved
    <3>3. ~shelved'
      BY <1>1, <2>1, <2>3 DEF LiveWork
    <3>4. QED
      BY <1>2, <3>1, <3>2, <3>3
  <2>4. CASE w \in LiveWork /\ w \notin Legacy
    <3> DEFINE ended == [work[w] EXCEPT !.status = "archived"]
    <3>1. work'[w] = ended
      BY <1>1, <2>4
    <3>2. ended \in WorkRecords /\ ended.status = "archived" /\ ended.base = work[w].base
      BY <2>1 DEF WorkRecords
    <3> HIDE DEF ended
    <3>3. QED
      BY <2>1, <3>1, <3>2
  <2>5. QED
    BY <2>2, <2>3, <2>4
<1>5. work' \in [Works -> WorkRecords] /\ WorkBases'
  <2>1. DOMAIN work' = Works /\ work' = [w \in Works |-> work'[w]]
    BY <1>1
  <2>2. QED
    BY <1>4, <2>1 DEF WorkBases
<1>6. QED
  BY <1>1, <1>5, RepublishKeeps

\* The chapters before the first removed one are those the removed one was written on, and
\* chapters written since.
LEMMA TruncateKeeps ==
  ASSUME FormalInv, NEW c \in Chapters, Truncate(c)
  PROVE  FormalInv'
<1> DEFINE kept == {d \in Formal : Place(d) < Place(c)}
           new  == [NoVersion EXCEPT !.chapters = kept, !.evidence = Truncated(c, kept)]
<1>1. /\ c \in Formal /\ Synchronize /\ Renumber(kept) /\ PublishFormal(new)
      /\ UNCHANGED shelved
  BY DEF Truncate
<1>2. /\ Formal \subseteq Chapters /\ Formal \subseteq Now.chapters
      /\ current \in Numbers /\ \A d \in Formal : chapter[d].row = "row" /\ chapter[d].text
  BY DEF Formal, ChapterRows, FormalInv, FormalTypes, Listed, Now
<1>3. chapter[c].base \in Numbers /\ versions[chapter[c].base] \in VersionRecords
  BY <1>1, <1>2 DEF FormalInv, FormalTypes, TextBases
<1>4. kept \in SUBSET Chapters /\ Truncated(c, kept) \in SUBSET Chapters
  BY <1>2, <1>3 DEF Truncated, VersionRecords
<1>5. 0 \in 0 .. MaxNumber
  BY FormalAssumption
<1>6. kept \subseteq Formal /\ \A d \in Formal : Place(d) < Place(c) => d \in kept
  OBVIOUS
<1>7. \A d \in kept : Place(d) < Place(c)
  OBVIOUS
<1> HIDE DEF kept
<1>8. /\ new \in VersionRecords /\ new.source = 0
      /\ new.chapters = kept /\ new.evidence = Truncated(c, kept)
  BY <1>4, <1>5 DEF NoVersion, VersionRecords
<1> HIDE DEF new
<1>9. \A d \in new.chapters : /\ chapter[d].row # "none"
                              /\ chapter[d].row = "row" => chapter[d].text
                              /\ ~RemovesAdopted => chapter[d].row = "row"
  BY <1>2, <1>6, <1>8
<1>10. ASSUME ~RestoredBook, ~RemovesAdopted
       PROVE  /\ new.evidence = new.chapters
              /\ \A d \in new.chapters : \A e \in versions[chapter[d].base].chapters :
                   e \in new.chapters /\ e < d
  <2>1. Formal = Now.chapters
    BY <1>2, <1>10 DEF Formal, ChapterRows, FormalInv, FormalTypes, Listed, Now, VersionRecords
  <2>2. \A d \in Formal : Place(d) = Rank(d, Formal) /\ Rank(d, Formal) \in Nat
    <3>1. \A d \in Formal : Rank(d, Formal) \in Nat /\ Rank(d, Formal) >= 1
      BY <1>2, RankCounts
    <3>2. \A d \in Formal : chapter[d].display = Rank(d, Formal)
      BY <1>2, <1>10 DEF FormalInv, Placed, RowsFollow, Formal
    <3>3. QED
      BY <3>1, <3>2 DEF Place
  <2>3. ASSUME NEW d \in Formal, NEW e \in versions[chapter[d].base].chapters
        PROVE  e \in Formal /\ e < d /\ Place(e) < Place(d)
    <3>1. e \in Now.chapters /\ e < d
      BY <1>2, <1>10, <2>3 DEF FormalInv, Founded, Now
    <3>2. Rank(e, Formal) < Rank(d, Formal)
      BY <1>2, <2>1, <3>1, RankCounts
    <3>3. QED
      BY <2>1, <2>2, <3>1, <3>2
  <2>4. ASSUME NEW d \in kept, NEW e \in versions[chapter[d].base].chapters
        PROVE  e \in kept /\ e < d
    <3>1. d \in Formal /\ Place(d) < Place(c) /\ c \in Formal
      BY <1>1, <1>6, <1>7
    <3>2. e \in Formal /\ e < d /\ Place(e) < Place(d)
      BY <2>3, <3>1
    <3>3. Place(e) \in Nat /\ Place(d) \in Nat /\ Place(c) \in Nat
      BY <2>2, <3>1, <3>2
    <3>4. QED
      BY <1>6, <3>1, <3>2, <3>3
  <2>5. versions[chapter[c].base].chapters \subseteq kept
    BY <1>1, <1>6, <2>3
  <2>6. Truncated(c, kept) = kept
    <3>1. versions[chapter[c].base].evidence = versions[chapter[c].base].chapters
      BY <1>3, <1>10 DEF FormalInv, Evident, EvidenceMatches
    <3>2. QED
      BY <2>5, <3>1 DEF Truncated
  <2>7. QED
    BY <1>8, <2>4, <2>6
<1>11. Renumber(new.chapters)
  BY <1>1, <1>8
<1>12. QED
  BY <1>1, <1>8, <1>9, <1>10, <1>11, CommandKeeps

LEMMA CreateKeeps ==
  ASSUME FormalInv, NEW place \in Chapters, CreateChapter(place)
  PROVE  FormalInv'
<1>1. PICK c \in Unused :
        /\ \A d \in Unused : c <= d
        /\ chapter' = [chapter EXCEPT ![c] =
              [NoChapter EXCEPT !.row = "row", !.ordinal = NextOrdinal, !.display = place]]
  BY DEF CreateChapter
<1> DEFINE empty == [NoChapter EXCEPT !.row = "row", !.ordinal = NextOrdinal, !.display = place]
<1>2. UNCHANGED <<versions, current, work, shelved>>
  BY DEF CreateChapter
<1>3. c \in Chapters /\ chapter[c].row = "none" /\ c \in 1 .. MaxChapters
  BY DEF Unused, Chapters
<1>4. /\ NextOrdinal \in 1 .. c /\ \A d \in ChapterRows : chapter[d].ordinal < NextOrdinal
      /\ NextOrdinal \in 0 .. MaxChapters
  BY <1>3, NextOrdinalFits, FormalAssumption DEF FormalInv
<1>5. /\ empty \in ChapterRecords /\ empty.row = "row" /\ empty.ordinal = NextOrdinal
      /\ empty.text = FALSE /\ empty.revised = FALSE
  <2>1. place \in 0 .. MaxChapters /\ 0 \in 0 .. MaxChapters /\ 0 \in 0 .. MaxNumber
    BY FormalAssumption DEF Chapters
  <2>2. QED
    BY <1>4, <2>1 DEF NoChapter, ChapterRecords
<1>6. chapter' = [chapter EXCEPT ![c] = empty]
  BY <1>1
<1> HIDE DEF empty
<1>7. /\ chapter' \in [Chapters -> ChapterRecords] /\ chapter'[c] = empty
      /\ \A d \in Chapters : d # c => chapter'[d] = chapter[d]
  BY <1>3, <1>5, <1>6 DEF FormalInv, FormalTypes
<1>8. FormalTypes' /\ Chain' /\ Links' /\ WorkBases'
  BY <1>2, <1>7 DEF FormalInv, FormalTypes, Chain, Links, WorkBases
<1>9. TextBases'
  BY <1>2, <1>5, <1>7 DEF FormalInv, TextBases
<1>10. Used'
  <2>1. ASSUME NEW a \in Chapters, NEW b \in Chapters,
               chapter'[a].row # "none", chapter'[b].row = "none"
        PROVE  a < b
    <3>1. b # c /\ b \in Unused
      BY <1>5, <1>7, <2>1 DEF Unused
    <3>2. CASE a = c
      BY <1>1, <1>3, <3>1, <3>2, ChapterNumbers
    <3>3. CASE a # c
      BY <1>7, <2>1, <3>1, <3>3 DEF FormalInv, Used
    <3>4. QED
      BY <3>2, <3>3
  <2>2. ASSUME NEW a \in Chapters
        PROVE  /\ chapter'[a].row # "row" => ~chapter'[a].text /\ ~chapter'[a].revised
               /\ chapter'[a].row = "row" => chapter'[a].ordinal \in 1 .. a
    BY <1>4, <1>5, <1>7 DEF FormalInv, Used
  <2>3. ASSUME NEW a \in Chapters, NEW b \in Chapters,
               chapter'[a].row = "row", chapter'[b].row = "row", a < b
        PROVE  chapter'[a].ordinal < chapter'[b].ordinal
    <3>1. CASE a # c /\ b # c
      BY <1>7, <2>3, <3>1 DEF FormalInv, Used
    <3>2. CASE b = c
      <4>1. a # c
        BY <2>3, <3>2, ChapterNumbers
      <4>2. chapter'[a] = chapter[a] /\ a \in ChapterRows
        BY <1>7, <2>3, <4>1 DEF ChapterRows
      <4>3. QED
        BY <1>4, <1>5, <1>7, <3>2, <4>2
    <3>3. CASE a = c /\ b # c
      BY <1>3, <1>7, <2>3, <3>3, ChapterNumbers DEF FormalInv, Used
    <3>4. QED
      BY <3>1, <3>2, <3>3
  <2>4. QED
    BY <2>1, <2>2, <2>3 DEF Used
<1>11. \A n \in Numbers : c \notin versions[n].chapters /\ versions[n].chapters \subseteq Chapters
  BY <1>3 DEF FormalInv, FormalTypes, VersionRecords, Listed
<1>12. Listed'
  BY <1>2, <1>7, <1>11 DEF FormalInv, Listed
<1>13. Founded'
  BY <1>2, <1>7, <1>11 DEF FormalInv, Founded
<1>14. Evident'
  BY <1>2 DEF FormalInv, Evident, EvidenceMatches
<1>15. Placed'
  <2>1. Now' = Now /\ c \notin Now.chapters
    BY <1>2, <1>11 DEF Now, FormalInv, FormalTypes
  <2>2. ChapterRows' = ChapterRows \cup {c} /\ Formal' = Formal
    BY <1>3, <1>5, <1>7, <2>1 DEF ChapterRows, Formal
  <2>3. QED
    BY <1>5, <1>7, <2>1, <2>2 DEF FormalInv, Placed, RowsFollow, ChapterRows, Rank
<1>16. QED
  BY <1>8, <1>9, <1>10, <1>12, <1>13, <1>14, <1>15 DEF FormalInv

LEMMA DeleteKeeps ==
  ASSUME FormalInv, NEW c \in Chapters, DeleteEmpty(c)
  PROVE  FormalInv'
<1> DEFINE gone == [NoChapter EXCEPT !.row = "gone"]
<1>1. /\ c \in ChapterRows \ Formal /\ (chapter[c].text => RemovesAdopted)
      /\ chapter' = [chapter EXCEPT ![c] = gone]
      /\ UNCHANGED <<versions, current, work, shelved>>
  BY DEF DeleteEmpty
<1>2. /\ gone \in ChapterRecords /\ gone.row = "gone" /\ gone.text = FALSE
      /\ gone.revised = FALSE
  <2>1. 0 \in 0 .. MaxChapters /\ 0 \in 0 .. MaxNumber
    BY FormalAssumption
  <2>2. QED
    BY <2>1 DEF NoChapter, ChapterRecords
<1> HIDE DEF gone
<1>3. /\ chapter' \in [Chapters -> ChapterRecords] /\ chapter'[c] = gone
      /\ \A d \in Chapters : d # c => chapter'[d] = chapter[d]
      /\ chapter[c].row = "row" /\ c \notin Now.chapters
  BY <1>1, <1>2 DEF FormalInv, FormalTypes, ChapterRows, Formal
<1>4. FormalTypes' /\ Chain' /\ Links' /\ WorkBases'
  BY <1>1, <1>3 DEF FormalInv, FormalTypes, Chain, Links, WorkBases
<1>5. TextBases'
  BY <1>1, <1>2, <1>3 DEF FormalInv, TextBases
<1>6. Used'
  BY <1>2, <1>3 DEF FormalInv, Used
<1>7. \A n \in Numbers : versions[n].chapters \subseteq Chapters
                        /\ (~RemovesAdopted => c \notin versions[n].chapters)
  BY <1>1, <1>3 DEF FormalInv, FormalTypes, VersionRecords, Listed
<1>8. Listed'
  BY <1>1, <1>2, <1>3, <1>7 DEF FormalInv, Listed
<1>9. Founded'
  BY <1>1, <1>3, <1>7 DEF FormalInv, Founded
<1>10. Evident'
  BY <1>1 DEF FormalInv, Evident, EvidenceMatches
<1>11. Placed'
  <2>1. Now' = Now
    BY <1>1 DEF Now
  <2>2. ChapterRows' = ChapterRows \ {c} /\ Formal' = Formal
    BY <1>2, <1>3, <2>1 DEF ChapterRows, Formal
  <2>3. QED
    BY <1>3, <2>1, <2>2 DEF FormalInv, Placed, RowsFollow, ChapterRows, Rank
<1>12. QED
  BY <1>4, <1>5, <1>6, <1>8, <1>9, <1>10, <1>11 DEF FormalInv

\* What a pruning takes nothing is based on, and it is older than the latest versions.
LEMMA PruneKeeps ==
  ASSUME FormalInv, Prune
  PROVE  FormalInv'
<1> DEFINE cleared(n) == IF n \in Prunable THEN 0 ELSE n
           left(n)    == [versions[n] EXCEPT !.parent = cleared(versions[n].parent),
                                             !.source = cleared(versions[n].source)]
<1>1. /\ versions' = [n \in Numbers |-> IF n \in Prunable THEN NoVersion ELSE left(n)]
      /\ UNCHANGED <<current, chapter, work, shelved>>
  BY DEF Prune
<1>2. /\ NoVersion \in VersionRecords /\ NoVersion.kept = FALSE /\ NoVersion.chapters = {}
      /\ NoVersion.evidence = {} /\ NoVersion.parent = 0 /\ NoVersion.source = 0
  BY FormalAssumption DEF NoVersion, VersionRecords
<1>3. ASSUME NEW n \in Numbers
      PROVE  /\ left(n) \in VersionRecords /\ left(n).kept = versions[n].kept
             /\ left(n).chapters = versions[n].chapters /\ left(n).evidence = versions[n].evidence
             /\ left(n).parent = cleared(versions[n].parent)
             /\ left(n).source = cleared(versions[n].source)
  <2>1. /\ versions[n] \in VersionRecords
        /\ cleared(versions[n].parent) \in 0 .. MaxNumber
        /\ cleared(versions[n].source) \in 0 .. MaxNumber
    BY FormalAssumption DEF FormalInv, FormalTypes, VersionRecords
  <2> HIDE DEF cleared
  <2>2. QED
    BY <2>1 DEF VersionRecords
<1> HIDE DEF left, NoVersion
<1>4. versions' \in [Numbers -> VersionRecords]
  BY <1>1, <1>2, <1>3
<1>5. \A n \in Numbers : n \notin Prunable =>
        /\ versions'[n].kept = versions[n].kept
        /\ versions'[n].chapters = versions[n].chapters
        /\ versions'[n].evidence = versions[n].evidence
  BY <1>1, <1>3
<1>6. \A n \in Numbers : n \in Prunable => versions'[n] = NoVersion
  BY <1>1
<1>7. ASSUME NEW n \in Numbers, versions[n].kept, n > current - KeepLatest
      PROVE  n \notin Prunable
  <2> DEFINE newer == {k \in n .. current : versions[k].kept}
  <2>1. n \in Int /\ current \in Int /\ n <= current /\ KeepLatest \in Nat
    BY <1>7, FormalAssumption DEF FormalInv, FormalTypes, Chain, Numbers
  <2>2. IsFiniteSet(n .. current) /\ Cardinality(n .. current) = current - n + 1
    BY <2>1, FS_Interval
  <2>3. newer \in SUBSET (n .. current)
    OBVIOUS
  <2>4. Cardinality(newer) <= current - n + 1 /\ Cardinality(newer) \in Nat
    BY <2>2, <2>3, FS_Subset, FS_CardinalityType
  <2>5. n \in Latest
    BY <1>7, <2>1, <2>4 DEF Latest
  <2>6. QED
    BY <2>5 DEF Prunable
<1>8. current \notin Prunable
  BY <1>7, FormalAssumption DEF FormalInv, FormalTypes, Chain, Numbers
<1>9. Chain'
  <2>1. ASSUME NEW n \in Numbers, ~versions'[n].kept PROVE versions'[n] = NoVersion
    <3>1. CASE n \in Prunable
      BY <1>6, <3>1
    <3>2. CASE n \notin Prunable
      <4>1. versions[n] = NoVersion
        BY <1>5, <2>1, <3>2 DEF FormalInv, Chain
      <4>2. versions[n].parent = 0 /\ versions[n].source = 0 /\ versions[n].chapters = {}
            /\ versions[n].evidence = {} /\ ~versions[n].kept
        BY <1>2, <4>1
      <4>3. left(n) = NoVersion
        BY <4>1, <4>2 DEF left, NoVersion
      <4>4. QED
        BY <1>1, <3>2, <4>3
    <3>3. QED
      BY <3>1, <3>2
  <2>2. ASSUME NEW n \in Numbers, n > current PROVE ~versions'[n].kept
    BY <1>2, <1>5, <1>6, <2>2 DEF FormalInv, Chain
  <2>3. ASSUME NEW n \in Numbers, n <= current, n > current - KeepLatest PROVE versions'[n].kept
    BY <1>5, <1>7, <2>3 DEF FormalInv, Chain
  <2>4. versions'[current].kept
    BY <1>5, <1>8 DEF FormalInv, FormalTypes, Chain
  <2>5. QED
    BY <1>1, <2>1, <2>2, <2>3, <2>4 DEF Chain
<1>10. Links'
  <2> SUFFICES ASSUME NEW n \in Numbers,
                      NEW m \in {versions'[n].parent, versions'[n].source}, m # 0
               PROVE  m \in Numbers /\ m < n /\ versions'[m].kept
    BY DEF Links
  <2>1. n \notin Prunable /\ m \notin Prunable /\ m \in {versions[n].parent, versions[n].source}
    BY <1>1, <1>2, <1>3, <1>6
  <2>2. QED
    BY <1>5, <2>1 DEF FormalInv, Links
<1>11. TextBases' /\ WorkBases'
  <2>1. \A c \in Chapters : chapter[c].text => chapter[c].base \notin Prunable
    BY DEF Prunable, BasesOfText
  <2>2. \A w \in Works : work[w].base \notin Prunable
    BY DEF Prunable, BasesOfWork
  <2>3. QED
    BY <1>1, <1>5, <2>1, <2>2 DEF FormalInv, TextBases, WorkBases
<1>12. Listed'
  BY <1>1, <1>2, <1>5, <1>6 DEF FormalInv, Listed
<1>13. Founded'
  <2> SUFFICES ASSUME ~RestoredBook, ~RemovesAdopted, NEW n \in Numbers,
                      NEW c \in versions'[n].chapters,
                      NEW d \in versions'[chapter'[c].base].chapters
               PROVE  d \in versions'[n].chapters /\ d < c
    BY DEF Founded
  <2>1. n \notin Prunable /\ c \in versions[n].chapters /\ c \in Chapters
    BY <1>2, <1>4, <1>5, <1>6 DEF VersionRecords
  <2>2. chapter[c].text
    BY <2>1 DEF FormalInv, Listed
  <2>3. chapter[c].base \in Numbers /\ chapter[c].base \notin Prunable
    BY <2>1, <2>2 DEF FormalInv, TextBases, Prunable, BasesOfText
  <2>4. d \in versions[chapter[c].base].chapters
    BY <1>1, <1>5, <2>3
  <2>5. QED
    BY <1>5, <2>1, <2>4 DEF FormalInv, Founded
<1>14. Evident'
  BY <1>2, <1>5, <1>6 DEF FormalInv, Evident, EvidenceMatches
<1>15. Placed'
  <2>1. Now'.chapters = Now.chapters
    BY <1>1, <1>5, <1>8 DEF Now, FormalInv, FormalTypes
  <2>2. ChapterRows' = ChapterRows /\ Formal' = Formal
    BY <1>1, <2>1 DEF ChapterRows, Formal
  <2>3. QED
    BY <1>1, <2>1, <2>2 DEF FormalInv, Placed, RowsFollow, Rank
<1>16. FormalTypes' /\ Used'
  BY <1>1, <1>4 DEF FormalInv, FormalTypes, Used
<1>17. QED
  BY <1>9, <1>10, <1>11, <1>12, <1>13, <1>14, <1>15, <1>16 DEF FormalInv

LEMMA AdoptKeeps ==
  ASSUME FormalInv, NEW w \in Works, NEW added \in SUBSET Chapters, Adopt(w, added)
  PROVE  FormalInv'
<1> DEFINE place(c) == Cardinality(Now.chapters) + Rank(c, added)
           nth(c)   == NextOrdinal + Rank(c, added) - 1
           fresh(c) == [row |-> "row", ordinal |-> nth(c),
                        display |-> place(c), revised |-> TRUE, text |-> TRUE, base |-> current]
           new == [Now EXCEPT !.chapters = Now.chapters \cup added,
                              !.evidence = Now.evidence \cup added, !.source = 0]
<1>1. /\ added = {c \in Unused : \E d \in added : c <= d}
      /\ \A c \in added : place(c) <= MaxChapters
      /\ chapter' = [c \in Chapters |-> IF c \in added THEN fresh(c) ELSE chapter[c]]
      /\ work' = [v \in Works |-> IF v = w THEN [work[v] EXCEPT !.status = "adopted"]
                                  ELSE IF v \in LiveWork
                                       THEN [work[v] EXCEPT !.status = "archived"] ELSE work[v]]
      /\ PublishFormal(new) /\ UNCHANGED shelved
  BY DEF Adopt
<1>2. /\ current \in Numbers /\ current \in 0 .. MaxNumber /\ Now \in VersionRecords
      /\ 0 \in 0 .. MaxNumber /\ versions[current].kept /\ Now.chapters \in SUBSET Chapters
  BY FormalAssumption DEF FormalInv, FormalTypes, Numbers, Now, Chain, VersionRecords
<1>3. /\ new \in VersionRecords /\ new.source = 0 /\ new.chapters = Now.chapters \cup added
      /\ new.evidence = Now.evidence \cup added
  BY <1>2 DEF VersionRecords
<1> HIDE DEF new
<1>4. /\ versions' \in [Numbers -> VersionRecords]
      /\ current' \in Numbers /\ current' = current + 1
      /\ \A n \in Numbers : versions[n].kept => n # current' /\ versions'[n] = versions[n]
      /\ \A n \in Numbers : n # current' => versions'[n] = versions[n]
      /\ versions'[current'].kept /\ versions'[current'].chapters = Now.chapters \cup added
      /\ versions'[current'].evidence = Now.evidence \cup added
      /\ Chain' /\ Links'
  BY <1>1, <1>3, Published
<1>5. /\ added \subseteq Unused
      /\ \A c \in added, d \in Unused \ added : c < d
  <2>1. added \subseteq Unused
    BY <1>1
  <2>2. ASSUME NEW c \in added, NEW d \in Unused, ~(c < d) PROVE d \in added
    <3>1. d <= c
      BY <2>1, <2>2, ChapterNumbers DEF Unused
    <3>2. QED
      BY <1>1, <3>1
  <2>3. QED
    BY <2>1, <2>2
<1>6. \A c \in Chapters, d \in Unused : chapter[c].row # "none" => c < d
  BY DEF FormalInv, Used, Unused
<1>7. \A c \in Now.chapters : c \in Chapters /\ chapter[c].row # "none"
  BY <1>2 DEF FormalInv, Listed, Now
<1>8. ASSUME NEW c \in added
      PROVE  /\ nth(c) \in 1 .. c /\ NextOrdinal \in Nat /\ NextOrdinal <= nth(c)
             /\ nth(c) \in 0 .. MaxChapters
             /\ place(c) \in 0 .. MaxChapters
  <2> DEFINE below == {e \in added : e <= c}
  <2>1. /\ NextOrdinal \in Nat \ {0} /\ \A d \in added : NextOrdinal <= d
        /\ c \in Nat /\ c <= MaxChapters
    BY <1>5, NextOrdinalFits, ChapterNumbers DEF FormalInv
  <2>a. \A e \in below : e \in Int /\ NextOrdinal <= e /\ e <= c
    BY <2>1, ChapterNumbers
  <2>3. IsFiniteSet(NextOrdinal .. c) /\ Cardinality(NextOrdinal .. c) = c - NextOrdinal + 1
    BY <2>1, FS_Interval
  <2>5. Rank(c, added) = Cardinality(below)
    BY DEF Rank
  <2> HIDE DEF below
  <2>2. below \in SUBSET (NextOrdinal .. c)
    BY <2>1, <2>a
  <2>4. Cardinality(below) <= c - NextOrdinal + 1
    BY <2>2, <2>3, FS_Subset
  <2>6. Rank(c, added) \in Nat /\ Rank(c, added) >= 1
    BY RankCounts, FormalAssumption
  <2>7. Cardinality(Now.chapters) \in Nat
    BY <1>2, ChaptersFinite
  <2>8. QED
    BY <1>1, <2>1, <2>4, <2>5, <2>6, <2>7, FormalAssumption
<1>9. ASSUME NEW c \in added
      PROVE  /\ fresh(c) \in ChapterRecords /\ fresh(c).row = "row" /\ fresh(c).text = TRUE
             /\ fresh(c).revised = TRUE /\ fresh(c).base = current /\ fresh(c).display = place(c)
             /\ fresh(c).ordinal = nth(c)
  <2> HIDE DEF place, nth
  <2>1. nth(c) \in 0 .. MaxChapters /\ place(c) \in 0 .. MaxChapters
    BY <1>8
  <2>2. QED
    BY <1>2, <2>1 DEF ChapterRecords
<1> HIDE DEF fresh
<1>10. /\ chapter' \in [Chapters -> ChapterRecords]
       /\ \A c \in added : chapter'[c] = fresh(c)
       /\ \A c \in Chapters : c \notin added => chapter'[c] = chapter[c]
  <2> HIDE DEF place, nth
  <2>1. \A c \in added : fresh(c) \in ChapterRecords
    BY <1>9
  <2>2. QED
    BY <1>1, <2>1 DEF FormalInv, FormalTypes
<1>11. Used'
  <2>0. \A a, b \in added : a < b => nth(a) < nth(b)
    <3>1. \A a, b \in added : a < b => /\ Rank(a, added) < Rank(b, added)
                                       /\ Rank(a, added) \in Nat /\ Rank(b, added) \in Nat
      BY RankCounts, FormalAssumption
    <3>2. QED
      BY <1>8, <3>1
  <2> HIDE DEF place, nth
  <2>1. ASSUME NEW a \in Chapters, NEW b \in Chapters,
               chapter'[a].row # "none", chapter'[b].row = "none"
        PROVE  a < b
    <3>1. b \in Unused \ added
      BY <1>9, <1>10, <2>1 DEF Unused
    <3>2. QED
      BY <1>5, <1>6, <1>10, <2>1, <3>1
  <2>2. ASSUME NEW a \in Chapters
        PROVE  /\ chapter'[a].row # "row" => ~chapter'[a].text /\ ~chapter'[a].revised
               /\ chapter'[a].row = "row" => chapter'[a].ordinal \in 1 .. a
    <3>1. CASE a \in added
      BY <1>8, <1>9, <1>10, <3>1
    <3>2. CASE a \notin added
      BY <1>10, <3>2 DEF FormalInv, Used
    <3>3. QED
      BY <3>1, <3>2
  <2>3. ASSUME NEW a \in Chapters, NEW b \in Chapters,
               chapter'[a].row = "row", chapter'[b].row = "row", a < b
        PROVE  chapter'[a].ordinal < chapter'[b].ordinal
    <3>1. CASE a \notin added /\ b \notin added
      BY <1>10, <2>3, <3>1 DEF FormalInv, Used
    <3>2. CASE a \in added /\ b \in added
      <4>1. chapter'[a].ordinal = nth(a) /\ chapter'[b].ordinal = nth(b)
        BY <1>9, <1>10, <3>2
      <4>2. QED
        BY <2>0, <2>3, <3>2, <4>1
    <3>3. CASE a \notin added /\ b \in added
      <4>1. a \in ChapterRows /\ chapter'[a] = chapter[a]
        BY <1>10, <2>3, <3>3 DEF ChapterRows
      <4>2. chapter[a].ordinal < NextOrdinal /\ chapter[a].ordinal \in Nat
        BY <4>1, NextOrdinalFits DEF FormalInv, Used, ChapterRows
      <4>3. chapter'[b].ordinal = nth(b) /\ NextOrdinal <= nth(b) /\ nth(b) \in Nat /\ NextOrdinal \in Nat
        <5>1. nth(b) \in 0 .. MaxChapters /\ NextOrdinal <= nth(b) /\ NextOrdinal \in Nat
          BY <1>8, <3>3
        <5>2. chapter'[b].ordinal = nth(b)
          BY <1>9, <1>10, <3>3
        <5>3. QED
          BY <5>1, <5>2, FormalAssumption
      <4>4. QED
        BY <4>1, <4>2, <4>3
    <3>4. CASE a \in added /\ b \notin added
      <4>1. b < a
        BY <1>5, <1>6, <1>10, <2>3, <3>4
      <4>2. QED
        BY <2>3, <4>1, ChapterNumbers
    <3>5. QED
      BY <3>1, <3>2, <3>3, <3>4
  <2>4. QED
    BY <2>1, <2>2, <2>3 DEF Used
<1>12. TextBases'
  <2> SUFFICES ASSUME NEW c \in Chapters, chapter'[c].text
               PROVE  chapter'[c].base \in Numbers /\ versions'[chapter'[c].base].kept
    BY DEF TextBases
  <2>1. CASE c \in added
    <3>1. chapter'[c].base = current
      BY <1>9, <1>10, <2>1
    <3>2. QED
      BY <1>2, <1>4, <3>1
  <2>2. CASE c \notin added
    <3>1. chapter'[c] = chapter[c]
      BY <1>10, <2>2
    <3>2. QED
      BY <1>4, <3>1 DEF FormalInv, TextBases
  <2>3. QED
    BY <2>1, <2>2
<1>13. \A n \in Numbers : versions[n].chapters \subseteq Chapters \ added
  BY <1>5 DEF FormalInv, FormalTypes, VersionRecords, Listed, Unused
<1>14. Now.chapters \cap added = {}
  BY <1>2, <1>13 DEF Now
<1>15. Listed'
  <2> SUFFICES ASSUME NEW n \in Numbers, NEW c \in versions'[n].chapters
               PROVE  /\ chapter'[c].row # "none"
                      /\ chapter'[c].row = "row" => chapter'[c].text
                      /\ ~RemovesAdopted => chapter'[c].row = "row"
    BY DEF Listed
  <2>1. CASE c \in added
    BY <1>9, <1>10, <2>1
  <2>2. CASE c \notin added
    <3>1. \E k \in Numbers : c \in versions[k].chapters
      BY <1>2, <1>4, <2>2 DEF Now
    <3>2. QED
      BY <1>10, <1>13, <3>1 DEF FormalInv, Listed
  <2>3. QED
    BY <2>1, <2>2
<1>16. Founded'
  <2> SUFFICES ASSUME ~RestoredBook, ~RemovesAdopted, NEW n \in Numbers,
                      NEW c \in versions'[n].chapters,
                      NEW d \in versions'[chapter'[c].base].chapters
               PROVE  d \in versions'[n].chapters /\ d < c
    BY DEF Founded
  <2>1. CASE c \in added
    <3>1. d \in Now.chapters
      <4>1. chapter'[c].base = current
        BY <1>9, <1>10, <2>1
      <4>2. versions'[current] = versions[current]
        BY <1>2, <1>4
      <4>3. QED
        BY <4>1, <4>2 DEF Now
    <3>2. n = current'
      BY <1>4, <1>13, <2>1
    <3>3. QED
      BY <1>4, <1>5, <1>6, <1>7, <2>1, <3>1, <3>2
  <2>2. CASE c \notin added
    <3>1. PICK k \in Numbers : c \in versions[k].chapters /\ versions[k].chapters \subseteq versions'[n].chapters
      BY <1>2, <1>4, <2>2 DEF Now
    <3>2. c \in Chapters /\ chapter[c].text /\ chapter'[c] = chapter[c]
      BY <1>10, <1>13, <2>2, <3>1 DEF FormalInv, Listed
    <3>3. d \in versions[chapter[c].base].chapters
      BY <1>4, <3>2 DEF FormalInv, TextBases
    <3>4. QED
      BY <3>1, <3>3 DEF FormalInv, Founded
  <2>3. QED
    BY <2>1, <2>2
<1>17. Evident'
  BY <1>2, <1>4 DEF FormalInv, Evident, EvidenceMatches, Now
<1>18. Placed'
  <2> SUFFICES ASSUME ~RemovesAdopted, NEW c \in ChapterRows'
               PROVE  IF c \in Now'.chapters
                      THEN chapter'[c].revised /\ chapter'[c].display = Rank(c, Formal')
                      ELSE ~chapter'[c].revised /\ (chapter'[c].text => chapter'[c].display = 0)
    BY DEF Placed, RowsFollow, Rank
  <2>1. Formal = Now.chapters
    BY <1>2 DEF Formal, ChapterRows, FormalInv, Listed, Now
  <2>2. Now'.chapters = Now.chapters \cup added
    BY <1>4 DEF Now
  <2>3. Formal' = Now.chapters \cup added
    <3>1. \A d \in Now.chapters \cup added : d \in Chapters /\ chapter'[d].row = "row"
      BY <1>2, <1>9, <1>10, <1>14, <2>1 DEF Formal, ChapterRows
    <3>2. QED
      BY <2>2, <3>1 DEF Formal, ChapterRows
  <2>4. \A a \in Now.chapters, b \in added : a < b
    BY <1>5, <1>6, <1>7
  <2>5. /\ \A a \in Now.chapters : Rank(a, Now.chapters \cup added) = Rank(a, Now.chapters)
        /\ \A b \in added : Rank(b, Now.chapters \cup added) = place(b)
    BY <1>2, <2>4, RankExtends
  <2>6. c \in Chapters /\ (c \notin added => c \in ChapterRows)
    BY <1>10 DEF ChapterRows
  <2> HIDE DEF place
  <2>7. CASE c \in added
    BY <1>9, <1>10, <2>2, <2>3, <2>5, <2>7
  <2>8. CASE c \notin added
    BY <1>10, <2>1, <2>2, <2>3, <2>5, <2>6, <2>8 DEF FormalInv, Placed, RowsFollow
  <2>9. QED
    BY <2>7, <2>8
<1>19. work' \in [Works -> WorkRecords] /\ WorkBases'
  <2>1. ASSUME NEW v \in Works
        PROVE  /\ work'[v] \in WorkRecords
               /\ work'[v].base = work[v].base /\ work'[v].status # "live"
    BY <1>1 DEF FormalInv, FormalTypes, WorkRecords, LiveWork
  <2>2. work' \in [Works -> WorkRecords]
    BY <1>1, <2>1
  <2>3. ASSUME NEW v \in Works
        PROVE  work'[v].base # 0 =>
                 work'[v].base \in Numbers /\ versions'[work'[v].base].kept
    <3>1. work[v].base # 0 => work[v].base \in Numbers /\ versions[work[v].base].kept
      BY DEF FormalInv, WorkBases
    <3>2. work'[v].base = work[v].base
      BY <2>1
    <3>3. QED
      BY <1>4, <3>1, <3>2
  <2>4. WorkBases'
    BY <2>1, <2>3 DEF WorkBases
  <2>5. QED
    BY <2>2, <2>4
<1>20. FormalTypes'
  BY <1>1, <1>4, <1>10, <1>19 DEF FormalInv, FormalTypes
<1>21. QED
  BY <1>4, <1>11, <1>12, <1>15, <1>16, <1>17, <1>18, <1>19, <1>20 DEF FormalInv

LEMMA FormalStart == InitFormal => FormalInv
<1> SUFFICES ASSUME InitFormal PROVE FormalInv
  OBVIOUS
<1> DEFINE book  == IF RestoredBook THEN {1, 2} ELSE {}
           first == [NoVersion EXCEPT !.kept = TRUE, !.chapters = book, !.evidence = book]
           whole(c) == [row |-> "row", ordinal |-> c, display |-> c, revised |-> TRUE,
                        text |-> TRUE, base |-> 1]
           session == [NoWork EXCEPT !.status = "live", !.base = 1]
<1>1. /\ versions = [n \in Numbers |-> IF n = 1 THEN first ELSE NoVersion]
      /\ chapter = [c \in Chapters |-> IF c \in book THEN whole(c) ELSE NoChapter]
      /\ work = [w \in Works |-> IF w \in Legacy THEN session ELSE NoWork]
      /\ current = 1 /\ shelved = FALSE
  BY DEF InitFormal
<1>2. /\ 1 \in Numbers /\ 1 \in 0 .. MaxNumber /\ 0 \in 0 .. MaxNumber /\ 0 \in 0 .. MaxChapters
      /\ \A n \in Numbers : n \in Nat /\ n >= 1
      /\ \A c \in Chapters : c \in 0 .. MaxChapters /\ c \in 1 .. c
  BY FormalAssumption DEF Numbers, Chapters
<1>3. book \in SUBSET Chapters /\ book \subseteq {1, 2} /\ (RestoredBook => book = {1, 2})
      /\ (~RestoredBook => book = {})
  BY FormalAssumption DEF Chapters
<1>4. \A c \in book, d \in Chapters : d \notin book => c < d
  BY <1>3, FormalAssumption DEF Chapters
<1> HIDE DEF book
<1>5. /\ first \in VersionRecords /\ first.kept /\ first.chapters = book
      /\ first.evidence = book /\ first.parent = 0 /\ first.source = 0
      /\ NoVersion \in VersionRecords /\ ~NoVersion.kept /\ NoVersion.chapters = {}
      /\ NoVersion.evidence = {} /\ NoVersion.parent = 0 /\ NoVersion.source = 0
  BY <1>2, <1>3 DEF NoVersion, VersionRecords
<1>6. /\ session \in WorkRecords /\ session.base = 1
      /\ NoWork \in WorkRecords /\ NoWork.base = 0 /\ NoWork.status = "none"
  BY <1>2 DEF NoWork, WorkRecords
<1>7. /\ NoChapter \in ChapterRecords /\ NoChapter.row = "none" /\ ~NoChapter.text
      /\ ~NoChapter.revised
      /\ \A c \in Chapters : whole(c) \in ChapterRecords
  BY <1>2 DEF NoChapter, ChapterRecords
<1> HIDE DEF first, session, NoVersion, NoWork, NoChapter
<1>8. FormalTypes
  BY <1>1, <1>2, <1>5, <1>6, <1>7 DEF FormalTypes
<1>9. Chain /\ Links
  BY <1>1, <1>2, <1>5, FormalAssumption DEF Chain, Links
<1>10. TextBases /\ WorkBases
  BY <1>1, <1>2, <1>5, <1>6, <1>7 DEF TextBases, WorkBases
<1>11. Used
  BY <1>1, <1>2, <1>4, <1>7, ChapterNumbers DEF Used
<1>12. Listed
  BY <1>1, <1>3, <1>5, <1>7 DEF Listed
<1>13. Founded /\ Evident
  BY <1>1, <1>3, <1>5 DEF Founded, Evident, EvidenceMatches
<1>14. Placed
  <2>1. Now.chapters = book /\ ChapterRows = book /\ Formal = book
    BY <1>1, <1>2, <1>3, <1>5, <1>7 DEF Now, ChapterRows, Formal
  <2>2. ASSUME NEW c \in book PROVE Rank(c, book) = c
    <3>1. book = {1, 2}
      BY <1>3, <2>2
    <3>2. {e \in book : e <= c} = 1 .. c /\ c \in Nat /\ c >= 1
      BY <2>2, <3>1
    <3>3. Cardinality(1 .. c) = c
      BY <3>2, FS_Interval
    <3>4. QED
      BY <3>2, <3>3 DEF Rank
  <2>3. QED
    BY <1>1, <1>3, <2>1, <2>2 DEF Placed, RowsFollow
<1>15. QED
  BY <1>8, <1>9, <1>10, <1>11, <1>12, <1>13, <1>14 DEF FormalInv

LEMMA FormalStep == FormalInv /\ [NextFormal]_formalVars => FormalInv'
<1> SUFFICES ASSUME FormalInv, [NextFormal]_formalVars PROVE FormalInv'
  OBVIOUS
<1>1. CASE UNCHANGED formalVars
  <2>1. UNCHANGED <<versions, current, chapter, work, shelved>>
    BY <1>1 DEF formalVars
  <2>2. work' \in [Works -> WorkRecords] /\ WorkBases' /\ shelved' \in BOOLEAN
    BY <2>1 DEF FormalInv, FormalTypes, WorkBases
  <2>3. QED
    BY <2>1, <2>2, WorkChanges
<1>2. CASE NextFormal
  BY <1>2, BatchKeeps, AdoptKeeps, CreateKeeps, TruncateKeeps, DeleteKeeps, RollbackKeeps,
     RestartKeeps, EditKeeps, RenameKeeps, PruneKeeps, ShelveKeeps DEF NextFormal
<1>3. QED
  BY <1>1, <1>2

LEMMA FormalAlways == FormalSpec => []FormalInv
BY FormalStart, FormalStep, PTL DEF FormalSpec

-----------------------------------------------------------------------------

\* Every variable of the version chain keeps its type, ordinals and places within the number
\* of chapters ever made (services/workflow.py).
THEOREM FormalTyped == FormalSpec => []FormalTypeOK
<1>1. FormalInv => FormalTypeOK
  BY DEF FormalInv, FormalTypes, Chain, FormalTypeOK
<1>2. QED
  BY <1>1, FormalAlways, PTL

\* Unless the book was restored or its author deletes what a truncation took out, the state of
\* every version has the evidence of its chapters, after any sequence of adoptions,
\* truncations, rollbacks and new starts (workflow_state.py truncate_story_state).
THEOREM EvidenceFollows ==
  ~RestoredBook /\ ~RemovesAdopted => (FormalSpec => []EvidenceMatches)
<1> SUFFICES ASSUME ~RestoredBook, ~RemovesAdopted PROVE FormalSpec => []EvidenceMatches
  OBVIOUS
<1>1. FormalInv => EvidenceMatches
  BY DEF FormalInv, Evident
<1>2. QED
  BY <1>1, FormalAlways, PTL

\* Every unfinished workspace is based on the current version of a project that is not archived
\* (formal_version_sync.py).
THEOREM WorkCurrent == FormalSpec => []WorkIsCurrent
<1>1. FormalInv => WorkIsCurrent
  BY DEF FormalInv, WorkBases, WorkIsCurrent, LiveWork
<1>2. QED
  BY <1>1, FormalAlways, PTL

\* No pruning takes the base of a text or of a workspace, a version that another names, or one
\* of the latest, whatever the author deletes (version_maintenance.py).
THEOREM BasesSurvive == FormalSpec => []BasesKept
<1>1. FormalInv => BasesKept
  BY DEF FormalInv, Chain, Links, TextBases, WorkBases, BasesKept
<1>2. QED
  BY <1>1, FormalAlways, PTL

\* Unless authors delete what a truncation took out, the rows of the chapters are those of the
\* current version in their places, and what is based on stays
\* (workflow_persistence.py _renumber_formal_chapters, version_maintenance.py).
THEOREM VersionsSound == ~RemovesAdopted => (FormalSpec => []VersionsAreSound)
<1> SUFFICES ASSUME ~RemovesAdopted PROVE FormalSpec => []VersionsAreSound
  OBVIOUS
<1>1. FormalInv => VersionsAreSound
  BY DEF FormalInv, Placed, Chain, Links, TextBases, WorkBases, BasesKept, VersionsAreSound
<1>2. QED
  BY <1>1, FormalAlways, PTL
=============================================================================
