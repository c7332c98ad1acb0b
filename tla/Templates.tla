------------------------------- MODULE Templates -------------------------------
(***************************************************************************)
(* The author's default prompt templates: files beside the provider        *)
(* settings (services/prompt_template_store.py), the second store of the   *)
(* stage craft that starts from an adaptation of the first                 *)
(* (craft_template_store.py, generation/craft_templates.py), the page that *)
(* edits them (api/routes/prompt_templates.py) and the previews that       *)
(* freeze them (generation/template_binding.py).                           *)
(*                                                                         *)
(* A store is a pointer file with the current bundle and one file per      *)
(* version.  Both are written atomically, one after the other, under a     *)
(* file lock that a dying process lets go.  Texts are abstracted to whose  *)
(* words they are and which fields they place.                             *)
(***************************************************************************)
EXTENDS Naturals, Sequences, SequencesExt, Functions

CONSTANTS
    Pages,          \* open pages, commands and processes, each doing one thing at a time
    Previews,       \* previews of a stage or of a revision
    PublishedTexts, \* the templates of a published snapshot
    EarlierTexts,   \* what an earlier release may have saved as templates
    OwnTexts,       \* texts an author saves, by variant
    MaxRevisions,   \* search bound: saved revisions, fewer after a death
    MaxDeaths       \* search bound: processes that die

Stores   == {"legacy", "craft"}
Variants == {"chief", "title"}
TextType == [words : {"builtin", "own", "adapted"}, fields : SUBSET {"task", "scale", "style"}]
NoPage   == "no page"

ASSUME TemplatesAssumption ==
    /\ PublishedTexts \in UNION {[V -> TextType] : V \in SUBSET Variants}
    /\ EarlierTexts \subseteq UNION {[V -> TextType] : V \in SUBSET Variants}
    /\ OwnTexts \in [Variants -> SUBSET TextType]
    /\ MaxRevisions \in Nat /\ MaxDeaths \in Nat /\ NoPage \notin Pages \cup Previews

VARIABLES
    pointer,        \* current.json of each store
    records,       \* the version files of each store, by revision
    storeLock,      \* who holds the lock file of each store
    todo,           \* the files each holder has still to write
    purpose,        \* the preview that waits for the defaults
    viewed,          \* the revision each page shows
    frozen,         \* the bundle each preview froze
    saves,          \* revisions made so far
    line,           \* history: what was last replaced by what as the current craft bundle
    deaths

templatesVars == <<pointer, records, storeLock, todo, purpose, viewed, frozen, saves, line, deaths>>

-----------------------------------------------------------------------------
(* Texts.  Every field may stand once; the required ones must.             *)

RequiredFields(store, v) == {"task"} \cup (IF store = "craft" /\ v = "chief" THEN {"scale"} ELSE {})
AllowedFields(store, v)  == RequiredFields(store, v) \cup (IF v = "chief" THEN {"style"} ELSE {})

ValidText(store, v, text) ==
    /\ RequiredFields(store, v) \subseteq text.fields
    /\ text.fields \subseteq AllowedFields(store, v)

(* An earlier release saved nothing else either.                           *)
ASSUME EarlierAssumption ==
    \A earlier \in EarlierTexts : \A v \in DOMAIN earlier : ValidText("legacy", v, earlier[v])

Builtin == [words |-> "builtin", fields |-> {}]    \* no template: the built-in text
DefaultText(store, v) == [words |-> "builtin", fields |-> AllowedFields(store, v)]

AdaptWords(v, text) == [text EXCEPT !.words = "adapted"]
AdaptText(v, text) ==
    IF text = DefaultText("legacy", v) THEN DefaultText("craft", v)
    ELSE [words  |-> IF v = "chief" THEN "adapted" ELSE text.words,
          fields |-> text.fields \cup RequiredFields("craft", v)]

-----------------------------------------------------------------------------
(* Bundles.                                                                *)

NoBundle == [revision |-> <<"none">>, templates |-> <<>>, settings |-> <<>>]
BundleOf(revision, templates, settings) ==
    [revision |-> revision, templates |-> templates, settings |-> settings]

CheckedBundle(store, b) == \A v \in DOMAIN b.templates : ValidText(store, v, b.templates[v])

LegacyCurrent == IF pointer["legacy"] = NoBundle THEN BundleOf(<<"builtin">>, <<>>, <<>>) ELSE pointer["legacy"]

(* An adapted bundle names what it was made from: its revision is computed *)
(* from that.                                                              *)
AdaptedBundle(b) ==
    BundleOf(<<"adapted", b>>, [v \in DOMAIN b.templates |-> AdaptText(v, b.templates[v])], <<>>)

CraftCurrent == IF pointer["craft"] = NoBundle THEN AdaptedBundle(LegacyCurrent) ELSE pointer["craft"]

With(f, v, value)  == [u \in DOMAIN f \cup {v} |-> IF u = v THEN value ELSE f[u]]
Without(f, v)      == Restrict(f, DOMAIN f \ {v})
NewRevision        == <<"saved", saves + 1>>

-----------------------------------------------------------------------------
(* Writing.  Files are written one after the other while the lock is held. *)

StoreFile(store, name, b) == [store |-> store, name |-> name, bundle |-> b]

PersistVersion(store, b) ==
    IF b.revision \in DOMAIN records[store] THEN <<>> ELSE <<StoreFile(store, "version", b)>>
PointerFirst(store, b)    == <<StoreFile(store, "current", b), StoreFile(store, "version", b)>>
SetCurrent(store, b)      == Append(PersistVersion(store, b), StoreFile(store, "current", b))

(* A version on file with the same name must be the same.                  *)
SameVersion(store, b) ==
    b.revision \in DOMAIN records[store] => records[store][b.revision] = b

PageIdle(p)        == todo[p] = <<>> /\ purpose[p] = NoPage
Released(p)    == [s \in Stores |-> IF storeLock[s] = p THEN NoPage ELSE storeLock[s]]
TakeLock(p, s) == storeLock[s] = NoPage /\ storeLock' = [storeLock EXCEPT ![s] = p]

TemplatesTypeOK ==
    /\ storeLock \in [Stores -> Pages \cup {NoPage}] /\ purpose \in [Pages -> Previews \cup {NoPage}]
    /\ \A p \in Pages : \A i \in DOMAIN todo[p] : storeLock[todo[p][i].store] = p
    /\ saves \in 0 .. MaxRevisions /\ deaths \in 0 .. MaxDeaths

InitTemplates ==
    /\ \E earlier \in EarlierTexts \cup {<<>>} :
         LET b == BundleOf(<<"earlier">>, earlier, <<>>) IN
         /\ pointer = [s \in Stores |-> IF s = "legacy" /\ earlier # <<>> THEN b ELSE NoBundle]
         /\ records = [s \in Stores |-> IF s = "legacy" /\ earlier # <<>> THEN With(<<>>, b.revision, b) ELSE <<>>]
    /\ storeLock = [s \in Stores |-> NoPage]
    /\ todo = [p \in Pages |-> <<>>] /\ purpose = [p \in Pages |-> NoPage]
    /\ viewed = [p \in Pages |-> NoBundle.revision]
    /\ frozen = [w \in Previews |-> <<>>]
    /\ saves = 0 /\ line = <<>> /\ deaths = 0

(* One atomic write.  With the last one the lock is released.              *)
Replacement(p, b) ==
    [viewed |-> IF purpose[p] = NoPage THEN viewed[p] ELSE NoBundle.revision,
     before |-> pointer["craft"], new |-> b]

WriteVersion(p) ==
    LET f == Head(todo[p]) IN
    /\ f.name = "version"
    /\ records' = [records EXCEPT ![f.store] = With(@, f.bundle.revision, f.bundle)]
    /\ UNCHANGED <<pointer, line>>

WritePointer(p) ==
    LET f == Head(todo[p]) IN
    /\ f.name = "current"
    /\ pointer' = [pointer EXCEPT ![f.store] = f.bundle]
    /\ line' = IF f.store = "craft" THEN <<Replacement(p, f.bundle)>> ELSE line
    /\ UNCHANGED records

WriteFile(p) ==
    /\ todo[p] # <<>> /\ (WriteVersion(p) \/ WritePointer(p))
    /\ todo' = [todo EXCEPT ![p] = Tail(@)]
    /\ storeLock' = IF Len(todo[p]) = 1 /\ purpose[p] = NoPage THEN Released(p) ELSE storeLock
    /\ UNCHANGED <<purpose, viewed, frozen, saves, deaths>>

(* seed_from, at the start of a container, before it serves: the published *)
(* snapshot if there are no defaults.  The lock may be taken: the start    *)
(* fails.                                                                  *)
SeedFrom(p) ==
    /\ PageIdle(p) /\ pointer["legacy"] = NoBundle /\ TakeLock(p, "legacy")
    /\ LET b == BundleOf(<<"published">>, PublishedTexts, <<>>) IN
         /\ CheckedBundle("legacy", b) /\ SameVersion("legacy", b)
         /\ todo' = [todo EXCEPT ![p] = SetCurrent("legacy", b)]
    /\ UNCHANGED <<pointer, records, purpose, viewed, frozen, saves, line, deaths>>

(* get_templates.                                                          *)
LoadPage(p) ==
    /\ PageIdle(p) /\ viewed[p] # CraftCurrent.revision
    /\ viewed' = [viewed EXCEPT ![p] = CraftCurrent.revision]
    /\ UNCHANGED <<pointer, records, storeLock, todo, purpose, frozen, saves, line, deaths>>

(* save, with a text of the author or one of a version on record           *)
(* (get_version).  The parent is written first, even if it was only        *)
(* computed.                                                               *)
TextsOnRecord(v) ==
    {b.templates[v] : b \in {c \in UNION {Range(records[s]) : s \in Stores} : v \in DOMAIN c.templates}}

AnyPage(p)  == viewed[p] # NoBundle.revision
Expected(p) == viewed[p] = CraftCurrent.revision
ParentOf(b) == PersistVersion("craft", b)

(* Of the settings only the limit of new characters, which the chief has.  *)
SettingsChanges(v) == {"keep"} \cup (IF v = "chief" THEN {"clear", "few"} ELSE {})
SettingsDropped(b, v, change) ==
    IF change \in {"keep", "clear"} THEN <<>> ELSE With(<<>>, v, change)
SettingsOf(b, v, change) ==
    CASE change = "keep" -> b.settings [] change = "clear" -> Without(b.settings, v)
      [] OTHER -> With(b.settings, v, change)

SavedBundle(b, v, text, change) ==
    BundleOf(NewRevision,
             IF text = Builtin THEN Without(b.templates, v) ELSE With(b.templates, v, text),
             SettingsOf(b, v, change))

SaveTemplate(p, v) ==
    /\ PageIdle(p) /\ saves + deaths < MaxRevisions
    /\ Expected(p) /\ SameVersion("craft", CraftCurrent) /\ TakeLock(p, "craft")
    /\ \E text \in {Builtin} \cup OwnTexts[v] \cup TextsOnRecord(v), change \in SettingsChanges(v) :
         LET b     == CraftCurrent
             saved == SavedBundle(b, v, text, change)
         IN  /\ text = Builtin \/ ValidText("craft", v, text)
             /\ [saved EXCEPT !.revision = b.revision] # b      \* search bound: a save changes something
             /\ todo' = [todo EXCEPT ![p] = ParentOf(b) \o SetCurrent("craft", saved)]
             /\ saves' = saves + 1
    /\ UNCHANGED <<pointer, records, purpose, viewed, frozen, line, deaths>>

(* install, for the preview of a stage with the craft contract: the        *)
(* computed defaults become the current ones.                              *)
InstallDefaults(p, w) ==
    /\ PageIdle(p) /\ frozen[w] = <<>> /\ \A q \in Pages : purpose[q] # w
    /\ TakeLock(p, "craft") /\ SameVersion("craft", CraftCurrent)
    /\ purpose' = [purpose EXCEPT ![p] = w]
    /\ todo' = [todo EXCEPT ![p] = IF pointer["craft"] = NoBundle THEN SetCurrent("craft", CraftCurrent) ELSE <<>>]
    /\ UNCHANGED <<pointer, records, viewed, frozen, saves, line, deaths>>

(* defaults, after the files are written: a bundle without content is not  *)
(* frozen, the preview then uses the built-in texts.                       *)
Content(b) == IF b.templates = <<>> /\ b.settings = <<>> THEN NoBundle ELSE b

FreezeDefaults(p) ==
    /\ purpose[p] # NoPage /\ todo[p] = <<>>
    /\ frozen' = [frozen EXCEPT ![purpose[p]] = <<Content(CraftCurrent), "craft">>]
    /\ purpose' = [purpose EXCEPT ![p] = NoPage]
    /\ storeLock' = Released(p)
    /\ UNCHANGED <<pointer, records, todo, viewed, saves, line, deaths>>

(* The preview of a stage with an earlier contract: read, never installed. *)
FreezeLegacy(p, w) ==
    /\ PageIdle(p) /\ frozen[w] = <<>> /\ \A q \in Pages : purpose[q] # w
    /\ frozen' = [frozen EXCEPT ![w] = <<Content(LegacyCurrent), "legacy">>]
    /\ UNCHANGED <<pointer, records, storeLock, todo, purpose, viewed, saves, line, deaths>>

(* The process dies; the lock file is closed with it.                      *)
ProcessDies(p) ==
    /\ ~PageIdle(p) /\ deaths < MaxDeaths /\ saves + deaths < MaxRevisions
    /\ deaths' = deaths + 1
    /\ storeLock' = Released(p)
    /\ todo' = [todo EXCEPT ![p] = <<>>] /\ purpose' = [purpose EXCEPT ![p] = NoPage]
    /\ UNCHANGED <<pointer, records, viewed, frozen, saves, line>>

NextTemplates ==
    \/ \E p \in Pages : WriteFile(p) \/ SeedFrom(p) \/ LoadPage(p) \/ FreezeDefaults(p) \/ ProcessDies(p)
    \/ \E p \in Pages, v \in Variants : SaveTemplate(p, v)
    \/ \E p \in Pages, w \in Previews : InstallDefaults(p, w) \/ FreezeLegacy(p, w)

-----------------------------------------------------------------------------
OnRecord(store, b) == b.revision \in DOMAIN records[store] /\ records[store][b.revision] = b

(* Whatever is current, and whatever a preview froze, can be looked up in  *)
(* the history unchanged, however processes died: a stage shows later      *)
(* which texts it was written with.                                        *)
BundlesOnRecord ==
    /\ \A s \in Stores : pointer[s] # NoBundle => OnRecord(s, pointer[s])
    /\ \A w \in Previews : (frozen[w] # <<>> /\ frozen[w][1] # NoBundle) => OnRecord(frozen[w][2], frozen[w][1])

(* Every version on file can be read again: _read checks the texts and     *)
(* falls back to nothing.                                                  *)
RecordsReadable == \A s \in Stores : \A r \in DOMAIN records[s] : CheckedBundle(s, records[s][r])

(* What replaces a current bundle continues the one its author saw, and    *)
(* changes one template: no save of another page is lost, no template and  *)
(* no setting of another role with it.                                     *)
Same(f, g, v) == (v \in DOMAIN f) = (v \in DOMAIN g) /\ (v \in DOMAIN f => f[v] = g[v])
OneChange(b, c) ==
    \E v \in Variants : \A u \in Variants \ {v} : Same(b.templates, c.templates, u) /\ Same(b.settings, c.settings, u)
NoSaveLost ==
    \A i \in DOMAIN line : LET e == line[i] IN
        e.before # NoBundle => e.viewed = e.before.revision /\ OneChange(e.before, e.new)

TemplatesAreSound == BundlesOnRecord /\ RecordsReadable /\ NoSaveLost

SpecTemplates == InitTemplates /\ [][NextTemplates]_templatesVars
=============================================================================
