--------------------------- MODULE ReferenceStyles ---------------------------
(***************************************************************************)
(* Reference styles (services/reference_styles.py): an author registers a  *)
(* text on disk, judges passages of it, has a profile of abstract rules    *)
(* drafted from those that were approved, and activates it; a stage is     *)
(* given the active profile of its story or the global default             *)
(* (generation/service.py, preview).                                       *)
(*                                                                         *)
(* The text is never stored: rows keep hashes and offsets, and the file is *)
(* read again, and checked against its hash, whenever its words are used.  *)
(* Commands take no lock: each reads first and writes later.               *)
(***************************************************************************)
EXTENDS Naturals, FiniteSets, Sequences

CONSTANTS
    Stories,        \* projects
    Texts,          \* for each content of the file, the passages that qualify
    Spoilt,         \* chapters of a content that are excluded: <<content, chapter>>
    Categories,          \* categories of samples
    Quota,          \* SAMPLE_QUOTAS
    Dimensions,     \* STYLE_DIMENSIONS
    Desks,          \* commands that may be under way at a time
    MaxProfiles,    \* search bound
    MaxReviews,     \* search bound
    NoText, NoStory, FreeDesk

ASSUME TextsAssumption ==
    /\ Quota \in Nat /\ NoText \notin DOMAIN Texts /\ NoStory \notin Stories
    /\ \A c \in DOMAIN Texts :
         /\ IsFiniteSet(Texts[c])
         /\ Texts[c] \subseteq [chapter : Nat, start : Nat, kind : Categories, score : Nat]
         /\ \A s, t \in Texts[c] : s = t \/ <<s.kind, s.chapter, s.start>> # <<t.kind, t.chapter, t.start>>

VARIABLES
    file,           \* content at the registered path
    manifests,      \* contents registered by each story, {NoText} once it is deleted
    samples,        \* reference_style_samples, by an id that is the same for every story
    styles,         \* reference_style_profiles, in the order they were written
    globalStyle,    \* global_reference_style_defaults
    desks,          \* what each command under way has read
    reviews         \* judgements so far, for the bound

styleVars == <<file, manifests, samples, styles, globalStyle, desks, reviews>>

Contents == DOMAIN Texts
Statuses == {"candidate", "approved", "excluded"}

-----------------------------------------------------------------------------
(* generate_candidates                                                     *)

Qualified(c) == {s \in Texts[c] : <<c, s.chapter>> \notin Spoilt}

Outranks(s, t) ==
    \/ s.score > t.score
    \/ s.score = t.score /\ s.chapter < t.chapter
    \/ s.score = t.score /\ s.chapter = t.chapter /\ s.start < t.start

(* One passage of every chapter comes before a second one of any.          *)
FirstOfChapter(S, s) == \A t \in S : t.chapter = s.chapter => s = t \/ Outranks(s, t)

OutranksOnly(S, s, t) == Outranks(s, t)
DiverseFirst(S, s, t) ==
    IF FirstOfChapter(S, s) <=> FirstOfChapter(S, t) THEN Outranks(s, t) ELSE FirstOfChapter(S, s)

Candidates(c, kind) ==
    LET pool == {s \in Qualified(c) : s.kind = kind}
    IN  {s \in pool : Cardinality({t \in pool : DiverseFirst(pool, t, s)}) < Quota}

CandidatesOf(c) == UNION {Candidates(c, kind) : kind \in Categories}

(* The id of a sample is made of the content and the place in it.          *)
SampleIds == UNION {{c} \X CandidatesOf(c) : c \in Contents}

NoSample == [owner |-> NoStory, status |-> "candidate", likes |-> {}]

-----------------------------------------------------------------------------
Present == {n \in DOMAIN styles : styles[n].story # NoStory}
OfStory(p) == {n \in Present : styles[n].story = p}
Approved(p, c) == {id \in SampleIds : id[1] = c /\ samples[id].owner = p /\ samples[id].status = "approved"}
LatestVersion(p) == CHOOSE v \in 0..Len(styles) :
                        /\ \A n \in OfStory(p) : styles[n].version <= v
                        /\ v = 0 \/ \E n \in OfStory(p) : styles[n].version = v
ActiveOf(p) == {n \in OfStory(p) : styles[n].status = "active"}

InitStyles ==
    /\ file \in Contents
    /\ manifests = [p \in Stories |-> {}]
    /\ samples = [id \in SampleIds |-> NoSample]
    /\ styles = <<>> /\ globalStyle = 0
    /\ desks = [d \in Desks |-> FreeDesk]
    /\ reviews = 0

(* The file is outside the program: it may be edited or moved at any time. *)
FileChanges(c) ==
    /\ file' = c /\ c # file
    /\ UNCHANGED <<manifests, samples, styles, globalStyle, desks, reviews>>

(* Registered again, a content gets no new rows. Registered by another     *)
(* story, it runs into the ids of the first, and the command fails.        *)
Register(p) ==
    /\ file # NoText /\ {file, NoText} \cap manifests[p] = {}
    /\ \A id \in SampleIds : id[1] = file => samples[id].owner = NoStory
    /\ manifests' = [manifests EXCEPT ![p] = @ \cup {file}]
    /\ samples' = [id \in SampleIds |-> IF id[1] = file THEN [NoSample EXCEPT !.owner = p] ELSE samples[id]]
    /\ UNCHANGED <<file, styles, globalStyle, desks, reviews>>

ReviewSample(p, id, status, likes) ==
    /\ samples[id].owner = p /\ reviews < MaxReviews
    /\ status = "approved" => likes # {}
    /\ samples' = [samples EXCEPT ![id] = [owner |-> p, status |-> status, likes |-> likes]]
    /\ reviews' = reviews + 1
    /\ UNCHANGED <<file, manifests, styles, globalStyle, desks>>

-----------------------------------------------------------------------------
(* Commands that read and then write.                                      *)

Take(d, command) ==
    /\ desks[d] = FreeDesk
    /\ desks' = [desks EXCEPT ![d] = command]
    /\ UNCHANGED <<file, manifests, samples, styles, globalStyle, reviews>>

Leave(d) == desks' = [desks EXCEPT ![d] = FreeDesk]

Command(op, p, n, seen, rules, version) ==
    [op |-> op, story |-> p, style |-> n, seen |-> seen, rules |-> rules, version |-> version]

RulesFrom(approved) ==
    {[dimension |-> x, evidence |-> {id \in approved : x \in samples[id].likes}] : x \in Dimensions}

(* create_draft: the file must still be what was registered, and every     *)
(* kind must have an approved passage.                                     *)
BeginDraft(d, p, c) ==
    LET approved == Approved(p, c)
        rules    == {r \in RulesFrom(approved) : r.evidence # {}}
    IN  /\ c \in manifests[p] /\ file = c
        /\ \A kind \in Categories : \E id \in approved : id[2].kind = kind
        /\ rules # {} /\ Len(styles) < MaxProfiles
        /\ Take(d, Command("draft", p, 0, approved, rules, LatestVersion(p) + 1))

(* uq_reference_style_profile_version                                      *)
Unchecked(p, version) == TRUE
VersionIsFree(p, version) == \A n \in OfStory(p) : styles[n].version # version

SaveDraft(d) ==
    LET held == desks[d] IN
    /\ held # FreeDesk /\ held.op = "draft"
    /\ VersionIsFree(held.story, held.version) /\ Len(styles) < MaxProfiles
    /\ NoText \notin manifests[held.story]
    /\ styles' = Append(styles, [story |-> held.story, version |-> held.version, status |-> "draft",
                                 rules |-> held.rules, provenance |-> held.seen, tested |-> FALSE])
    /\ Leave(d)
    /\ UNCHANGED <<file, manifests, samples, globalStyle, reviews>>

(* _validate_contract: each rule points to passages of this version.       *)
BeginEdit(d, p, n) ==
    /\ n \in OfStory(p) /\ styles[n].status = "draft"
    /\ \E evidence \in (SUBSET styles[n].provenance) \ {{}}, x \in Dimensions :
         Take(d, Command("edit", p, n, {}, {[dimension |-> x, evidence |-> evidence]}, 0))

SaveEdit(d) ==
    LET held == desks[d] IN
    /\ held # FreeDesk /\ held.op = "edit" /\ held.style \in Present
    /\ \A id \in styles[held.style].provenance : file = id[1]
    /\ styles' = [styles EXCEPT ![held.style].rules = held.rules]
    /\ Leave(d)
    /\ UNCHANGED <<file, manifests, samples, globalStyle, reviews>>

BeginActivation(d, p, n) ==
    /\ n \in OfStory(p) /\ styles[n].status = "draft"
    /\ Take(d, Command("activate", p, n, ActiveOf(p), {}, 0))

SaveActivation(d) ==
    LET held == desks[d] IN
    /\ held # FreeDesk /\ held.op = "activate" /\ held.style \in Present
    /\ styles' = [n \in DOMAIN styles |->
                    IF n = held.style THEN [styles[n] EXCEPT !.status = "active", !.tested = TRUE]
                    ELSE IF n \in held.seen THEN [styles[n] EXCEPT !.status = "superseded"]
                    ELSE styles[n]]
    /\ Leave(d)
    /\ UNCHANGED <<file, manifests, samples, globalStyle, reviews>>

(* A refused command, or one that ran into a constraint, leaves nothing.   *)
Abandon(d) ==
    /\ desks[d] # FreeDesk /\ Leave(d)
    /\ UNCHANGED <<file, manifests, samples, styles, globalStyle, reviews>>

SetGlobalDefault(p, n) ==
    /\ n \in ActiveOf(p) /\ n # globalStyle
    /\ globalStyle' = n
    /\ UNCHANGED <<file, manifests, samples, styles, desks, reviews>>

(* A story whose style is the default of others cannot be deleted.         *)
DeleteStory(p) ==
    /\ NoText \notin manifests[p] /\ globalStyle \notin OfStory(p)
    /\ manifests' = [manifests EXCEPT ![p] = {NoText}]
    /\ samples' = [id \in SampleIds |-> IF samples[id].owner = p THEN NoSample ELSE samples[id]]
    /\ styles' = [n \in DOMAIN styles |-> IF n \in OfStory(p) THEN [styles[n] EXCEPT !.story = NoStory] ELSE styles[n]]
    /\ UNCHANGED <<file, globalStyle, desks, reviews>>

AuthorReviews ==
    \E p \in Stories, id \in SampleIds, status \in Statuses, likes \in SUBSET Dimensions :
        ReviewSample(p, id, status, likes)

StyleCommand(d) ==
    \/ \E p \in Stories :
         \/ \E c \in Contents : BeginDraft(d, p, c)
         \/ \E n \in DOMAIN styles : BeginEdit(d, p, n) \/ BeginActivation(d, p, n)
    \/ SaveDraft(d) \/ SaveEdit(d) \/ SaveActivation(d) \/ Abandon(d)

NextStyles ==
    \/ \E c \in Contents \cup {NoText} : FileChanges(c)
    \/ AuthorReviews
    \/ \E p \in Stories :
         \/ Register(p) \/ DeleteStory(p)
         \/ \E n \in DOMAIN styles : SetGlobalDefault(p, n)
    \/ \E d \in Desks : StyleCommand(d)

StylesSpec == InitStyles /\ [][NextStyles]_styleVars

-----------------------------------------------------------------------------
(* The style a stage of story p is given, 0 for none.                      *)
NewestActive(p) == CHOOSE n \in ActiveOf(p) : \A k \in ActiveOf(p) : styles[k].version <= styles[n].version

StyleFor(p) ==
    IF ActiveOf(p) # {} THEN NewestActive(p)
    ELSE IF globalStyle \in Present /\ styles[globalStyle].status = "active" THEN globalStyle
    ELSE 0

(* Types: rows are of their tables, and a command keeps what it read.      *)
StylesTypeOK ==
    /\ file \in Contents \cup {NoText}
    /\ manifests \in [Stories -> (SUBSET Contents) \cup {{NoText}}]
    /\ \A id \in SampleIds : samples[id].owner \in Stories \cup {NoStory} /\ samples[id].status \in Statuses
    /\ globalStyle \in 0..Len(styles)
    /\ reviews \in 0..MaxReviews

(* What a stage is told about style can be traced. The style it gets is    *)
(* one version, that passed its blind test, of its own story or the chosen *)
(* default; each of its rules points to passages, and each of those is a   *)
(* row of the same story and of a content that story registered, whatever  *)
(* happened to the file, to the judgement or to other stories since. And   *)
(* the passages were offered fairly: a chapter gives a second one of a     *)
(* kind only when every chapter that has one gave its first.               *)
StyleIsTraceable ==
    /\ \A p \in Stories : StyleFor(p) # 0 =>
         LET s == styles[StyleFor(p)] IN
         /\ s.tested /\ s.story \in Stories
         /\ s.story = p \/ (ActiveOf(p) = {} /\ StyleFor(p) = globalStyle)
         /\ \A n \in OfStory(s.story) : styles[n].version = s.version => n = StyleFor(p)
         /\ s.rules # {}
         /\ \A r \in s.rules : r.evidence # {} /\ \A id \in r.evidence :
              samples[id].owner = s.story /\ id[1] \in manifests[s.story]
    /\ globalStyle # 0 => globalStyle \in Present
    /\ \A c \in Contents, kind \in Categories : \A s, t \in Candidates(c, kind) :
         (s # t /\ s.chapter = t.chapter) =>
            \A u \in Qualified(c) : u.kind = kind => \E v \in Candidates(c, kind) : v.chapter = u.chapter
=============================================================================
