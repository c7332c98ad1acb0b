-------------------------------- MODULE Retrieval --------------------------------
(***************************************************************************)
(* What a model request is told of the book (knowledge/text.py, lookup.py, *)
(* service.py retrieve; generation/knowledge_binding.py and                *)
(* knowledge_context.py): the texts of a formal version are frozen with a  *)
(* batch, cut into pieces, ranked into a receipt, and the entries of the   *)
(* world that the task needs are put into the request within a budget.     *)
(* The author's own lookups use the same corpora, kept in one cache.       *)
(*                                                                         *)
(* The scores of pieces and entries are open: any order may come out.  The *)
(* vectors of the index are the subject of the module KnowledgeIndex.      *)
(***************************************************************************)
EXTENDS Integers, FiniteSets, Sequences

CONSTANTS
    VersionTexts,   \* VersionTexts[v]: the texts of formal version v
    Window,         \* a piece is at most this long,
    HalfWindow,     \* ends after a line if one ends in its second half,
    Overlap,        \* and begins this far before the end of the last one
    PerSource,      \* pieces of one text in a receipt, and
    HitLimit,       \* pieces in all
    MaxCached,      \* corpora in the cache
    Mentions,       \* Mentions[e]: what the entry e of the world names
    Past,           \* entries changed earlier in the batch, and
    PastMentions,   \* what their earlier values name
    FullCost,       \* what an entry counts in a request,
    BriefCost,      \* its outline,
    PastCost,       \* its earlier value,
    WorldLimit,     \* and all of them together
    MaxRanked,      \* entries considered beyond what is required,
    MaxDetailed,    \* given in full, and
    MaxBrief,       \* given in outline
    MaxScored,      \* search bound: pieces a query finds
    MaxDamages      \* search bound: frozen texts damaged

BookVersions == DOMAIN VersionTexts
WorldIds     == DOMAIN Mentions

(* "digest" names the text as it was read; a damaged text is another one.  *)
SourceTexts == UNION {VersionTexts[v] : v \in BookVersions}
Damaged     == "damaged"
AsFrozen(s) == s.text = s.digest

ASSUME RetrievalAssumption ==
    /\ 0 \notin BookVersions
    /\ \A s \in SourceTexts :
          /\ s = [kind |-> s.kind, id |-> s.id, ordinal |-> s.ordinal, length |-> s.length,
                  breaks |-> s.breaks, text |-> s.text, digest |-> s.digest]
          /\ s.kind \in {"chapter", "world_lore", "state"} /\ s.ordinal \in Nat /\ s.length \in Nat
          /\ s.breaks \subseteq 0 .. s.length - 1 /\ AsFrozen(s) /\ s.digest # Damaged
          /\ s.kind = "world_lore" => s.id \in WorldIds
    /\ {Window, HalfWindow, Overlap} \subseteq Nat /\ Overlap < HalfWindow /\ HalfWindow < Window
    /\ {PerSource, HitLimit, MaxCached, MaxScored, MaxDamages} \subseteq Nat
    /\ {FullCost, BriefCost, PastCost, WorldLimit, MaxRanked, MaxDetailed, MaxBrief} \subseteq Nat
    /\ IsFiniteSet(WorldIds) /\ Past \subseteq WorldIds /\ DOMAIN PastMentions = Past
    /\ \A e \in WorldIds : Mentions[e] \subseteq WorldIds
    /\ \A e \in Past : PastMentions[e] \subseteq WorldIds

VARIABLES
    snapshot,   \* the version a batch began with and its frozen texts
    cached,     \* corpora, the least recently used first
    inquiry,    \* one lookup: for whom, of what version, up to what chapter, with what result
    world,      \* the entries of the world in the request that is being made
    damages

retrievalVars == <<snapshot, cached, inquiry, world, damages>>

Greatest(numbers) == CHOOSE n \in numbers : \A m \in numbers : m <= n

-----------------------------------------------------------------------------
(* Cutting a text into pieces: chunks of knowledge/text.py.                *)

CutEnd(s, start) ==
    LET full  == IF start + Window < s.length THEN start + Window ELSE s.length
        lines == {b \in s.breaks : start + HalfWindow <= b /\ b < full}
    IN  IF full < s.length /\ lines # {} THEN Greatest(lines) + 1 ELSE full

StartAfter(start, end)  == end + 1
StartWithin(start, end) == Greatest({start + 1, end - Overlap})

Piece(s, start, end) ==
    [source |-> s.id, kind |-> s.kind, text |-> s.text, digest |-> s.digest,
     start |-> start, end |-> end]

PiecesOf(s) ==
    LET cut[start \in 0 .. s.length] ==
            IF start >= s.length THEN {}
            ELSE LET end == CutEnd(s, start) IN
                 {Piece(s, start, end)} \cup
                    (IF end = s.length THEN {} ELSE cut[StartWithin(start, end)])
    IN  cut[0]

CorpusOf(sources) == UNION {PiecesOf(s) : s \in sources}

-----------------------------------------------------------------------------
(* Lookups.  "0" stands for no last chapter.                               *)

NoFrozen  == [version |-> 0, sources |-> {}]
NoInquiry == [pc |-> "idle", asker |-> "none", version |-> 0, through |-> 0,
              pieces |-> {}, hits |-> {}]
NoWorld  == [required |-> {}, full |-> {}, brief |-> {}, past |-> {}, considered |-> {}]

RetrievalTypeOK ==
    /\ snapshot.version \in BookVersions \cup {0}
    /\ {s.digest : s \in snapshot.sources} \subseteq {s.digest : s \in SourceTexts}
    /\ Len(cached) <= MaxCached
    /\ inquiry.pc \in {"idle", "asked", "prepared", "ranked", "world"}
    /\ inquiry.asker \in {"none", "author", "batch"}
    /\ inquiry.version \in BookVersions \cup {0}
    /\ world.full \cup world.brief \cup world.past \cup world.considered \subseteq WorldIds
    /\ damages \in 0 .. MaxDamages

InitRetrieval ==
    /\ snapshot = NoFrozen /\ cached = <<>> /\ inquiry = NoInquiry
    /\ world = NoWorld /\ damages = 0

AskedBy(asker, v, through) ==
    [NoInquiry EXCEPT !.pc = "asked", !.asker = asker, !.version = v, !.through = through]

(* bind_snapshot: the texts are read and frozen, and the first action of   *)
(* the batch looks something up.                                           *)
FreezeSources(v) ==
    /\ inquiry.pc = "idle"
    /\ snapshot' = [version |-> v, sources |-> VersionTexts[v]]
    /\ inquiry' = AskedBy("batch", v, 0)
    /\ UNCHANGED <<cached, world, damages>>

(* bind_request: a later action does so with the frozen texts.             *)
BeginRequest ==
    /\ inquiry.pc = "idle" /\ snapshot # NoFrozen
    /\ inquiry' = AskedBy("batch", snapshot.version, 0)
    /\ UNCHANGED <<snapshot, cached, world, damages>>

(* The author looks something up in a version, up to some chapter.         *)
AskAuthor(v, through) ==
    /\ inquiry.pc = "idle" /\ inquiry' = AskedBy("author", v, through)
    /\ UNCHANGED <<snapshot, cached, world, damages>>

(* A stored text changes under its digest.                                 *)
DamageText(s) ==
    /\ damages < MaxDamages /\ damages' = damages + 1
    /\ s \in snapshot.sources /\ AsFrozen(s)
    /\ snapshot' = [snapshot EXCEPT !.sources = (@ \ {s}) \cup {[s EXCEPT !.text = Damaged]}]
    /\ UNCHANGED <<cached, inquiry, world>>

SourcesFor(q) == IF q.asker = "batch" THEN snapshot.sources ELSE VersionTexts[q.version]

(* The state of a version says nothing about the opening of a chapter      *)
(* before its last one.                                                    *)
StatePermitted(sources, through) ==
    through = 0 \/ \A s \in sources : s.kind = "chapter" => s.ordinal <= through

Permitted(sources, through) ==
    {s \in sources : IF s.kind = "chapter" THEN through = 0 \/ s.ordinal <= through
                                           ELSE StatePermitted(sources, through)}

(* The key of a corpus has all of its texts but the words: their digests.  *)
Labelled(s)              == [s EXCEPT !.text = s.digest]
KeyOfVersion(v, sources) == [version |-> v, sources |-> {}]
CorpusKey(v, sources)    == [version |-> v, sources |-> {Labelled(s) : s \in sources}]

NoneDoubted(sources) == TRUE
AllIntact(sources)   == \A s \in sources : AsFrozen(s)

(* prepare, one thread at a time: a found corpus becomes the last used one. *)
PrepareCorpus ==
    LET sources == Permitted(SourcesFor(inquiry), inquiry.through)
        key     == CorpusKey(inquiry.version, sources)
        found   == {i \in DOMAIN cached : cached[i].key = key}
        place   == CHOOSE i \in found : TRUE
        others  == IF found = {} THEN cached
                   ELSE SubSeq(cached, 1, place - 1) \o SubSeq(cached, place + 1, Len(cached))
        corpus  == IF found = {} THEN CorpusOf(sources) ELSE cached[place].pieces
        grown   == Append(others, [key |-> key, pieces |-> corpus])
    IN  /\ inquiry.pc = "asked" /\ AllIntact(sources)
        /\ cached' = IF Len(grown) > MaxCached THEN Tail(grown) ELSE grown
        /\ inquiry' = [inquiry EXCEPT !.pc = "prepared", !.pieces = corpus]
        /\ UNCHANGED <<snapshot, world, damages>>

RefuseDamaged ==
    /\ inquiry.pc = "asked" /\ ~AllIntact(Permitted(SourcesFor(inquiry), inquiry.through))
    /\ inquiry' = NoInquiry /\ UNCHANGED <<snapshot, cached, world, damages>>

(* rank: in the order of their scores, unless it repeats a part of another. *)
Crosses(a, b) ==
    a.source = b.source /\ Greatest({a.start, b.start}) < -Greatest({-a.end, -b.end})

TakesAny(hits, p) == Cardinality(hits) < HitLimit
Takes(hits, p) ==
    /\ Cardinality(hits) < HitLimit
    /\ Cardinality({h \in hits : h.source = p.source}) < PerSource
    /\ ~ \E h \in hits : Crosses(h, p)

ScoredOrders(pieces) ==
    UNION {{order \in [1 .. n -> pieces] : \A i, j \in 1 .. n : order[i] = order[j] => i = j} :
              n \in 0 .. MaxScored}

ChosenPieces(order) ==
    LET chosen[i \in 0 .. Len(order)] ==
            IF i = 0 THEN {}
            ELSE chosen[i - 1] \cup (IF Takes(chosen[i - 1], order[i]) THEN {order[i]} ELSE {})
    IN  chosen[Len(order)]

RankPieces ==
    /\ inquiry.pc = "prepared"
    /\ \E hits \in {ChosenPieces(order) : order \in ScoredOrders(inquiry.pieces)} :
          inquiry' = [inquiry EXCEPT !.pc = "ranked", !.hits = hits, !.pieces = {}]
    /\ UNCHANGED <<snapshot, cached, world, damages>>

ShowAuthor ==
    /\ inquiry.pc = "ranked" /\ inquiry.asker = "author" /\ inquiry' = NoInquiry
    /\ UNCHANGED <<snapshot, cached, world, damages>>

-----------------------------------------------------------------------------
(* The request: the receipt against the frozen texts, then the world.      *)

(* retrieval_for: every piece is one of the frozen texts as they are now.  *)
ReceiptConfirmed(hits) ==
    LET named == {s \in snapshot.sources : \E h \in hits : h.source = s.id}
    IN  AllIntact(named) /\ hits \subseteq CorpusOf(named)

RefuseReceipt ==
    /\ inquiry.pc = "ranked" /\ inquiry.asker = "batch" /\ ~ReceiptConfirmed(inquiry.hits)
    /\ inquiry' = NoInquiry /\ UNCHANGED <<snapshot, cached, world, damages>>

Lore        == {s.id : s \in {t \in snapshot.sources : t.kind = "world_lore"}}
WorldLinked == Lore \cup Past
Recalled    == {h.source : h \in {p \in inquiry.hits : p.kind = "world_lore"}}

ReferredBy(entries) ==
    WorldLinked \cap ((UNION {Mentions[e] : e \in entries \cap Lore})
                    \cup (UNION {PastMentions[e] : e \in entries \cap Past}))

(* _dependencies: what is named by what is named ...                       *)
NamedOnce(entries)    == entries \cup ReferredBy(entries)
Dependencies(entries) ==
    LET grown[n \in 0 .. Cardinality(WorldLinked)] ==
            IF n = 0 THEN entries ELSE grown[n - 1] \cup ReferredBy(grown[n - 1])
    IN  grown[Cardinality(WorldLinked)]

(* _project: an earlier value is told with its entry, or on its own.       *)
Told(full, past) == full \cup past

Cost(full, brief, past) ==
    FullCost * Cardinality(full) + BriefCost * Cardinality(brief)
        + PastCost * Cardinality(Past \cap Told(full, past))
WorldFits(full, brief, past) == Cost(full, brief, past) <= WorldLimit

(* Whatever the task names, with all it depends on, or no request at all.  *)
BeginWorld ==
    \E named \in SUBSET WorldLinked :
        LET required == Dependencies(named)
            full     == Lore \cap required
            past     == Past \cap required
        IN  /\ inquiry.pc = "ranked" /\ inquiry.asker = "batch" /\ ReceiptConfirmed(inquiry.hits)
            /\ IF WorldFits(full, {}, past)
               THEN /\ world' = [NoWorld EXCEPT !.required = required, !.full = full, !.past = past]
                    /\ inquiry' = [inquiry EXCEPT !.pc = "world"]
               ELSE inquiry' = NoInquiry /\ UNCHANGED world
            /\ UNCHANGED <<snapshot, cached, damages>>

(* The candidates, what was found by the lookup first.                     *)
WorldCandidates == Lore \ (world.required \cup world.considered)
Considers(e) ==
    /\ inquiry.pc = "world" /\ Cardinality(world.considered) < MaxRanked
    /\ e \in WorldCandidates /\ (WorldCandidates \cap Recalled # {} => e \in Recalled)
    /\ UNCHANGED <<snapshot, cached, inquiry, damages>>

RoomInDetail == Cardinality(world.full \ world.required) < MaxDetailed
RoomInBrief  == Cardinality(world.brief) < MaxBrief
SeenEntry(e) == [world EXCEPT !.considered = @ \cup {e}]
Outlined(e) ==
    IF RoomInBrief /\ WorldFits(world.full, world.brief \cup {e}, world.past)
    THEN [SeenEntry(e) EXCEPT !.brief = @ \cup {e}] ELSE SeenEntry(e)

SkipEntry(e) ==
    /\ Considers(e) /\ e \in world.full
    /\ world' = SeenEntry(e)

(* An entry the query has words of, or the lookup found: in full with all  *)
(* it depends on, or else in outline.                                      *)
PastKept(closure)  == world.past
PastGrown(closure) == world.past \cup (Past \cap closure)

DetailEntry(e) ==
    LET closure == Dependencies(world.full \cup {e})
        full    == Lore \cap closure
        brief   == world.brief \ closure
        past    == PastGrown(closure)
    IN  /\ Considers(e) /\ e \notin world.full /\ RoomInDetail
        /\ world' = IF WorldFits(full, brief, past)
                    THEN [SeenEntry(e) EXCEPT !.full = full, !.brief = brief, !.past = past]
                    ELSE Outlined(e)

OutlineEntry(e) ==
    /\ Considers(e) /\ e \notin world.full /\ (e \in Recalled => ~RoomInDetail)
    /\ world' = Outlined(e)

SendMaterial ==
    /\ inquiry.pc = "world" /\ (WorldCandidates = {} \/ Cardinality(world.considered) = MaxRanked)
    /\ inquiry' = NoInquiry /\ world' = NoWorld
    /\ UNCHANGED <<snapshot, cached, damages>>

NextRetrieval ==
    \/ \E v \in BookVersions : FreezeSources(v)
    \/ \E v \in BookVersions, through \in {0} \cup {s.ordinal : s \in SourceTexts} :
          AskAuthor(v, through)
    \/ BeginRequest \/ PrepareCorpus \/ RefuseDamaged \/ RankPieces \/ ShowAuthor
    \/ \E s \in snapshot.sources : DamageText(s)
    \/ RefuseReceipt \/ BeginWorld
    \/ \E e \in WorldIds : SkipEntry(e) \/ DetailEntry(e) \/ OutlineEntry(e)
    \/ SendMaterial

RetrievalSpec == InitRetrieval /\ [][NextRetrieval]_retrievalVars

-----------------------------------------------------------------------------
(* Properties.                                                             *)

(* A lookup sees its version up to its chapter, whichever corpora were     *)
(* looked up before it: every text as it was frozen, without a gap, in     *)
(* pieces of bounded length, and no later chapter or state (knowledge/     *)
(* lookup.py prepare, text.py chunks, service.py retrieve).                *)
CorpusIsItsVersion ==
    LET sources == Permitted(VersionTexts[inquiry.version], inquiry.through) IN
    inquiry.pc = "prepared" =>
        /\ {p.digest : p \in inquiry.pieces} = {s.digest : s \in {t \in sources : t.length > 0}}
        /\ \A p \in inquiry.pieces :
              p.text = p.digest /\ p.start < p.end /\ p.end - p.start <= Window
        /\ \A s \in sources : \A place \in 0 .. s.length - 1 :
              \E p \in inquiry.pieces : p.digest = s.digest /\ p.start <= place /\ place < p.end

(* A receipt repeats no passage and is not the voice of one text           *)
(* (lookup.py rank).                                                       *)
HitsAreApart ==
    /\ Cardinality(inquiry.hits) <= HitLimit
    /\ \A h \in inquiry.hits : Cardinality({o \in inquiry.hits : o.source = h.source}) <= PerSource
    /\ \A g, h \in inquiry.hits :
          g # h /\ g.source = h.source => g.end <= h.start \/ h.end <= g.start

(* At every moment of the selection a request has all the task names, is   *)
(* closed under what its entries and their earlier values name, tells      *)
(* nothing both in full and in outline, and keeps its budget               *)
(* (knowledge_context.py _render_world, world_context.py render_for).      *)
WorldIsClosed ==
    LET told == Told(world.full, world.past) IN
    inquiry.pc = "world" =>
        /\ world.required \subseteq told /\ ReferredBy(told) \subseteq told
        /\ world.brief \cap world.full = {} /\ Cardinality(world.brief) <= MaxBrief
        /\ WorldFits(world.full, world.brief, world.past)

RetrievalIsSound == CorpusIsItsVersion /\ HitsAreApart /\ WorldIsClosed

================================================================================
