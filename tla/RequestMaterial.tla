--------------------------- MODULE RequestMaterial ---------------------------
(***************************************************************************)
(* What a request tells the model: the records, the history and the        *)
(* voices chosen from the frozen state of a story (role-key-v3 and, for    *)
(* the chief, chief-focus-v4), the loop that gives them a smaller target   *)
(* until the request fits (generation/request_preparation.py), and what is *)
(* kept of a request that never did (generation/runtime.py), for an author *)
(* who edits the work or allows a wider input (input_recovery.py).         *)
(*                                                                         *)
(* Material is counted in thousands of tokens: a record, a summary or a    *)
(* voice is one, a paragraph as many as it is long.                        *)
(***************************************************************************)
EXTENDS Integers, Sequences, FiniteSets, SequencesExt, FiniteSetsExt

CONSTANTS
    Openings,       \* frozen states: see OpeningsAssumption
    Preparations,       \* actions of a stage: [role, policy, fixed, planned]
    InputLimits,    \* input limits the author may authorize
    MaxRewrites,       \* search bound
    MaxRounds       \* the count of rounds stops here

VARIABLES
    opening,        \* the frozen state
    request,        \* the action in preparation
    inputLimit,     \* the authorized input limit
    inputStep,      \* where its preparation is
    lookup,         \* the retrieval bound to it
    keyTarget,      \* _key_material_target of the loop
    material,       \* what was rendered last
    rounds,         \* renders of this preparation
    workRevision,   \* of plan, candidate and author's note
    inputFailure,   \* the input_preparation_failure of the batch
    measured        \* the lookup of the preview that found inputLimit to be enough, if any

requestVars == <<opening, request, inputLimit, inputStep, lookup, keyTarget,
                 material, rounds, workRevision, inputFailure, measured>>

Targets == [chief |-> 12, writer |-> 10, memory |-> 6, checker |-> 8, editor |-> 2, reader |-> 2]
Floor == 2

Policies == {"role-rag-v2", "role-key-v3", "chief-focus-v4"}

(* An entry of the lore has no field that cites a record (domain/world.py). *)
ASSUME OpeningsAssumption ==
    \A o \in Openings :
        /\ IsFiniteSet(o.records)
        /\ o.kind \in [o.records -> {"person", "bond", "fact", "constraint", "lore"}]
        /\ o.cites \in [o.records -> SUBSET o.records] /\ o.names \in [o.records -> SUBSET o.records]
        /\ \A r \in o.records : o.kind[r] = "lore" => o.cites[r] = {}
        /\ o.cast \cup o.present \cup o.voiced \cup {o.ranking[i] : i \in DOMAIN o.ranking}
               \subseteq {r \in o.records : o.kind[r] = "person"}
        /\ o.ranking \in Seq(o.records) /\ o.spoken \subseteq o.records
        /\ o.lengths \in Seq(Nat) /\ o.summaries \in Nat /\ o.beside \in Seq(DOMAIN o.lengths)
        /\ \A l \in o.lookups \cup {o.plain} :
               /\ l.records \in Seq(o.records)
               /\ l.passages \in Seq((DOMAIN o.lengths) \X (DOMAIN o.lengths))

ASSUME PreparationsAssumption ==
    /\ \A p \in Preparations :
           /\ p.role \in DOMAIN Targets /\ p.policy \in Policies /\ p.fixed \in Nat
           /\ p.planned \in BOOLEAN
    /\ InputLimits \subseteq Nat /\ MaxRewrites \in Nat /\ MaxRounds \in Nat

-----------------------------------------------------------------------------
(* Records: what a request must have.                                      *)

(* The least of some sets of records that contains what there is to start. *)
LeastAround(S, sets) == {r \in opening.records : \A T \in sets : S \subseteq T => r \in T}

Of(kind) == {r \in opening.records : opening.kind[r] = kind}
CitedBy(S) == UNION {opening.cites[r] : r \in S}
NamedBy(S) == Of("lore") \cap (CitedBy(S) \cup UNION {opening.names[r] : r \in S})

(* A lore entry brings those its text names.                               *)
LoreWith(S) == LeastAround(S, {T \in SUBSET Of("lore") : NamedBy(T) \subseteq T})

(* A record brings those it cites, and any constraint of the timeline that *)
(* cites one of them.                                                      *)
Around(S) == {S \cup T : T \in SUBSET (opening.records \ S)}
Entire(T) ==
    /\ CitedBy(T) \subseteq T
    /\ \A c \in Of("constraint") : opening.cites[c] \cap T # {} => c \in T
OneLink(S)   == S \cup CitedBy(S)
AllLinked(S) == LeastAround(S, {T \in Around(S) : Entire(T)})

(* The people the request is about.                                        *)
Focal ==
    LET tasked == IF request.role \in {"chief", "writer"} THEN opening.cast ELSE {}
        named == tasked \cup opening.present \cup (Of("person") \cap opening.spoken)
    IN  IF named # {} THEN named
        ELSE IF request.role = "chief" THEN {opening.ranking[i] : i \in 1..Min({2, Len(opening.ranking)})}
        ELSE Of("person")

Required ==
    LET people == Focal \cup (IF request.role = "chief" THEN Of("person") ELSE {})
        bonds == {r \in Of("bond") : opening.cites[r] \cap Focal # {}}
        spoken == opening.spoken \ (Of("person") \cup Of("lore"))
        anchors == Focal \cup bonds \cup spoken
        lore == LoreWith((Of("lore") \cap opening.spoken) \cup NamedBy(anchors))
    IN  AllLinked(people \cup bonds \cup spoken \cup lore)

-----------------------------------------------------------------------------
(* The packet, and what is offered to it.                                  *)

Paragraphs == DOMAIN opening.lengths
LastParagraph == Len(opening.lengths)
Length(S) == Cardinality(UNION {{p} \X (1..opening.lengths[p]) : p \in S})
EndingFrom(i) == i..LastParagraph

EmptyPacket == [records |-> {}, ending |-> {}, passages |-> {}, summaries |-> 0, voices |-> {}]

Weight(m) ==
    Cardinality(m.records) + m.summaries + Cardinality(m.voices)
        + Length(m.ending) + Length(m.passages)

(* A record that was found comes with all it depends on, or not at all.    *)
WithHit(chosen, hit) ==
    AllLinked(chosen \cup (IF hit \in Of("lore") THEN LoreWith((chosen \cap Of("lore")) \cup {hit}) ELSE {hit}))

(* What is offered: the next summary, the paragraphs of a passage, a record*)
(* that was found, the voice of a person.                                  *)
Offers(sort, what) == [i \in DOMAIN what |-> [sort |-> sort, what |-> what[i]]]

(* A hit in a chapter is quoted in whole paragraphs, none of them twice.   *)
Needless(m, item) ==
    \/ item.sort = "passage" /\ item.what \cap (m.passages \cup m.ending) # {}
    \/ item.sort = "hit" /\ item.what \in m.records
    \/ item.sort = "voice" /\ (item.what \in Focal \/ item.what \notin opening.voiced)

Plus(m, item) ==
    CASE item.sort = "summary" -> [m EXCEPT !.summaries = @ + 1]
      [] item.sort = "passage" -> [m EXCEPT !.passages = @ \cup item.what]
      [] item.sort = "hit"     -> [m EXCEPT !.records = WithHit(@, item.what)]
      [] item.sort = "voice"   -> [m EXCEPT !.voices = @ \cup {item.what}]

OfferWhileBelow(m, item, target) ==
    IF ~Needless(m, item) /\ Weight(m) < target THEN Plus(m, item) ELSE m
Offer(m, item, target) ==
    IF ~Needless(m, item) /\ Weight(Plus(m, item)) <= target THEN Plus(m, item) ELSE m

OfferAll(m, items, target) ==
    LET after[i \in 0..Len(items)] ==
            IF i = 0 THEN m ELSE Offer(after[i - 1], items[i], target)
    IN  after[Len(items)]

(* A continuous suffix: earlier paragraphs up to the first that is refused *)
(* or, for the chief, already quoted.                                      *)
ExtendEnding(m, target, quoted) ==
    LET reaches(i) == \A j \in i..(LastParagraph - 1) :
            /\ j \notin quoted
            /\ Weight([m EXCEPT !.ending = EndingFrom(j)]) <= target
    IN  [m EXCEPT !.ending = IF @ = {} THEN @
                             ELSE EndingFrom(Min({i \in Paragraphs : reaches(i)}))]

SummaryOffers(m) == Offers("summary", [i \in 1..(opening.summaries - m.summaries) |-> i])
HitOffers(look)  == Offers("hit", look.records)
VoiceOffers(m)   == Offers("voice", SetToSeq(m.records \cap Of("person")))

RequiredMaterial ==
    [EmptyPacket EXCEPT !.records = Required,
                    !.ending = IF request.role \in {"chief", "writer"} /\ LastParagraph > 0 THEN {LastParagraph} ELSE {}]

Spans(look) == [k \in DOMAIN look.passages |-> look.passages[k][1]..look.passages[k][2]]

KeyMaterial(target, look) ==
    LET ended == ExtendEnding(RequiredMaterial, target, {})
    IN  OfferAll(ended, SummaryOffers(ended) \o Offers("passage", Spans(look)) \o HitOffers(look), target)

(* The chief is quoted single paragraphs, and keeps the newest summary and *)
(* one of them whatever the target.                                        *)
OneByOne(span) == [j \in 1..(span[2] - span[1] + 1) |-> {span[1] + j - 1}]
Singles(look) ==
    LET upto[k \in 0..Len(look.passages)] ==
            IF k = 0 THEN <<>> ELSE upto[k - 1] \o OneByOne(look.passages[k])
    IN  upto[Len(look.passages)]

FirstQuote(look) ==
    LET quotes == {k \in DOMAIN Singles(look) : Singles(look)[k] # {LastParagraph}}
    IN  IF quotes = {} THEN {} ELSE Singles(look)[Min(quotes)]

ChiefMaterial(target, look) ==
    LET kept   == [RequiredMaterial EXCEPT !.summaries = Min({1, opening.summaries}),
                                           !.passages = FirstQuote(look)]
        quoted == OfferAll(kept, SummaryOffers(kept) \o Offers("passage", Singles(look)), target)
        told   == OfferAll(ExtendEnding(quoted, target, quoted.passages), HitOffers(look), target)
    IN  OfferAll(told, VoiceOffers(told), target)

(* A local edit shows its paragraphs' neighbours, and has no target but    *)
(* its own; a cold reader is given the end of the chapter before.          *)
EditorMaterial ==
    OfferAll(EmptyPacket, Offers("passage", [i \in DOMAIN opening.beside |-> {opening.beside[i]}]),
             Targets["editor"])

ReaderMaterial ==
    IF LastParagraph = 0 \/ Length({LastParagraph}) > Targets["reader"] THEN EmptyPacket
    ELSE ExtendEnding([EmptyPacket EXCEPT !.ending = {LastParagraph}], Targets["reader"], {})

(* The older role-rag-v2 has a limit of its own for records and for lore:  *)
(* it takes records one by one, what was found before what they all cite,  *)
(* and gives up when something it must have no longer finds room.          *)
RoomFor(S, r, limit) == IF r \notin Of("lore") /\ Cardinality(S \cup {r}) <= limit THEN S \cup {r} ELSE S
TakeWhileRoom(start, optional, limit) ==
    LET taken[i \in 0..Len(optional)] ==
            IF i = 0 THEN start ELSE RoomFor(taken[i - 1], optional[i], limit)
    IN  taken[Len(optional)]

RagRecords(look) ==
    LET people == IF request.role = "chief" THEN Of("person") ELSE Focal
        must == people \cup {r \in Of("bond") : opening.cites[r] \cap people # {}}
                       \cup (opening.spoken \ (Of("person") \cup Of("lore")))
        neighbours == SetToSeq((CitedBy(must \cap Of("bond")) \cap Of("person")) \ people)
        taken == TakeWhileRoom(must, neighbours \o look.records, inputLimit \div 2)
    IN  LeastAround(taken, {T \in Around(taken) : CitedBy(T) \ Of("lore") \subseteq T})

RagLore(records) == LoreWith((Of("lore") \cap opening.spoken) \cup NamedBy(records))

LoreRoomFor(S, l, limit) ==
    IF l \in Of("lore") /\ Cardinality(LoreWith(S \cup {l})) <= limit THEN LoreWith(S \cup {l}) ELSE S
RagWithLore(look, records) ==
    LET told[i \in 0..Len(look.records)] ==
            IF i = 0 THEN RagLore(records) ELSE LoreRoomFor(told[i - 1], look.records[i], inputLimit \div 4)
    IN  told[Len(look.records)]

RagRaises(look) ==
    /\ request.policy = "role-rag-v2"
    /\ \/ Cardinality(RagRecords(look)) > inputLimit \div 2
       \/ Cardinality(RagLore(RagRecords(look))) > inputLimit \div 4

RagMaterial(look) ==
    [EmptyPacket EXCEPT !.records = RagRecords(look) \cup RagWithLore(look, RagRecords(look))]

Render(target, look) ==
    IF request.policy = "role-rag-v2" THEN RagMaterial(look)
    ELSE IF request.role = "editor" THEN EditorMaterial
    ELSE IF request.role = "reader" THEN ReaderMaterial
    ELSE IF request.role = "chief" /\ request.policy = "chief-focus-v4" THEN ChiefMaterial(target, look)
    ELSE KeyMaterial(target, look)

-----------------------------------------------------------------------------
(* The loop of prepare_request, inside the transaction that would claim    *)
(* the call.                                                               *)

(* The target the renderer reports; the editor reports its own constant,   *)
(* and the reader none.                                                    *)
SoftTarget == Min({Targets[request.role], inputLimit \div 2, keyTarget})
NoTarget == 0
ReportedTarget == IF request.role = "editor" THEN Targets["editor"]
                  ELSE IF request.role = "reader" \/ request.policy = "role-rag-v2" THEN 0
                  ELSE SoftTarget

Fits(m, limit) == request.fixed + Weight(m) <= limit

NoLookup == [records |-> <<>>, passages |-> <<>>, revision |-> 0]
Found(look) == [records |-> look.records, passages |-> look.passages, revision |-> workRevision]

NoFailure == [saved |-> FALSE, revision |-> 0, lookup |-> NoLookup]

InitRequest ==
    /\ opening \in Openings /\ request \in Preparations /\ inputLimit \in InputLimits
    /\ inputStep = "bind" /\ lookup = NoLookup /\ keyTarget = Targets["chief"]
    /\ material = EmptyPacket /\ rounds = 0 /\ workRevision = 0
    /\ inputFailure = NoFailure /\ measured = {}

(* The lookup saved with a failure is used again while nothing it was made *)
(* for has changed (bind_preparation_receipt); else there is a new one: a  *)
(* plain one over the frozen sources for the plan, one by the index later. *)
AnySaved == inputFailure.saved
SavedLookup == inputFailure.saved /\ inputFailure.revision = workRevision

BindRequest ==
    /\ inputStep = "bind"
    /\ IF SavedLookup THEN lookup' = inputFailure.lookup
       ELSE lookup' \in {Found(look) : look \in IF request.planned THEN opening.lookups ELSE {opening.plain}}
    /\ inputStep' = "render" /\ keyTarget' = Targets["chief"] /\ rounds' = 0
    /\ UNCHANGED <<opening, request, inputLimit, material, workRevision, inputFailure, measured>>

RenderRequest ==
    /\ inputStep = "render" /\ ~RagRaises(lookup)
    /\ material' = Render(SoftTarget, lookup)
    /\ rounds' = Min({rounds + 1, MaxRounds})
    /\ inputStep' = "count"
    /\ UNCHANGED <<opening, request, inputLimit, lookup, keyTarget, workRevision, inputFailure, measured>>

(* Not an error of capacity: the stage fails, and nothing is saved.        *)
RenderFails ==
    /\ inputStep = "render" /\ RagRaises(lookup)
    /\ inputStep' = "failed"
    /\ UNCHANGED <<opening, request, inputLimit, lookup, keyTarget, material, rounds, workRevision, inputFailure, measured>>

Smaller(target) == IF target > Floor THEN target \div 2 ELSE 0

ShrinkTarget ==
    /\ inputStep = "count" /\ ~Fits(material, inputLimit) /\ ReportedTarget > 0
    /\ keyTarget' = Smaller(ReportedTarget)
    /\ inputStep' = "render"
    /\ UNCHANGED <<opening, request, inputLimit, lookup, material, rounds, workRevision, inputFailure, measured>>

(* InputCapacityError: the action stays unused, with the lookup it had.    *)
RefuseRequest ==
    /\ inputStep = "count" /\ ~Fits(material, inputLimit) /\ ReportedTarget = 0
    /\ inputStep' = "refused"
    /\ inputFailure' = [saved |-> TRUE, revision |-> workRevision, lookup |-> lookup]
    /\ UNCHANGED <<opening, request, inputLimit, lookup, keyTarget, material, rounds, workRevision, measured>>

ClaimRequest ==
    /\ inputStep = "count" /\ Fits(material, inputLimit)
    /\ inputStep' = "claimed"
    /\ UNCHANGED <<opening, request, inputLimit, lookup, keyTarget, material, rounds, workRevision, inputFailure, measured>>

-----------------------------------------------------------------------------
(* What the author may do before an action is tried, or tried again.       *)

BeforeTry == inputStep \in {"bind", "refused"}

(* The plan, the candidate or the note is edited before it is tried again. *)
EditWork ==
    /\ BeforeTry /\ workRevision < MaxRewrites
    /\ workRevision' = workRevision + 1 /\ measured' = {}
    /\ UNCHANGED <<opening, request, inputLimit, inputStep, lookup, keyTarget, material, rounds,
                   inputFailure>>

(* preview_input measures the request under a limit, with the saved lookup *)
(* or a plain one over the frozen sources; authorize_input repeats that    *)
(* and puts the batch back. Once there is a plan, any action that waits is *)
(* eligible, refused before or not. A request fits at some target just     *)
(* when it fits at zero.                                                   *)
PreviewLookup == IF SavedLookup THEN inputFailure.lookup ELSE Found(opening.plain)

WidenInput(limit) ==
    /\ BeforeTry /\ request.planned
    /\ ~RagRaises(PreviewLookup) /\ Fits(Render(0, PreviewLookup), limit)
    /\ inputLimit' = limit
    /\ inputStep' = "bind" /\ measured' = {PreviewLookup}
    /\ UNCHANGED <<opening, request, lookup, keyTarget, material, rounds, workRevision, inputFailure>>

NextRequest ==
    \/ BindRequest \/ RenderRequest \/ RenderFails \/ ShrinkTarget \/ RefuseRequest \/ ClaimRequest \/ EditWork
    \/ \E limit \in InputLimits : WidenInput(limit)

RequestSpec == InitRequest /\ [][NextRequest]_requestVars

Prepare == RenderRequest \/ RenderFails \/ ShrinkTarget \/ RefuseRequest \/ ClaimRequest
FairRequestSpec == RequestSpec /\ WF_requestVars(Prepare)

-----------------------------------------------------------------------------
RequestTypeOK ==
    /\ opening \in Openings /\ request \in Preparations /\ inputLimit \in InputLimits
    /\ inputStep \in {"bind", "render", "count", "refused", "failed", "claimed"}
    /\ keyTarget \in 0..Targets["chief"] /\ rounds \in 0..MaxRounds
    /\ workRevision \in 0..MaxRewrites /\ Cardinality(measured) <= 1
    /\ material.records \subseteq opening.records
    /\ material.ending \cup material.passages \subseteq Paragraphs
    /\ inputFailure.saved => inputFailure.revision \in 0..workRevision

Packed == inputStep \in {"count", "claimed", "refused"} /\ request.role \notin {"editor", "reader"}
ByKeys == request.policy # "role-rag-v2"
Spare(hit) == Weight([material EXCEPT !.records = WithHit(@, hit), !.voices = {}])

(* A packet names nothing it does not hold: what a record in it cites is   *)
(* in it, with every constraint on its time, and lore with the lore it     *)
(* names, save lore that is only there because it was cited. The people    *)
(* and the facts the task speaks of are always there. What was offered is  *)
(* there when it fits the target, and only then; the ending is a suffix of *)
(* the chapter, nothing of which is quoted again; and five rounds at most  *)
(* decide whether a request fits.                                          *)
WellPacked ==
    /\ Packed =>
        /\ Focal \cup opening.spoken \subseteq material.records
        /\ \A r \in material.records :
                /\ opening.cites[r] \subseteq material.records
                /\ opening.kind[r] = "lore" /\ r \notin CitedBy(material.records) =>
                       NamedBy({r}) \subseteq material.records
        /\ rounds <= 5
    /\ Packed /\ ByKeys =>
        /\ \A c \in Of("constraint") :
                opening.cites[c] \cap material.records # {} => c \in material.records
        /\ Weight(material) <= SoftTarget \/ material = Render(0, lookup)
        /\ \A i \in DOMAIN lookup.records :
                \/ lookup.records[i] \in material.records
                \/ Spare(lookup.records[i]) > SoftTarget
        /\ \A p \in material.ending : p..LastParagraph \subseteq material.ending
        /\ material.ending \cap material.passages = {}

(* What a packet must quote of a lookup, whatever its target: only the     *)
(* chief's, and its first paragraph only.                                  *)
Quoted(look) ==
    IF request.role = "chief" /\ request.policy = "chief-focus-v4" THEN Length(FirstQuote(look)) ELSE 0

(* A limit that a preview found to be enough is enough for the request     *)
(* that is sent, though the preview looks passages up in another way than  *)
(* the request does (which the older policy does not promise), with one    *)
(* exception: a checkpoint of the chief whose own lookup makes it quote a  *)
(* longer paragraph than the preview saw. And no request is sent with a    *)
(* lookup made for another text.                                           *)
LimitIsKept ==
    /\ inputStep = "refused" /\ ByKeys =>
           \A look \in measured : Quoted(lookup) > Quoted(look)
    /\ inputStep = "claimed" => lookup.revision = workRevision

(* Both (key_materials.py, knowledge_binding.py, request_preparation.py).   *)
RequestIsSound == WellPacked /\ LimitIsKept

(* runtime.py:581, "Keep the exact unused action, evidence and lookup so   *)
(* an explicit budget preview can resume safely": a preparation comes to   *)
(* a claim or to a refusal the author can act on.                          *)
PreparationEnds == (inputStep = "render") ~> (inputStep \in {"claimed", "refused", "failed"})

=============================================================================
