------------------------------ MODULE StageFacts ------------------------------
(***************************************************************************)
(* The facts of a stage: how a report on a unit of text is compiled into   *)
(* changes of the story state (generation/reports.py, lifecycle.py), how   *)
(* the changes of all units are collected (longform.py), handed out to the *)
(* chapters the text is cut into, and adopted with the first chapters      *)
(* (stage_adoption.py), and what a story state must satisfy                *)
(* (domain/state.py, domain/plot.py).                                      *)
(*                                                                         *)
(* A text is a sequence of paragraphs.  Evidence names a chapter, a        *)
(* paragraph in it and its words: in a report the chapter is the unit, in  *)
(* the formal state it must be a chapter of the book.                      *)
(***************************************************************************)
EXTENDS Integers, Sequences, FiniteSets, FiniteSetsExt, SequencesExt, TLC

CONSTANTS
    Reports,        \* what a model may report of a unit: sequences of raw changes
    UnitLength,     \* paragraphs of a unit
    MaxUnits,       \* search bound: units of each stage
    MaxEditions     \* search bound: rewrites by the author of the candidate of each stage

FactKinds == {"thing", "scene", "promise", "hint"}

ASSUME FactsAssumption ==
    /\ UnitLength \in Nat \ {0} /\ MaxUnits \in Seq(Nat)
    /\ MaxEditions \in [DOMAIN MaxUnits -> Nat]
    /\ \A r \in Reports : r \in Seq([kind : FactKinds, known : BOOLEAN, ref : Nat,
                                     at : SUBSET Nat, action : {"established", "advanced", "fulfilled"}])

VARIABLES
    bodies,         \* the formal chapters, in their order
    facts,          \* the formal story state: the objects by their ids
    part,          \* the number of the stage
    body,           \* the candidate
    edition,        \* how often the author rewrote it
    units,          \* the units of the candidate, and what was reported of each
    segments        \* the last paragraph of each chapter the candidate is cut into

factsVars == <<bodies, facts, part, body, edition, units, segments>>

-----------------------------------------------------------------------------
(* Objects and their evidence.                                             *)

NoHome == [name |-> <<>>, ordinal |-> 0]
PassageOf(c, at, quote) == [chapter |-> c, at |-> at, quote |-> quote]
EventOf(action, c, spans) == [action |-> action, chapter |-> c, spans |-> spans]
ObjectOf(kind, refs, closed, home, history) ==
    [kind |-> kind, refs |-> refs, closed |-> closed, home |-> home, history |-> history]

Ids(state) == DOMAIN state
OlderWins(state, additions) == [x \in Ids(state) \cup Ids(additions) |->
                                IF x \in Ids(state) THEN state[x] ELSE additions[x]]
Joined(state, additions) == [x \in Ids(state) \cup Ids(additions) |->
                                IF x \in Ids(additions) THEN additions[x] ELSE state[x]]

PassagesOf(o) == UNION {o.history[i].spans : i \in DOMAIN o.history}
Homes(state) == {state[x].home : x \in {y \in Ids(state) : state[y].kind = "scene"}}

Closed(state) == \A x \in Ids(state) : state[x].refs \subseteq Ids(state)

(* ReaderPromise.validate_history and Foreshadowing.validate_chapters.     *)
Chronological(o) == \A i, j \in DOMAIN o.history :
                  i < j => o.history[i].chapter.ordinal <= o.history[j].chapter.ordinal
HistoryHolds(o) ==
    /\ o.history[1].action = "established" /\ Chronological(o)
    /\ o.closed = (Last(o.history).action = "fulfilled")
NeverBack(o) == o.history[1].chapter.ordinal <= Last(o.history).chapter.ordinal

(* StoryState.validate_references.  A chapter has the scenes that name it. *)
PromisesHaveScenes(state) ==
    \A x \in Ids(state) : state[x].kind = "promise" =>
        \A s \in PassagesOf(state[x]) : \E h \in Homes(state) : h.name = s.chapter.name

ValidState(state) ==
    /\ Closed(state) /\ PromisesHaveScenes(state)
    /\ \A x \in Ids(state) : /\ (state[x].kind = "promise" => HistoryHolds(state[x]))
                             /\ (state[x].kind = "hint" => NeverBack(state[x]))
    /\ \A g, h \in Homes(state) : g.ordinal = h.ordinal => g.name = h.name

-----------------------------------------------------------------------------
(* A report is compiled change by change.  A change may wait for one that  *)
(* comes before it; what cannot be compiled is noted and left out.         *)

NewId(text, i)       == <<text, i>>
KnownOf(state, kind) == {x \in Ids(state) : state[x].kind = kind /\ ~state[x].closed}

(* The object a raw change is about: the model names one it was shown.     *)
About(report, before, text, i) ==
    IF report[i].known /\ KnownOf(before, report[i].kind) # {}
    THEN CHOOSE x \in KnownOf(before, report[i].kind) : TRUE ELSE NewId(text, i)

PassagesAt(text, c, at) == {PassageOf(c, p, text[p]) : p \in at}

(* compile_lifecycle, after the value is put together.                     *)
Compiled(report, before, text, c, w, i) ==
    LET raw   == report[i]
        about == About(report, before, text, i)
        refs  == IF raw.ref = 0 THEN {} ELSE {About(report, before, text, raw.ref)}
        prior == IF about \in Ids(w) THEN w[about] ELSE ObjectOf(raw.kind, {}, FALSE, NoHome, <<>>)
        event == EventOf(raw.action, c, PassagesAt(text, c, raw.at))
    IN  CASE raw.kind = "thing" -> [prior EXCEPT !.refs = @ \cup refs]
          [] raw.kind = "scene" -> [prior EXCEPT !.refs = @ \cup refs, !.home = c]
          [] OTHER -> [prior EXCEPT !.refs = @ \cup refs, !.closed = (raw.action = "fulfilled"),
                                    !.history = Append(@, event)]

Nonsense(report, before, text, i) ==
    LET raw == report[i] IN
    \/ raw.at = {} \/ ~(raw.at \subseteq DOMAIN text)
    \/ raw.known /\ KnownOf(before, raw.kind) = {}
    \/ raw.known /\ raw.kind = "scene"
    \/ raw.ref >= i

SeenBefore(report, before, text, done, i) ==
    \E j \in done : /\ About(report, before, text, j) = About(report, before, text, i)
                    /\ report[j].kind = report[i].kind

Passed(report, before, text, done, pending, i) ==
    /\ report[i].known
    /\ \E j \in pending : j < i /\ report[j].known /\ report[j].kind = report[i].kind

ScenesMayFollow(report, c, w, pending, i) == FALSE
AwaitsScene(report, c, w, pending, i) ==
    /\ report[i].kind = "promise" /\ \A h \in Homes(w) : h.name # c.name
    /\ \E j \in pending : report[j].kind = "scene"

Waits(report, before, text, c, p, i) ==
    \/ Passed(report, before, text, p.done, p.pending, i)
    \/ report[i].ref \in p.pending
    \/ AwaitsScene(report, c, p.working, p.pending, i)

Accepts(report, before, text, c, p, i) ==
    /\ report[i].ref \in p.done \cup {0}
    /\ ValidState((About(report, before, text, i) :> Compiled(report, before, text, c, p.working, i))
                      @@ p.working)

Compile1(report, before, text, c, p, i) ==
    IF Nonsense(report, before, text, i) \/ SeenBefore(report, before, text, p.done, i)
    THEN [p EXCEPT !.pending = @ \ {i}]
    ELSE IF Waits(report, before, text, c, p, i) THEN p
    ELSE IF ~Accepts(report, before, text, c, p, i) THEN [p EXCEPT !.pending = @ \ {i}]
    ELSE LET about == About(report, before, text, i)
             value == Compiled(report, before, text, c, p.working, i)
         IN  [working |-> (about :> value) @@ p.working, done |-> p.done \cup {i},
              pending |-> p.pending \ {i},
              changes |-> [p.changes EXCEPT ![i] = [id |-> about, value |-> value, at |-> report[i].at]]]

(* Every pass over the pending changes settles one of them, or is the last.*)
MemoryResult(report, before, text, c) ==
    LET start == [working |-> before, done |-> {}, pending |-> DOMAIN report,
                  changes |-> [i \in DOMAIN report |-> <<>>]]
        Pass(p) == FoldLeft(LAMBDA q, i : Compile1(report, before, text, c, q, i), p,
                            SetToSortSeq(p.pending, <))
    IN  FoldLeft(LAMBDA p, i : Pass(p), start, report)

-----------------------------------------------------------------------------
(* The stage: its units, the changes of all of them, and the chapters the  *)
(* candidate is cut into.                                                  *)

First == Len(bodies) + 1

Untold(c, from, to) ==
    [chapter |-> c, start |-> from, end |-> to, changes |-> <<>>, told |-> FALSE, working |-> facts]

TextOf(u) == SubSeq(body, u.start + 1, u.end)

ToldUnit(u, report, before) ==
    LET result == MemoryResult(report, before, TextOf(u), u.chapter)
        kept   == SetToSortSeq(result.done, <)
    IN  [u EXCEPT !.told = TRUE, !.working = result.working,
                  !.changes = [i \in DOMAIN kept |-> [result.changes[kept[i]] EXCEPT
                                  !.at = {q + u.start : q \in @}]]]

(* aggregate_memory: the changes of the units, in the order of the units.  *)
Changes == FlattenSeq([i \in DOMAIN units |-> units[i].changes])

SegmentStart(k) == IF k = 1 THEN 0 ELSE segments[k - 1]
SegmentName(k)  == [name |-> <<"chapter", part, segments[k]>>, ordinal |-> First + k - 1]
SegmentText(k)  == SubSeq(body, SegmentStart(k) + 1, segments[k])
SegmentOf(p)    == Min({k \in DOMAIN segments : p <= segments[k]} \cup {Len(segments) + 1})
LastCut         == IF segments = <<>> THEN 0 ELSE Last(segments)

FirstPassage(x) == SegmentOf(Min(x.at))
(* The chapter in which the last passage of a change becomes available.    *)
CompletedIn(x) == SegmentOf(Max(x.at))

Declares(i) == /\ Changes[i].id \notin Ids(facts)
               /\ \A j \in 1..(i - 1) : Changes[j].id # Changes[i].id
Order == [i \in DOMAIN Changes |-> i]
Needs(i) == {j \in DOMAIN Changes : /\ Declares(j) /\ Changes[j].id # Changes[i].id
                                    /\ Changes[j].id \in Changes[i].value.refs}

OwnWordsOnly(owners, i) == owners[i]
OwnerOf(owners, i)    == Max({owners[i]} \cup {owners[j] : j \in Needs(i)})

(* Completion order, including transitive new-object dependencies.         *)
Owners ==
    LET Round(owners) == FoldLeft(LAMBDA o, i : [o EXCEPT ![i] = OwnerOf(o, i)], owners, Order)
    IN  FoldLeft(LAMBDA o, i : Round(o), [i \in DOMAIN Changes |-> CompletedIn(Changes[i])], Order)

(* remap_value: evidence moves from its unit to the chapter it fell into,  *)
(* and an event takes the chapter of its last passage.                     *)
RemapSpan(s) ==
    LET home == {u \in ToSet(units) : u.chapter = s.chapter} IN
    IF home = {} THEN s
    ELSE LET place  == (CHOOSE u \in home : TRUE).start + s.at
             number == SegmentOf(place)
         IN  PassageOf(SegmentName(number), place - SegmentStart(number), s.quote)

FirstChapter(spans) == (CHOOSE s \in spans : \A t \in spans : s.chapter.ordinal <= t.chapter.ordinal).chapter
LastChapter(spans) == (CHOOSE s \in spans : \A t \in spans : t.chapter.ordinal <= s.chapter.ordinal).chapter

RemapEvent(e) ==
    LET spans == {RemapSpan(s) : s \in e.spans} IN EventOf(e.action, LastChapter(spans), spans)

RemapValue(o, k) ==
    [o EXCEPT !.history = [i \in DOMAIN @ |-> RemapEvent(@[i])],
              !.home = IF o.kind = "scene" THEN SegmentName(k) ELSE @]

(* chapter_suggestions: what each chapter would add to the formal state;   *)
(* a later change of the same object overrides the earlier one.            *)
Suggestions ==
    LET changes == Changes
        owners  == Owners
        mine(k) == {i \in DOMAIN changes : owners[i] = k}
        last(k, x) == changes[Max({i \in mine(k) : changes[i].id = x})]
    IN  [k \in DOMAIN segments |->
            [x \in {changes[i].id : i \in mine(k)} |-> RemapValue(last(k, x).value, k)]]

-----------------------------------------------------------------------------
(* Adoption of the first chapters.                                         *)

AdoptedBodies(k) == bodies \o [i \in 1..k |-> [name |-> SegmentName(i), text |-> SegmentText(i)]]

AnyReferences(changes, chapters) == TRUE
(* validate_chapter_references, and the check for provisional units.       *)
ReferencesHold(changes, chapters) ==
    \A x \in Ids(changes) :
        /\ \A s \in PassagesOf(changes[x]) :
               \E i \in DOMAIN chapters : /\ chapters[i].name = s.chapter
                                          /\ s.at <= Len(chapters[i].text)
                                          /\ chapters[i].text[s.at] = s.quote
        /\ changes[x].kind = "scene" => \E i \in DOMAIN chapters : chapters[i].name = changes[x].home
        /\ \A i \in DOMAIN changes[x].history :
               changes[x].history[i].chapter.ordinal <= Len(chapters)

(* What the author may put into the forms of the chapters.                 *)
Approvals(k) ==
    LET all == Suggestions IN
    {[i \in 1..k |-> all[i]], [i \in 1..k |-> <<>>]}
        \cup {[i \in 1..k |-> all[IF i = k THEN i + 1 ELSE i]] : q \in {1} \cap {Len(segments) - k}}

StateAfter(approved, k) == FoldLeft(Joined, facts, SubSeq(approved, 1, k))

CanAdopt(approved) ==
    /\ \A u \in ToSet(units) : u.told
    /\ \A i \in DOMAIN approved : /\ ReferencesHold(approved[i], AdoptedBodies(i))
                                  /\ ValidState(StateAfter(approved, i))

-----------------------------------------------------------------------------

FactsInit ==
    /\ bodies = <<>> /\ facts = <<>> /\ part = 1 /\ body = <<>> /\ edition = 0
    /\ units = <<>> /\ segments = <<>>

(* compile_longform, writer: the text grows by a unit; what was reported   *)
(* and cut before is bound to the text without it.                         *)
WriteUnit ==
    LET next == Len(units) + 1 IN
    /\ edition = 0 /\ part \in DOMAIN MaxUnits /\ next <= MaxUnits[part]
    /\ ~(units # <<>> /\ ~Last(units).told)
    /\ body' = body \o [p \in 1..UnitLength |-> <<part, 0, Len(body) + p>>]
    /\ units' = Append(units, Untold([name |-> <<"unit", part, next>>, ordinal |-> First + next - 1],
                                     Len(body), Len(body) + UnitLength))
    /\ segments' = <<>>
    /\ UNCHANGED <<bodies, facts, part, edition>>

(* segment_units cuts where a unit ends, segment_body at any paragraph.    *)
Cuts == {SetToSortSeq(C, <) : C \in (SUBSET DOMAIN body) \ {{}}}

(* compile_longform, memory: the report is compiled against the state the  *)
(* unit before left, all changes are collected and the chapters are cut.   *)
TellMemory ==
    \E r \in Reports, cut \in Cuts :
        /\ units # <<>> /\ ~Last(units).told
        /\ LET before == IF Len(units) = 1 THEN facts ELSE units[Len(units) - 1].working
           IN  units' = [units EXCEPT ![Len(units)] = ToldUnit(@, r, before)]
        /\ segments' = cut
        /\ UNCHANGED <<bodies, facts, part, body, edition>>

(* edit_candidate: units and reports are gone, the text is one chapter.    *)
EditBody ==
    /\ body # <<>> /\ edition < MaxEditions[part]
    /\ edition' = edition + 1
    /\ body' = [p \in DOMAIN body |-> <<part, edition + 1, p>>]
    /\ units' = <<>>
    /\ segments' \in Cuts
    /\ UNCHANGED <<bodies, facts, part>>

(* The whole text is read again as one unit, against the formal state.     *)
RebuildFacts ==
    \E r \in Reports, cut \in Cuts :
        /\ body # <<>> /\ edition > 0 /\ units = <<>>
        /\ units' = <<ToldUnit(Untold([name |-> <<"rebuilt", part, edition>>, ordinal |-> First],
                                      0, Len(body)), r, facts)>>
        /\ segments' = cut
        /\ UNCHANGED <<bodies, facts, part, body, edition>>

AdoptFirst ==
    \E k \in DOMAIN segments : \E approved \in Approvals(k) :
        /\ CanAdopt(approved)
        /\ bodies' = AdoptedBodies(k)
        /\ facts' = StateAfter(approved, k)
        /\ part' = part + 1
        /\ body' = <<>> /\ edition' = 0 /\ units' = <<>> /\ segments' = <<>>

NextFacts == WriteUnit \/ TellMemory \/ EditBody \/ RebuildFacts \/ AdoptFirst

FactsSpec == FactsInit /\ [][NextFacts]_factsVars

-----------------------------------------------------------------------------
(* Properties.                                                             *)

FactsTypeOK ==
    /\ \A i \in DOMAIN bodies : bodies[i].name.name[1] = "chapter" /\ bodies[i].text \in Seq(Seq(Nat))
    /\ \A x \in Ids(facts) : facts[x].kind \in FactKinds /\ facts[x].closed \in BOOLEAN
    /\ part \in 1..(Len(MaxUnits) + 1) /\ edition \in Nat
    /\ \A u \in ToSet(units) : u.end <= Len(body) /\ u.told \in BOOLEAN
    /\ segments \in Seq(DOMAIN body)

(* Evidence in the formal state is in a formal chapter, at its ordinal and *)
(* in the words of that chapter, and nothing is dated before its evidence. *)
FormalEvidence ==
    /\ ValidState(facts)
    /\ \A x \in Ids(facts) : \A s \in PassagesOf(facts[x]) :
           LET n == s.chapter.ordinal IN
           /\ n \in DOMAIN bodies /\ bodies[n].name = s.chapter
           /\ bodies[n].text[s.at] = s.quote
    /\ \A x \in Ids(facts) : \A e \in ToSet(facts[x].history) : \A s \in e.spans :
           s.chapter.ordinal <= e.chapter.ordinal

(* Whatever the number of chapters adopted, what is suggested for them     *)
(* refers to nothing of a later chapter and keeps every history in order.  *)
SuggestionsStandAlone ==
    LET all == Suggestions IN
    \A k \in DOMAIN segments :
        LET after == StateAfter(all, k) IN
        /\ Closed(after)
        /\ ReferencesHold(all[k], AdoptedBodies(k))
        /\ \A x \in Ids(after) : Chronological(after[x])

(* When all of the text is cut into chapters, they together suggest what   *)
(* the reports found: nothing is lost, nothing older replaces what is newer.*)
Gist(o) == [refs |-> o.refs, closed |-> o.closed,
            told |-> [i \in DOMAIN o.history |-> <<o.history[i].action,
                                                   {s.quote : s \in o.history[i].spans}>>]]
NothingIsLost ==
    (segments # <<>> /\ LastCut = Len(body) /\ units # <<>>) =>
        LET found == Last(units).working
            all   == StateAfter(Suggestions, Len(segments))
        IN  /\ Ids(all) = Ids(found)
            /\ \A x \in Ids(found) : Gist(all[x]) = Gist(found[x])

FactsAreSound == FormalEvidence /\ SuggestionsStandAlone /\ NothingIsLost

=============================================================================
