--------------------------- MODULE Library_proofs ---------------------------
(***************************************************************************)
(* What is read of a book: every rule of a style comes from passages of    *)
(* its own story, the reading desk shows what a version says, and a model  *)
(* is told of the version its batch began with, for any texts, stories and *)
(* versions, whatever is changed meanwhile.                                *)
(***************************************************************************)
EXTENDS ReferenceStyles, Reading, Retrieval, FiniteSetTheorems, SequenceTheorems,
        WellFoundedInduction, TLAPS

-----------------------------------------------------------------------------
(* The passages that are offered.                                          *)

LEMMA LeastOf ==
  ASSUME NEW S \in SUBSET Nat, S # {}
  PROVE  \E x \in S : \A y \in S : x <= y
<1>1. PICK x \in S : \A y \in S : <<y, x>> \notin OpToRel(<, Nat)
    BY NatLessThanWellFounded, WFMin
<1>2. \A y \in S : ~(y < x)
    BY <1>1 DEF OpToRel
<1> QED BY <1>2

LEMMA GreatestOf ==
  ASSUME NEW n \in Nat, NEW S \in SUBSET (0 .. n), S # {}
  PROVE  \E x \in S : \A y \in S : y <= x
<1> DEFINE T == {n - x : x \in S}
<1>0. \A x \in S : n - x \in Nat
    OBVIOUS
<1>1. T \in SUBSET Nat /\ T # {}
    BY <1>0
<1>2. PICK t \in T : \A u \in T : t <= u
    BY <1>1, LeastOf
<1>3. PICK x \in S : t = n - x
    OBVIOUS
<1>4. \A y \in S : n - y \in T
    OBVIOUS
<1> HIDE DEF T
<1>5. \A y \in S : n - x <= n - y
    BY <1>2, <1>3, <1>4
<1> QED BY <1>5

Passage == [chapter : Nat, start : Nat, kind : Categories, score : Nat]

LEMMA OutranksOrders ==
  \A s, t, u \in Passage : /\ ~Outranks(s, s)
                           /\ Outranks(s, t) /\ Outranks(t, u) => Outranks(s, u)
BY DEF Outranks, Passage

LEMMA FirstExists ==
  ASSUME NEW S \in SUBSET Passage, IsFiniteSet(S), NEW s \in S,
         \A x, y \in S : x = y \/ <<x.chapter, x.start>> # <<y.chapter, y.start>>
  PROVE  \E v \in S : v.chapter = s.chapter /\ FirstOfChapter(S, v)
<1> DEFINE T == {x \in S : x.chapter = s.chapter}
           before(x) == {y \in T : Outranks(y, x)}
           counts == {Cardinality(before(x)) : x \in T}
<1>1. IsFiniteSet(T) /\ s \in T /\ T \subseteq Passage
    BY FS_Subset
<1>2. \A x \in T : IsFiniteSet(before(x)) /\ Cardinality(before(x)) \in Nat
  <2> TAKE x \in T
  <2>1. before(x) \subseteq T
    OBVIOUS
  <2> QED BY <1>1, <2>1, FS_Subset, FS_CardinalityType
<1>3. counts \in SUBSET Nat /\ counts # {}
    BY <1>1, <1>2
<1>4. PICK n \in counts : \A m \in counts : n <= m
    BY <1>3, LeastOf
<1>5. PICK v \in T : n = Cardinality(before(v))
    OBVIOUS
<1>6. ASSUME NEW y \in T, Outranks(y, v)
      PROVE  FALSE
  <2>1. before(y) \subseteq before(v)
    BY <1>1, <1>6, OutranksOrders
  <2>2. y \in before(v) /\ y \notin before(y)
    BY <1>1, <1>6, OutranksOrders
  <2>3. before(y) # before(v)
    BY <2>2
  <2>4. Cardinality(before(y)) < Cardinality(before(v))
    <3>1. IsFiniteSet(before(v))
      BY <1>2
    <3>2. Cardinality(before(y)) <= Cardinality(before(v)) /\ Cardinality(before(y)) # Cardinality(before(v))
      BY <2>1, <2>3, <3>1, FS_Subset
    <3>3. Cardinality(before(y)) \in Nat /\ Cardinality(before(v)) \in Nat
      BY <1>2
    <3> HIDE DEF before
    <3> QED BY <3>2, <3>3
  <2>5. Cardinality(before(y)) \in counts
    OBVIOUS
  <2>6. Cardinality(before(v)) <= Cardinality(before(y))
    BY <1>4, <1>5, <2>5
  <2>7. Cardinality(before(y)) \in Nat /\ Cardinality(before(v)) \in Nat
    BY <1>2
  <2> HIDE DEF before, counts
  <2> QED BY <2>4, <2>6, <2>7
<1>7. ASSUME NEW t \in S, t.chapter = v.chapter, v # t
      PROVE  Outranks(v, t)
  <2>1. t \in T /\ t \in Passage /\ v \in Passage /\ v \in S
    BY <1>7
  <2>2. ~Outranks(t, v)
    BY <1>6, <2>1
  <2>3. t.start # v.start
    BY <1>7, <2>1
  <2>4. t.score \in Nat /\ v.score \in Nat /\ t.start \in Nat /\ v.start \in Nat /\ t.chapter \in Nat
    BY <2>1 DEF Passage
  <2> HIDE DEF T
  <2> QED BY <1>7, <2>2, <2>3, <2>4 DEF Outranks
<1> QED BY <1>7 DEF FirstOfChapter

(* A chapter gives a second passage of a kind only when all gave a first.  *)
LEMMA OfferedFairly ==
  ASSUME NEW c \in Contents, NEW kind \in Categories, NEW s \in Candidates(c, kind), NEW t \in Candidates(c, kind),
         s # t, s.chapter = t.chapter, NEW u \in Qualified(c), u.kind = kind
  PROVE  \E v \in Candidates(c, kind) : v.chapter = u.chapter
<1> DEFINE pool == {x \in Qualified(c) : x.kind = kind}
           before(x) == {y \in pool : DiverseFirst(pool, y, x)}
<1>1. /\ pool \in SUBSET Passage /\ IsFiniteSet(pool)
      /\ \A x, y \in pool : x = y \/ <<x.chapter, x.start>> # <<y.chapter, y.start>>
  <2>1. /\ IsFiniteSet(Texts[c]) /\ Texts[c] \subseteq Passage
        /\ \A x, y \in Texts[c] : x = y \/ <<x.kind, x.chapter, x.start>> # <<y.kind, y.chapter, y.start>>
    BY TextsAssumption DEF Contents, Passage
  <2>2. pool \subseteq Texts[c]
    BY DEF Qualified
  <2> QED BY <2>1, <2>2, FS_Subset
<1>2. Candidates(c, kind) = {x \in pool : Cardinality(before(x)) < Quota}
    BY DEF Candidates
<1>3. s \in pool /\ t \in pool /\ u \in pool
    BY <1>2
<1> HIDE DEF pool
<1>4. PICK w \in {s, t} : ~FirstOfChapter(pool, w)
  <2>1. ~(Outranks(s, t) /\ Outranks(t, s))
    BY <1>1, <1>3, OutranksOrders
  <2> QED BY <1>3, <2>1 DEF FirstOfChapter
<1>5. PICK v \in pool : v.chapter = u.chapter /\ FirstOfChapter(pool, v)
    BY <1>1, <1>3, FirstExists
<1>6. w \in pool /\ Cardinality(before(w)) < Quota
    BY <1>2, <1>3
<1>7. before(v) \subseteq before(w)
    BY <1>4, <1>5 DEF DiverseFirst
<1>8. IsFiniteSet(before(w))
  <2>1. before(w) \subseteq pool
    OBVIOUS
  <2> QED BY <1>1, <2>1, FS_Subset
<1>9. Cardinality(before(v)) <= Cardinality(before(w)) /\ Cardinality(before(v)) \in Nat /\ Cardinality(before(w)) \in Nat
    BY <1>7, <1>8, FS_Subset, FS_CardinalityType
<1>10. Quota \in Nat
    BY TextsAssumption
<1> HIDE DEF before
<1>11. Cardinality(before(v)) < Quota
    BY <1>6, <1>9, <1>10
<1> QED BY <1>2, <1>5, <1>11

-----------------------------------------------------------------------------
(* The rows of styles.                                                     *)

Rules == [dimension : Dimensions, evidence : SUBSET SampleIds]

StyleRows ==
    [story : Stories \cup {NoStory}, version : Nat, status : {"draft", "active", "superseded"},
     rules : SUBSET Rules, provenance : SUBSET SampleIds, tested : BOOLEAN]

Drafts      == [op : {"draft"}, story : Stories, style : {0}, seen : SUBSET SampleIds, rules : SUBSET Rules, version : Nat]
Edits       == [op : {"edit"}, story : Stories, style : Nat, seen : {{}}, rules : SUBSET Rules, version : {0}]
Activations == [op : {"activate"}, story : Stories, style : Nat, seen : SUBSET Nat, rules : {{}}, version : {0}]

StylesTyped ==
    /\ file \in Contents \cup {NoText}
    /\ manifests \in [Stories -> (SUBSET Contents) \cup {{NoText}}]
    /\ samples \in [SampleIds -> [owner : Stories \cup {NoStory}, status : Statuses, likes : SUBSET Dimensions]]
    /\ styles \in Seq(StyleRows)
    /\ globalStyle \in 0..Len(styles)
    /\ desks \in [Desks -> Drafts \cup Edits \cup Activations \cup {FreeDesk}]

\* Rules that point to some of the passages they were drafted from.
Pointed(rules, passages) == rules # {} /\ \A r \in rules : r.evidence # {} /\ r.evidence \subseteq passages

\* The rows of a story are of contents it has registered; a deleted story has none.
SamplesOwned ==
    \A id \in SampleIds : samples[id].owner # NoStory =>
        /\ id[1] \in manifests[samples[id].owner]
        /\ NoText \notin manifests[samples[id].owner]

\* A style keeps the passages it was drafted from; its version is its own.
StylesSound ==
    \A n \in DOMAIN styles :
        /\ styles[n].status = "active" => styles[n].tested
        /\ styles[n].version \in 0..Len(styles)
        /\ Pointed(styles[n].rules, styles[n].provenance)
        /\ styles[n].story # NoStory =>
             /\ NoText \notin manifests[styles[n].story]
             /\ \A id \in styles[n].provenance : samples[id].owner = styles[n].story
             /\ \A k \in DOMAIN styles :
                  styles[k].story = styles[n].story /\ styles[k].version = styles[n].version => k = n

\* What a command holds: an edit stays within the passages of its style, and a draft has its
\* passages unless its story was deleted meanwhile.
DesksSound ==
    \A d \in Desks : desks[d] # FreeDesk =>
        /\ desks[d].op = "draft" =>
             /\ desks[d].version \in 0..(Len(styles) + 1)
             /\ Pointed(desks[d].rules, desks[d].seen)
             /\ NoText \notin manifests[desks[d].story] => \A id \in desks[d].seen : samples[id].owner = desks[d].story
        /\ desks[d].op = "edit" =>
             desks[d].style \in DOMAIN styles /\ Pointed(desks[d].rules, styles[desks[d].style].provenance)

StylesInv ==
    /\ StylesTyped /\ SamplesOwned /\ StylesSound /\ DesksSound
    /\ globalStyle # 0 => globalStyle \in Present

-----------------------------------------------------------------------------
LEMMA StyleFields ==
  ASSUME StylesTyped, NEW n \in DOMAIN styles
  PROVE  /\ n \in 1..Len(styles) /\ Len(styles) \in Nat
         /\ styles[n] \in StyleRows
         /\ styles[n].story \in Stories \cup {NoStory} /\ styles[n].version \in Nat
         /\ styles[n].rules \in SUBSET Rules /\ styles[n].provenance \in SUBSET SampleIds
<1>1. styles[n] \in StyleRows /\ n \in 1..Len(styles) /\ Len(styles) \in Nat
    BY DEF StylesTyped
<1> QED BY <1>1 DEF StyleRows

LEMMA StylesStart == InitStyles => StylesInv
<1> SUFFICES ASSUME InitStyles PROVE StylesInv
    OBVIOUS
<1> USE DEF InitStyles
<1>1. StylesTyped
    BY DEF StylesTyped, NoSample, Statuses
<1>2. SamplesOwned
    BY DEF SamplesOwned, NoSample
<1>3. StylesSound /\ DesksSound /\ globalStyle = 0
    BY DEF StylesSound, DesksSound
<1> QED BY <1>1, <1>2, <1>3 DEF StylesInv

LEMMA StylesStutter ==
  ASSUME StylesInv, UNCHANGED styleVars
  PROVE  StylesInv'
BY DEF styleVars, StylesInv, StylesTyped, SamplesOwned, StylesSound, DesksSound, Present

\* What is said of rows and desks says nothing of the file, and reviews.
LEMMA FileKeeps ==
  ASSUME StylesInv, NEW c \in Contents \cup {NoText}, FileChanges(c)
  PROVE  StylesInv'
BY DEF FileChanges, StylesInv, StylesTyped, SamplesOwned, StylesSound, DesksSound, Present

LEMMA ReviewKeeps ==
  ASSUME StylesInv, NEW p \in Stories, NEW id \in SampleIds, NEW status \in Statuses, NEW likes \in SUBSET Dimensions,
         ReviewSample(p, id, status, likes)
  PROVE  StylesInv'
<1> USE DEF ReviewSample, StylesInv
<1>1. StylesTyped'
    BY DEF StylesTyped
<1>2. \A x \in SampleIds : samples'[x].owner = samples[x].owner
    BY DEF StylesTyped
<1>3. SamplesOwned'
    BY <1>2 DEF SamplesOwned
<1>4. \A n \in DOMAIN styles : styles[n].provenance \subseteq SampleIds
    BY StyleFields
<1>5. StylesSound'
    BY <1>2, <1>4 DEF StylesSound
<1>6. \A d \in Desks : desks[d] # FreeDesk /\ desks[d].op = "draft" => desks[d].seen \subseteq SampleIds
    BY DEF StylesTyped, Drafts, Edits, Activations
<1>7. DesksSound'
    BY <1>2, <1>6 DEF DesksSound
<1> QED BY <1>1, <1>3, <1>5, <1>7 DEF Present

LEMMA RegisterKeeps ==
  ASSUME StylesInv, NEW p \in Stories, Register(p)
  PROVE  StylesInv'
<1> USE DEF Register, StylesInv
<1>0. file \in Contents /\ p # NoStory /\ NoText # file
    BY TextsAssumption DEF StylesTyped
<1>1. StylesTyped'
  <2>1. manifests[p] \in SUBSET Contents
    <3>1. manifests[p] \in SUBSET Contents \/ manifests[p] = {NoText}
      BY DEF StylesTyped
    <3>2. NoText \notin manifests[p]
      OBVIOUS
    <3> QED BY <3>1, <3>2
  <2>2. manifests' \in [Stories -> (SUBSET Contents) \cup {{NoText}}]
    BY <1>0, <2>1 DEF StylesTyped
  <2>3. samples' \in [SampleIds -> [owner : Stories \cup {NoStory}, status : Statuses, likes : SUBSET Dimensions]]
    BY DEF StylesTyped, NoSample, Statuses
  <2> QED BY <2>2, <2>3 DEF StylesTyped
<1>2. \A x \in SampleIds : samples[x].owner # NoStory => samples'[x] = samples[x]
    BY DEF StylesTyped
<1>3. \A q \in Stories : /\ manifests[q] \subseteq manifests'[q]
                         /\ NoText \in manifests'[q] <=> NoText \in manifests[q]
    BY <1>0 DEF StylesTyped
<1>4. SamplesOwned'
  <2> SUFFICES ASSUME NEW id \in SampleIds, samples'[id].owner # NoStory
               PROVE  /\ id[1] \in manifests'[samples'[id].owner]
                      /\ NoText \notin manifests'[samples'[id].owner]
    BY DEF SamplesOwned
  <2>1. CASE id[1] = file
    <3>1. samples'[id].owner = p
      BY <2>1 DEF NoSample
    <3>2. file \in manifests'[p]
      BY DEF StylesTyped
    <3>3. NoText \notin manifests'[p]
      BY <1>3
    <3> QED BY <2>1, <3>1, <3>2, <3>3
  <2>2. CASE id[1] # file
    <3>1. samples'[id] = samples[id]
      BY <2>2
    <3>2. samples[id].owner \in Stories
      BY <3>1 DEF StylesTyped
    <3> QED BY <1>3, <3>1, <3>2 DEF SamplesOwned
  <2> QED BY <2>1, <2>2
<1>5. StylesSound'
  <2>1. \A n \in DOMAIN styles : /\ styles[n].provenance \subseteq SampleIds
                                 /\ styles[n].story \in Stories \cup {NoStory}
    BY StyleFields
  <2>2. \A n \in DOMAIN styles : styles[n].story # NoStory =>
          /\ NoText \notin manifests'[styles[n].story]
          /\ \A id \in styles[n].provenance : samples'[id].owner = styles[n].story
    BY <1>2, <1>3, <2>1 DEF StylesSound
  <2> QED BY <2>2 DEF StylesSound
<1>6. DesksSound'
  <2>1. \A d \in Desks : desks[d] # FreeDesk /\ desks[d].op = "draft" =>
          desks[d].seen \subseteq SampleIds /\ desks[d].story \in Stories
    BY DEF StylesTyped, Drafts, Edits, Activations
  <2>2. NoStory \notin Stories
    BY TextsAssumption
  <2>3. \A d \in Desks : desks[d] # FreeDesk /\ desks[d].op = "draft" /\ NoText \notin manifests'[desks[d].story]
          => \A id \in desks[d].seen : samples'[id].owner = desks[d].story
    BY <1>2, <1>3, <2>1, <2>2 DEF DesksSound
  <2> QED BY <2>3 DEF DesksSound
<1> QED BY <1>1, <1>4, <1>5, <1>6 DEF Present

\* What the steps of a desk leave alone.
Untouched ==
    /\ file' = file /\ manifests' = manifests /\ samples' = samples
    /\ globalStyle' = globalStyle

\* One desk is taken or left.
LEMMA DesksOf ==
  ASSUME StylesInv, NEW d \in Desks, NEW held \in Drafts \cup Edits \cup Activations \cup {FreeDesk},
         desks' = [desks EXCEPT ![d] = held]
  PROVE  /\ desks' \in [Desks -> Drafts \cup Edits \cup Activations \cup {FreeDesk}]
         /\ desks'[d] = held /\ \A e \in Desks : e # d => desks'[e] = desks[e]
BY DEF StylesInv, StylesTyped

HeldSoundly(held) ==
    held # FreeDesk =>
        /\ held.op = "draft" =>
             /\ held.version \in 0..(Len(styles) + 1)
             /\ Pointed(held.rules, held.seen)
             /\ NoText \notin manifests[held.story] => \A id \in held.seen : samples[id].owner = held.story
        /\ held.op = "edit" =>
             held.style \in DOMAIN styles /\ Pointed(held.rules, styles[held.style].provenance)

LEMMA TakenDesk ==
  ASSUME StylesInv, NEW d \in Desks, NEW held \in Drafts \cup Edits \cup Activations \cup {FreeDesk},
         Untouched, styles' = styles, desks' = [desks EXCEPT ![d] = held], HeldSoundly(held)
  PROVE  StylesInv'
<1> USE DEF StylesInv, Untouched
<1>1. /\ desks' \in [Desks -> Drafts \cup Edits \cup Activations \cup {FreeDesk}]
      /\ desks'[d] = held /\ \A e \in Desks : e # d => desks'[e] = desks[e]
    BY DesksOf
<1>2. StylesTyped'
    BY <1>1 DEF StylesTyped
<1>3. SamplesOwned' /\ StylesSound'
    BY DEF SamplesOwned, StylesSound
<1>4. DesksSound'
    BY <1>1 DEF DesksSound, HeldSoundly
<1> QED BY <1>2, <1>3, <1>4 DEF Present

LEMMA LatestIsVersion ==
  ASSUME StylesInv, NEW p \in Stories
  PROVE  LatestVersion(p) \in 0..Len(styles)
<1>1. Len(styles) \in Nat
    BY DEF StylesInv, StylesTyped
<1> DEFINE V == {styles[n].version : n \in OfStory(p)} \cup {0}
<1>2. V \in SUBSET (0..Len(styles)) /\ V # {}
    BY <1>1 DEF StylesInv, StylesSound, OfStory, Present
<1>3. PICK v \in V : \A w \in V : w <= v
    BY <1>1, <1>2, GreatestOf
<1>4. /\ v \in 0..Len(styles)
      /\ \A n \in OfStory(p) : styles[n].version <= v
      /\ v = 0 \/ \E n \in OfStory(p) : styles[n].version = v
    BY <1>2, <1>3
<1> QED BY <1>4 DEF LatestVersion

LEMMA BeginDraftKeeps ==
  ASSUME StylesInv, NEW d \in Desks, NEW p \in Stories, NEW c \in Contents, BeginDraft(d, p, c)
  PROVE  StylesInv'
<1> DEFINE approved == Approved(p, c)
           rules    == {r \in RulesFrom(approved) : r.evidence # {}}
           held     == Command("draft", p, 0, approved, rules, LatestVersion(p) + 1)
<1>1. rules # {} /\ Take(d, held)
    BY DEF BeginDraft
<1>2. approved \in SUBSET SampleIds /\ \A id \in approved : samples[id].owner = p
    BY DEF Approved
<1>3. rules \in SUBSET Rules /\ Pointed(rules, approved)
  <2>1. \A r \in RulesFrom(approved) : r \in Rules /\ r.evidence \subseteq approved
    BY <1>2 DEF RulesFrom, Rules
  <2> QED BY <1>1, <2>1 DEF Pointed
<1>4. LatestVersion(p) \in 0..Len(styles) /\ Len(styles) \in Nat
    BY LatestIsVersion DEF StylesInv, StylesTyped
<1>5. LatestVersion(p) + 1 \in Nat /\ LatestVersion(p) + 1 \in 0..(Len(styles) + 1)
    BY <1>4
<1> HIDE DEF approved, rules
<1>6. /\ held = [op |-> "draft", story |-> p, style |-> 0, seen |-> approved, rules |-> rules, version |-> LatestVersion(p) + 1]
      /\ held \in Drafts
    BY <1>2, <1>3, <1>5 DEF Command, Drafts
<1>7. HeldSoundly(held)
    BY <1>2, <1>3, <1>5, <1>6 DEF HeldSoundly
<1>8. Untouched /\ styles' = styles /\ desks' = [desks EXCEPT ![d] = held]
    BY <1>1 DEF Take, Untouched
<1> HIDE DEF held
<1> QED BY <1>6, <1>7, <1>8, TakenDesk

LEMMA BeginEditKeeps ==
  ASSUME StylesInv, NEW d \in Desks, NEW p \in Stories, NEW n \in DOMAIN styles, BeginEdit(d, p, n)
  PROVE  StylesInv'
<1>1. PICK evidence \in (SUBSET styles[n].provenance) \ {{}}, x \in Dimensions :
         Take(d, Command("edit", p, n, {}, {[dimension |-> x, evidence |-> evidence]}, 0))
    BY DEF BeginEdit
<1> DEFINE rules == {[dimension |-> x, evidence |-> evidence]}
           held  == Command("edit", p, n, {}, rules, 0)
<1>2. StylesTyped
    BY DEF StylesInv
<1>3. n \in Nat /\ styles[n].provenance \subseteq SampleIds
    BY <1>2, StyleFields
<1>4. rules \in SUBSET Rules /\ Pointed(rules, styles[n].provenance)
    BY <1>3 DEF Rules, Pointed
<1>5. Take(d, held)
    BY <1>1
<1> HIDE DEF rules
<1>6. /\ held = [op |-> "edit", story |-> p, style |-> n, seen |-> {}, rules |-> rules, version |-> 0]
      /\ held \in Edits
    BY <1>3, <1>4 DEF Command, Edits
<1>7. HeldSoundly(held)
    BY <1>4, <1>6 DEF HeldSoundly
<1>8. Untouched /\ styles' = styles /\ desks' = [desks EXCEPT ![d] = held]
    BY <1>5 DEF Take, Untouched
<1> HIDE DEF held
<1> QED BY <1>6, <1>7, <1>8, TakenDesk

LEMMA BeginActivationKeeps ==
  ASSUME StylesInv, NEW d \in Desks, NEW p \in Stories, NEW n \in DOMAIN styles, BeginActivation(d, p, n)
  PROVE  StylesInv'
<1> DEFINE held == Command("activate", p, n, ActiveOf(p), {}, 0)
<1>1. StylesTyped
    BY DEF StylesInv
<1>2. n \in Nat /\ \A k \in DOMAIN styles : k \in Nat
    BY <1>1, StyleFields
<1>3. ActiveOf(p) \in SUBSET Nat
    BY <1>2 DEF ActiveOf, OfStory, Present
<1>4. /\ held = [op |-> "activate", story |-> p, style |-> n, seen |-> ActiveOf(p), rules |-> {}, version |-> 0]
      /\ held \in Activations
    BY <1>2, <1>3 DEF Command, Activations
<1>5. HeldSoundly(held)
    BY <1>4 DEF HeldSoundly
<1>6. Untouched /\ styles' = styles /\ desks' = [desks EXCEPT ![d] = held]
    BY DEF BeginActivation, Take, Untouched
<1> HIDE DEF held
<1> QED BY <1>4, <1>5, <1>6, TakenDesk

LEMMA AbandonKeeps ==
  ASSUME StylesInv, NEW d \in Desks, Abandon(d)
  PROVE  StylesInv'
<1>1. Untouched /\ styles' = styles /\ desks' = [desks EXCEPT ![d] = FreeDesk]
    BY DEF Abandon, Leave, Untouched
<1>2. HeldSoundly(FreeDesk)
    BY DEF HeldSoundly
<1> QED BY <1>1, <1>2, TakenDesk

LEMMA HeldKinds ==
  ASSUME StylesInv, NEW d \in Desks, desks[d] # FreeDesk
  PROVE  /\ desks[d] \in Drafts \cup Edits \cup Activations
         /\ desks[d].op = "draft" => desks[d] \in Drafts
         /\ desks[d].op = "edit" => desks[d] \in Edits
         /\ desks[d].op = "activate" => desks[d] \in Activations
<1>1. desks[d] \in Drafts \cup Edits \cup Activations
    BY DEF StylesInv, StylesTyped
<1> QED BY <1>1 DEF Drafts, Edits, Activations

LEMMA SaveDraftKeeps ==
  ASSUME StylesInv, NEW d \in Desks, SaveDraft(d)
  PROVE  StylesInv'
<1> DEFINE held == desks[d]
           row  == [story |-> held.story, version |-> held.version, status |-> "draft",
                    rules |-> held.rules, provenance |-> held.seen, tested |-> FALSE]
<1>0. /\ held # FreeDesk /\ held.op = "draft" /\ VersionIsFree(held.story, held.version)
      /\ NoText \notin manifests[held.story] /\ styles' = Append(styles, row)
      /\ desks' = [desks EXCEPT ![d] = FreeDesk] /\ Untouched
    BY DEF SaveDraft, Leave, Untouched
<1>1. held \in Drafts
    BY <1>0, HeldKinds
<1>2. /\ held.story \in Stories /\ held.version \in Nat /\ held.rules \in SUBSET Rules
      /\ held.seen \in SUBSET SampleIds /\ held.story # NoStory
    BY <1>1, TextsAssumption DEF Drafts
<1>3. row \in StyleRows /\ row.story = held.story /\ row.version = held.version /\ row.status = "draft"
      /\ row.rules = held.rules /\ row.provenance = held.seen
    BY <1>2 DEF StyleRows
<1>4. /\ held.version \in 0..(Len(styles) + 1) /\ Pointed(held.rules, held.seen)
      /\ \A id \in held.seen : samples[id].owner = held.story
    BY <1>0 DEF StylesInv, DesksSound
<1> HIDE DEF row
<1>5. /\ styles \in Seq(StyleRows) /\ styles' \in Seq(StyleRows) /\ Len(styles) \in Nat /\ Len(styles') = Len(styles) + 1
      /\ DOMAIN styles = 1..Len(styles) /\ DOMAIN styles' = 1..(Len(styles) + 1)
      /\ \A n \in 1..Len(styles) : styles'[n] = styles[n]
      /\ styles'[Len(styles) + 1] = row
    BY <1>0, <1>3 DEF StylesInv, StylesTyped
<1>6. /\ desks' \in [Desks -> Drafts \cup Edits \cup Activations \cup {FreeDesk}]
      /\ desks'[d] = FreeDesk /\ \A e \in Desks : e # d => desks'[e] = desks[e]
    BY <1>0, DesksOf
<1>7. \A n \in DOMAIN styles' : \/ n \in DOMAIN styles /\ styles'[n] = styles[n]
                                \/ n = Len(styles) + 1 /\ n \notin DOMAIN styles /\ styles'[n] = row
    BY <1>5
<1> HIDE DEF held
<1>8. StylesTyped'
  <2>1. globalStyle' \in 0..Len(styles')
    BY <1>0, <1>5 DEF Untouched, StylesInv, StylesTyped
  <2> QED BY <1>0, <1>5, <1>6, <2>1 DEF Untouched, StylesInv, StylesTyped
<1>9. SamplesOwned'
    BY <1>0 DEF Untouched, StylesInv, SamplesOwned
<1>10. StylesSound'
  <2>1. ASSUME NEW n \in DOMAIN styles'
        PROVE  /\ styles'[n].status = "active" => styles'[n].tested
               /\ styles'[n].version \in 0..Len(styles')
               /\ Pointed(styles'[n].rules, styles'[n].provenance)
    <3>1. CASE n \in DOMAIN styles /\ styles'[n] = styles[n]
      <4>1. styles[n].version \in 0..Len(styles)
        BY <3>1 DEF StylesInv, StylesSound
      <4>2. styles'[n].version \in 0..Len(styles')
        BY <1>5, <3>1, <4>1
      <4> QED BY <3>1, <4>2 DEF StylesInv, StylesSound
    <3>2. CASE styles'[n] = row
      BY <1>3, <1>4, <1>5, <3>2
    <3> QED BY <1>7, <3>1, <3>2
  <2>2. ASSUME NEW n \in DOMAIN styles', styles'[n].story # NoStory
        PROVE  /\ NoText \notin manifests'[styles'[n].story]
               /\ \A id \in styles'[n].provenance : samples'[id].owner = styles'[n].story
    <3>1. CASE n \in DOMAIN styles /\ styles'[n] = styles[n]
      BY <1>0, <2>2, <3>1 DEF Untouched, StylesInv, StylesSound
    <3>2. CASE styles'[n] = row
      BY <1>0, <1>3, <1>4, <3>2 DEF Untouched
    <3> QED BY <1>7, <2>2, <3>1, <3>2
  <2>3. ASSUME NEW k \in DOMAIN styles, styles[k].story = row.story
        PROVE  styles[k].version # row.version
    <3>1. k \in OfStory(held.story)
      BY <1>2, <1>3, <2>3 DEF OfStory, Present
    <3> QED BY <1>0, <1>3, <3>1 DEF VersionIsFree
  <2>4. ASSUME NEW n \in DOMAIN styles', NEW k \in DOMAIN styles', styles'[n].story # NoStory,
               styles'[k].story = styles'[n].story, styles'[k].version = styles'[n].version
        PROVE  k = n
    <3>1. CASE n \in DOMAIN styles /\ k \in DOMAIN styles
      <4>1. styles'[n] = styles[n] /\ styles'[k] = styles[k]
        BY <1>7, <3>1
      <4> QED BY <2>4, <3>1, <4>1 DEF StylesInv, StylesSound
    <3>2. CASE n \notin DOMAIN styles /\ k \in DOMAIN styles
      <4>1. styles'[n] = row /\ styles'[k] = styles[k]
        BY <1>7, <3>2
      <4> QED BY <2>3, <2>4, <3>2, <4>1
    <3>3. CASE n \in DOMAIN styles /\ k \notin DOMAIN styles
      <4>1. styles'[n] = styles[n] /\ styles'[k] = row
        BY <1>7, <3>3
      <4> QED BY <2>3, <2>4, <3>3, <4>1
    <3>4. CASE n \notin DOMAIN styles /\ k \notin DOMAIN styles
      BY <1>7, <3>4
    <3> QED BY <3>1, <3>2, <3>3, <3>4
  <2> QED BY <2>1, <2>2, <2>4 DEF StylesSound
<1>11. DesksSound'
  <2> SUFFICES ASSUME NEW e \in Desks, desks'[e] # FreeDesk
               PROVE  HeldSoundly(desks[e])'
    BY DEF DesksSound, HeldSoundly
  <2>1. desks'[e] = desks[e] /\ HeldSoundly(desks[e])
    BY <1>6 DEF StylesInv, DesksSound, HeldSoundly
  <2>2. desks[e].op = "edit" => styles'[desks[e].style] = styles[desks[e].style] /\ desks[e].style \in DOMAIN styles'
    BY <1>5, <1>6, <2>1 DEF HeldSoundly
  <2>3. \A v : v \in 0..(Len(styles) + 1) => v \in 0..(Len(styles') + 1)
    BY <1>5
  <2> QED BY <1>0, <1>6, <2>1, <2>2, <2>3 DEF HeldSoundly, Untouched
<1>12. globalStyle' # 0 => globalStyle' \in Present'
    BY <1>0, <1>5 DEF Untouched, StylesInv, Present
<1> QED BY <1>8, <1>9, <1>10, <1>11, <1>12 DEF StylesInv

\* Rows change, but keep their story, version and passages.
RowsKept ==
    /\ styles' \in Seq(StyleRows) /\ Len(styles') = Len(styles) /\ DOMAIN styles' = DOMAIN styles
    /\ \A n \in DOMAIN styles :
         /\ styles'[n].story = styles[n].story /\ styles'[n].version = styles[n].version
         /\ styles'[n].provenance = styles[n].provenance
         /\ Pointed(styles'[n].rules, styles[n].provenance)
         /\ styles'[n].status = "active" => styles'[n].tested

LEMMA RowsChanged ==
  ASSUME StylesInv, NEW d \in Desks, Untouched, RowsKept, desks' = [desks EXCEPT ![d] = FreeDesk]
  PROVE  StylesInv'
<1>1. /\ desks' \in [Desks -> Drafts \cup Edits \cup Activations \cup {FreeDesk}]
      /\ desks'[d] = FreeDesk /\ \A e \in Desks : e # d => desks'[e] = desks[e]
    BY DesksOf
<1>2. StylesTyped'
    BY <1>1 DEF RowsKept, Untouched, StylesInv, StylesTyped
<1>3. SamplesOwned'
    BY DEF Untouched, StylesInv, SamplesOwned
<1>4. StylesSound'
    BY DEF RowsKept, Untouched, StylesInv, StylesSound
<1>5. DesksSound'
    BY <1>1 DEF RowsKept, Untouched, StylesInv, DesksSound
<1>6. globalStyle' # 0 => globalStyle' \in Present'
    BY DEF RowsKept, Untouched, StylesInv, Present
<1> QED BY <1>2, <1>3, <1>4, <1>5, <1>6 DEF StylesInv

LEMMA SaveEditKeeps ==
  ASSUME StylesInv, NEW d \in Desks, SaveEdit(d)
  PROVE  StylesInv'
<1> DEFINE held == desks[d]
<1>0. /\ held # FreeDesk /\ held.op = "edit" /\ held.style \in Present
      /\ styles' = [styles EXCEPT ![held.style].rules = held.rules]
      /\ desks' = [desks EXCEPT ![d] = FreeDesk] /\ Untouched
    BY DEF SaveEdit, Leave, Untouched
<1>1. held.rules \in SUBSET Rules
    BY <1>0, HeldKinds DEF Edits
<1>2. held.style \in DOMAIN styles /\ Pointed(held.rules, styles[held.style].provenance)
    BY <1>0 DEF StylesInv, DesksSound
<1>3. styles \in Seq(StyleRows) /\ StylesTyped
    BY DEF StylesInv, StylesTyped
<1> HIDE DEF held
<1>4. \A n \in DOMAIN styles : styles[n] \in StyleRows
    BY <1>3, StyleFields
<1>5. [styles[held.style] EXCEPT !.rules = held.rules] \in StyleRows
    BY <1>1, <1>2, <1>4 DEF StyleRows
<1>6. /\ Len(styles') = Len(styles) /\ DOMAIN styles' = DOMAIN styles
      /\ styles'[held.style] = [styles[held.style] EXCEPT !.rules = held.rules]
      /\ \A n \in DOMAIN styles : n # held.style => styles'[n] = styles[n]
      /\ styles' \in Seq(StyleRows)
    BY <1>0, <1>2, <1>3, <1>5
<1>7. /\ styles'[held.style].story = styles[held.style].story /\ styles'[held.style].version = styles[held.style].version
      /\ styles'[held.style].provenance = styles[held.style].provenance /\ styles'[held.style].rules = held.rules
      /\ styles'[held.style].status = styles[held.style].status /\ styles'[held.style].tested = styles[held.style].tested
    BY <1>2, <1>4, <1>6 DEF StyleRows
<1>8. RowsKept
  <2>1. ASSUME NEW n \in DOMAIN styles
        PROVE  /\ styles'[n].story = styles[n].story /\ styles'[n].version = styles[n].version
               /\ styles'[n].provenance = styles[n].provenance
               /\ Pointed(styles'[n].rules, styles[n].provenance)
               /\ styles'[n].status = "active" => styles'[n].tested
    <3>1. CASE n = held.style
      BY <1>2, <1>7, <3>1 DEF StylesInv, StylesSound
    <3>2. CASE n # held.style
      BY <1>6, <3>2 DEF StylesInv, StylesSound
    <3> QED BY <3>1, <3>2
  <2> QED BY <1>6, <2>1 DEF RowsKept
<1> QED BY <1>0, <1>8, RowsChanged

LEMMA SaveActivationKeeps ==
  ASSUME StylesInv, NEW d \in Desks, SaveActivation(d)
  PROVE  StylesInv'
<1> DEFINE held == desks[d]
           changed(n) == IF n = held.style THEN [styles[n] EXCEPT !.status = "active", !.tested = TRUE]
                         ELSE IF n \in held.seen THEN [styles[n] EXCEPT !.status = "superseded"]
                         ELSE styles[n]
<1>0. /\ styles' = [n \in DOMAIN styles |-> changed(n)]
      /\ desks' = [desks EXCEPT ![d] = FreeDesk] /\ Untouched
    BY DEF SaveActivation, Leave, Untouched
<1>1. styles \in Seq(StyleRows) /\ StylesTyped
    BY DEF StylesInv, StylesTyped
<1>2. \A n \in DOMAIN styles : styles[n] \in StyleRows
    BY <1>1, StyleFields
<1>3. \A n \in DOMAIN styles :
        /\ changed(n) \in StyleRows /\ changed(n).story = styles[n].story /\ changed(n).version = styles[n].version
        /\ changed(n).provenance = styles[n].provenance /\ changed(n).rules = styles[n].rules
        /\ changed(n).status = "active" => changed(n).tested \/ changed(n) = styles[n]
  <2> TAKE n \in DOMAIN styles
  <2> DEFINE active     == [styles[n] EXCEPT !.status = "active", !.tested = TRUE]
             superseded == [styles[n] EXCEPT !.status = "superseded"]
  <2>1. styles[n] \in StyleRows
    BY <1>2
  <2>2. /\ active \in StyleRows /\ active.story = styles[n].story /\ active.version = styles[n].version
        /\ active.provenance = styles[n].provenance /\ active.rules = styles[n].rules /\ active.tested = TRUE
    BY <2>1 DEF StyleRows
  <2>3. /\ superseded \in StyleRows /\ superseded.story = styles[n].story /\ superseded.version = styles[n].version
        /\ superseded.provenance = styles[n].provenance /\ superseded.rules = styles[n].rules
        /\ superseded.status = "superseded"
    BY <2>1 DEF StyleRows
  <2>4. changed(n) \in {active, superseded, styles[n]}
    OBVIOUS
  <2> HIDE DEF changed, active, superseded
  <2>5. CASE changed(n) = active
    <3>1. changed(n).tested
      BY <2>2, <2>5
    <3>2. changed(n) \in StyleRows /\ changed(n).story = styles[n].story /\ changed(n).version = styles[n].version
          /\ changed(n).provenance = styles[n].provenance /\ changed(n).rules = styles[n].rules
      BY <2>2, <2>5
    <3> QED BY <3>1, <3>2
  <2>6. CASE changed(n) = superseded
    BY <2>3, <2>6
  <2>7. CASE changed(n) = styles[n]
    BY <2>1, <2>7
  <2> QED BY <2>4, <2>5, <2>6, <2>7
<1> HIDE DEF changed
<1>4. /\ DOMAIN styles = 1..Len(styles) /\ Len(styles) \in Nat
      /\ \A n \in DOMAIN styles : styles'[n] = changed(n)
    BY <1>0, <1>1
<1>5. styles' \in Seq(StyleRows) /\ Len(styles') = Len(styles) /\ DOMAIN styles' = DOMAIN styles
  <2>1. styles' = [n \in 1..Len(styles) |-> changed(n)]
    BY <1>0, <1>4
  <2>2. \A n \in 1..Len(styles) : changed(n) \in StyleRows
    BY <1>3, <1>4
  <2> QED BY <1>4, <2>1, <2>2
<1>6. RowsKept
    BY <1>3, <1>4, <1>5 DEF RowsKept, StylesInv, StylesSound
<1> QED BY <1>0, <1>6, RowsChanged

LEMMA DefaultKeeps ==
  ASSUME StylesInv, NEW p \in Stories, NEW n \in DOMAIN styles, SetGlobalDefault(p, n)
  PROVE  StylesInv'
<1> USE DEF SetGlobalDefault, StylesInv
<1>1. n \in 0..Len(styles) /\ n \in Present
    BY StyleFields DEF ActiveOf, OfStory
<1>2. StylesTyped'
    BY <1>1 DEF StylesTyped
<1>3. SamplesOwned' /\ StylesSound' /\ DesksSound'
    BY DEF SamplesOwned, StylesSound, DesksSound
<1> QED BY <1>1, <1>2, <1>3 DEF Present

LEMMA DeleteStoryKeeps ==
  ASSUME StylesInv, NEW p \in Stories, DeleteStory(p)
  PROVE  StylesInv'
<1> DEFINE changed(n) == IF n \in OfStory(p) THEN [styles[n] EXCEPT !.story = NoStory] ELSE styles[n]
<1>0. /\ globalStyle \notin OfStory(p) /\ manifests' = [manifests EXCEPT ![p] = {NoText}]
      /\ samples' = [id \in SampleIds |-> IF samples[id].owner = p THEN NoSample ELSE samples[id]]
      /\ styles' = [n \in DOMAIN styles |-> changed(n)]
      /\ file' = file /\ globalStyle' = globalStyle /\ desks' = desks
    BY DEF DeleteStory
<1>1. styles \in Seq(StyleRows) /\ StylesTyped /\ p # NoStory
    BY TextsAssumption DEF StylesInv, StylesTyped
<1>2. \A n \in DOMAIN styles : styles[n] \in StyleRows /\ styles[n].story \in Stories \cup {NoStory}
    BY <1>1, StyleFields
<1>3. \A n \in DOMAIN styles :
        /\ changed(n) \in StyleRows /\ changed(n).version = styles[n].version
        /\ changed(n).provenance = styles[n].provenance /\ changed(n).rules = styles[n].rules
        /\ changed(n).status = styles[n].status /\ changed(n).tested = styles[n].tested
    BY <1>2 DEF StyleRows
<1>4. \A n \in DOMAIN styles : /\ changed(n).story # NoStory => changed(n).story = styles[n].story /\ styles[n].story # p
                               /\ styles[n].story \notin {p, NoStory} => changed(n).story = styles[n].story
  <2> TAKE n \in DOMAIN styles
  <2>1. CASE n \in OfStory(p)
    <3>1. changed(n).story = NoStory /\ styles[n].story = p
      BY <1>2, <2>1 DEF OfStory, StyleRows
    <3> QED BY <3>1
  <2>2. CASE n \notin OfStory(p)
    <3>1. changed(n) = styles[n]
      BY <2>2
    <3>2. styles[n].story # p
      BY <1>1, <2>2 DEF OfStory, Present
    <3> QED BY <3>1, <3>2
  <2> QED BY <2>1, <2>2
<1> HIDE DEF changed
<1>5. /\ DOMAIN styles = 1..Len(styles) /\ Len(styles) \in Nat
      /\ \A n \in DOMAIN styles : styles'[n] = changed(n)
    BY <1>0, <1>1
<1>6. styles' \in Seq(StyleRows) /\ Len(styles') = Len(styles) /\ DOMAIN styles' = DOMAIN styles
  <2>1. styles' = [n \in 1..Len(styles) |-> changed(n)]
    BY <1>0, <1>5
  <2>2. \A n \in 1..Len(styles) : changed(n) \in StyleRows
    BY <1>3, <1>5
  <2> QED BY <1>5, <2>1, <2>2
<1>7. /\ manifests' \in [Stories -> (SUBSET Contents) \cup {{NoText}}] /\ manifests'[p] = {NoText}
      /\ \A q \in Stories : q # p => manifests'[q] = manifests[q]
  <2>1. manifests \in [Stories -> (SUBSET Contents) \cup {{NoText}}]
    BY <1>1 DEF StylesTyped
  <2>2. {NoText} \in (SUBSET Contents) \cup {{NoText}}
    OBVIOUS
  <2> QED BY <1>0, <2>1, <2>2
<1>8. /\ samples' \in [SampleIds -> [owner : Stories \cup {NoStory}, status : Statuses, likes : SUBSET Dimensions]]
      /\ \A id \in SampleIds : /\ samples[id].owner # p => samples'[id] = samples[id]
                               /\ samples[id].owner = p => samples'[id].owner = NoStory
    BY <1>0, <1>1 DEF StylesTyped, NoSample, Statuses
<1>9. StylesTyped'
    BY <1>0, <1>1, <1>6, <1>7, <1>8 DEF StylesTyped
<1>10. SamplesOwned'
  <2> SUFFICES ASSUME NEW id \in SampleIds, samples'[id].owner # NoStory
               PROVE  /\ id[1] \in manifests'[samples'[id].owner]
                      /\ NoText \notin manifests'[samples'[id].owner]
    BY DEF SamplesOwned
  <2>1. samples[id].owner # p /\ samples'[id] = samples[id] /\ samples[id].owner \in Stories
    BY <1>1, <1>8 DEF StylesTyped
  <2> QED BY <1>7, <2>1 DEF StylesInv, SamplesOwned
<1>11. StylesSound'
  <2>1. \A n \in DOMAIN styles : styles[n].provenance \subseteq SampleIds
    BY <1>1, StyleFields
  <2>2. ASSUME NEW n \in DOMAIN styles, styles'[n].story # NoStory
        PROVE  /\ NoText \notin manifests'[styles'[n].story]
               /\ \A id \in styles'[n].provenance : samples'[id].owner = styles'[n].story
               /\ \A k \in DOMAIN styles :
                    styles'[k].story = styles'[n].story /\ styles'[k].version = styles'[n].version => k = n
    <3>1. /\ styles'[n].story = styles[n].story /\ styles[n].story # p /\ styles[n].story \in Stories
          /\ styles'[n].provenance = styles[n].provenance /\ styles'[n].version = styles[n].version
      BY <1>2, <1>3, <1>4, <1>5, <2>2
    <3>2. NoText \notin manifests'[styles[n].story]
      BY <1>7, <2>2, <3>1 DEF StylesInv, StylesSound
    <3>3. \A id \in styles[n].provenance : samples'[id].owner = styles[n].story
      BY <1>8, <2>1, <2>2, <3>1 DEF StylesInv, StylesSound
    <3>4. ASSUME NEW k \in DOMAIN styles, styles'[k].story = styles'[n].story, styles'[k].version = styles'[n].version
          PROVE  k = n
      <4>1. styles[k].story = styles[n].story /\ styles[k].version = styles[n].version
        BY <1>3, <1>4, <1>5, <2>2, <3>1, <3>4
      <4> QED BY <2>2, <3>1, <4>1 DEF StylesInv, StylesSound
    <3> QED BY <3>1, <3>2, <3>3, <3>4
  <2>3. \A n \in DOMAIN styles : /\ styles'[n].status = "active" => styles'[n].tested
                                 /\ styles'[n].version \in 0..Len(styles')
                                 /\ Pointed(styles'[n].rules, styles'[n].provenance)
    BY <1>3, <1>5, <1>6 DEF StylesInv, StylesSound
  <2> QED BY <1>6, <2>2, <2>3 DEF StylesSound
<1>12. DesksSound'
  <2> SUFFICES ASSUME NEW e \in Desks, desks[e] # FreeDesk
               PROVE  HeldSoundly(desks[e])'
    BY <1>0 DEF DesksSound, HeldSoundly
  <2>1. HeldSoundly(desks[e])
    BY DEF StylesInv, DesksSound, HeldSoundly
  <2>2. desks[e].op = "edit" => styles'[desks[e].style].provenance = styles[desks[e].style].provenance
    BY <1>3, <1>5, <2>1 DEF HeldSoundly
  <2>3. ASSUME desks[e].op = "draft", NoText \notin manifests'[desks[e].story]
        PROVE  \A id \in desks[e].seen : samples'[id].owner = desks[e].story
    <3>1. desks[e].seen \subseteq SampleIds /\ desks[e].story \in Stories
      BY <2>3, HeldKinds DEF Drafts
    <3>2. desks[e].story # p /\ NoText \notin manifests[desks[e].story]
      BY <1>7, <2>3, <3>1
    <3> QED BY <1>8, <2>1, <2>3, <3>1, <3>2 DEF HeldSoundly
  <2> QED BY <1>0, <1>6, <2>1, <2>2, <2>3 DEF HeldSoundly
<1>13. globalStyle' # 0 => globalStyle' \in Present'
  <2> SUFFICES ASSUME globalStyle # 0 PROVE globalStyle \in DOMAIN styles /\ styles'[globalStyle].story # NoStory
    BY <1>0, <1>6 DEF Present
  <2>1. globalStyle \in DOMAIN styles /\ styles[globalStyle].story # NoStory
    BY DEF StylesInv, Present
  <2>2. styles[globalStyle].story # p
    BY <1>0, <2>1 DEF OfStory, Present
  <2> QED BY <1>4, <1>5, <2>1, <2>2
<1> QED BY <1>9, <1>10, <1>11, <1>12, <1>13 DEF StylesInv

LEMMA StylesStep ==
  ASSUME StylesInv, NextStyles
  PROVE  StylesInv'
<1>1. ASSUME NEW c \in Contents \cup {NoText}, FileChanges(c) PROVE StylesInv'
    BY <1>1, FileKeeps
<1>2. CASE AuthorReviews
    BY <1>2, ReviewKeeps DEF AuthorReviews
<1>3. ASSUME NEW p \in Stories,
             Register(p) \/ DeleteStory(p) \/ \E n \in DOMAIN styles : SetGlobalDefault(p, n)
      PROVE  StylesInv'
    BY <1>3, RegisterKeeps, DeleteStoryKeeps, DefaultKeeps
<1>4. ASSUME NEW d \in Desks, StyleCommand(d) PROVE StylesInv'
  <2>1. ASSUME NEW p \in Stories, NEW c \in Contents, BeginDraft(d, p, c) PROVE StylesInv'
    BY <2>1, BeginDraftKeeps
  <2>2. ASSUME NEW p \in Stories, NEW n \in DOMAIN styles, BeginEdit(d, p, n) \/ BeginActivation(d, p, n)
        PROVE  StylesInv'
    BY <2>2, BeginEditKeeps, BeginActivationKeeps
  <2>3. CASE SaveDraft(d) \/ SaveEdit(d) \/ SaveActivation(d) \/ Abandon(d)
    BY <2>3, SaveDraftKeeps, SaveEditKeeps, SaveActivationKeeps, AbandonKeeps
  <2> QED BY <1>4, <2>1, <2>2, <2>3 DEF StyleCommand
<1> QED BY <1>1, <1>2, <1>3, <1>4 DEF NextStyles

LEMMA NewestIsActive ==
  ASSUME StylesInv, NEW p \in Stories, ActiveOf(p) # {}
  PROVE  NewestActive(p) \in ActiveOf(p)
<1> DEFINE V == {styles[n].version : n \in ActiveOf(p)}
<1>1. Len(styles) \in Nat
    BY DEF StylesInv, StylesTyped
<1>2. \A n \in ActiveOf(p) : n \in DOMAIN styles /\ styles[n].version \in 0..Len(styles)
    BY DEF StylesInv, StylesSound, ActiveOf, OfStory, Present
<1>3. V \in SUBSET (0..Len(styles)) /\ V # {}
    BY <1>2
<1>4. PICK v \in V : \A w \in V : w <= v
    BY <1>1, <1>3, GreatestOf
<1>5. \E n \in ActiveOf(p) : \A k \in ActiveOf(p) : styles[k].version <= styles[n].version
    BY <1>4
<1> QED BY <1>5 DEF NewestActive

LEMMA StylesSuffice == StylesInv => StyleIsTraceable
<1> SUFFICES ASSUME StylesInv PROVE StyleIsTraceable
    OBVIOUS
<1>1. ASSUME NEW p \in Stories, StyleFor(p) # 0
      PROVE  LET s == styles[StyleFor(p)] IN
             /\ s.tested /\ s.story \in Stories
             /\ s.story = p \/ (ActiveOf(p) = {} /\ StyleFor(p) = globalStyle)
             /\ \A n \in OfStory(s.story) : styles[n].version = s.version => n = StyleFor(p)
             /\ s.rules # {}
             /\ \A r \in s.rules : r.evidence # {} /\ \A id \in r.evidence :
                  samples[id].owner = s.story /\ id[1] \in manifests[s.story]
  <2> DEFINE m == StyleFor(p)
             s == styles[m]
  <2>1. /\ m \in Present /\ s.status = "active"
        /\ s.story = p \/ (ActiveOf(p) = {} /\ m = globalStyle)
    <3>1. CASE ActiveOf(p) # {}
      BY <3>1, NewestIsActive DEF StyleFor, ActiveOf, OfStory
    <3>2. CASE ActiveOf(p) = {}
      BY <1>1, <3>2 DEF StyleFor
    <3> QED BY <3>1, <3>2
  <2> HIDE DEF m
  <2>2. m \in DOMAIN styles /\ s.story # NoStory
    BY <2>1 DEF Present
  <2>3. s.story \in Stories /\ s.provenance \subseteq SampleIds
    BY <2>2, StyleFields DEF StylesInv
  <2>4. /\ s.tested /\ Pointed(s.rules, s.provenance)
        /\ \A id \in s.provenance : samples[id].owner = s.story
        /\ \A k \in DOMAIN styles : styles[k].story = s.story /\ styles[k].version = s.version => k = m
    BY <2>1, <2>2 DEF StylesInv, StylesSound
  <2>5. \A n \in OfStory(s.story) : styles[n].version = s.version => n = m
    BY <2>4 DEF OfStory, Present
  <2>6. \A id \in s.provenance : id[1] \in manifests[s.story]
    BY <2>2, <2>3, <2>4 DEF StylesInv, SamplesOwned
  <2>7. s.rules # {} /\ \A r \in s.rules : r.evidence # {} /\ \A id \in r.evidence :
          samples[id].owner = s.story /\ id[1] \in manifests[s.story]
    BY <2>4, <2>6 DEF Pointed
  <2> QED BY <2>1, <2>3, <2>4, <2>5, <2>7 DEF m
<1>2. globalStyle # 0 => globalStyle \in Present
    BY DEF StylesInv
<1>3. \A c \in Contents, kind \in Categories : \A s, t \in Candidates(c, kind) :
         (s # t /\ s.chapter = t.chapter) =>
            \A u \in Qualified(c) : u.kind = kind => \E v \in Candidates(c, kind) : v.chapter = u.chapter
    BY OfferedFairly
<1> QED BY <1>1, <1>2, <1>3 DEF StyleIsTraceable

(* The style a stage gets is one version that passed its blind test; each  *)
(* of its rules points to passages of its own story, in texts that story   *)
(* registered, whatever happens to files, judgements and other stories;    *)
(* and the passages were offered fairly (StyleIsTraceable).                *)
THEOREM StylesTraceable == StylesSpec => []StyleIsTraceable
<1>1. StylesInv /\ [NextStyles]_styleVars => StylesInv'
    BY StylesStep, StylesStutter
<1> QED BY <1>1, StylesStart, StylesSuffice, PTL DEF StylesSpec

-----------------------------------------------------------------------------
(* What a sort returns: P[x] is what comes before x.                       *)

LEMMA FewerBefore ==
  ASSUME NEW S, IsFiniteSet(S), NEW T \in SUBSET S, NEW x \in S, x \notin T
  PROVE  IsFiniteSet(T) /\ Cardinality(T) \in 0 .. (Cardinality(S) - 1)
<1>1. IsFiniteSet(T) /\ Cardinality(T) <= Cardinality(S) /\ (Cardinality(S) = Cardinality(T) => S = T)
    BY FS_Subset
<1>2. Cardinality(T) \in Nat /\ Cardinality(S) \in Nat
    BY <1>1, FS_CardinalityType
<1>3. Cardinality(T) # Cardinality(S)
    BY <1>1
<1> QED BY <1>1, <1>2, <1>3

Orders(P, S) ==
  /\ P \in [S -> SUBSET S] /\ \A x \in S : x \notin P[x]
  /\ \A x, y \in S : x # y => x \in P[y] \/ y \in P[x]
  /\ \A x, y \in S : x \in P[y] => P[x] \subseteq P[y]

Places(P, S) ==
  /\ Cardinality(S) \in Nat
  /\ \A x \in S : Cardinality(P[x]) \in 0 .. (Cardinality(S) - 1)
  /\ \A x, y \in S : x \in P[y] => Cardinality(P[x]) < Cardinality(P[y])
  /\ \A x, y \in S : Cardinality(P[x]) = Cardinality(P[y]) => x = y
  /\ \A i \in 1 .. Cardinality(S) : \E x \in S : Cardinality(P[x]) = i - 1

LEMMA PlacesOf ==
  ASSUME NEW S, IsFiniteSet(S), NEW P, Orders(P, S)
  PROVE  Places(P, S)
<1>0. /\ P \in [S -> SUBSET S] /\ \A x \in S : x \notin P[x]
      /\ \A x, y \in S : x # y => x \in P[y] \/ y \in P[x]
      /\ \A x, y \in S : x \in P[y] => P[x] \subseteq P[y]
    BY DEF Orders
<1> DEFINE n == Cardinality(S)
<1>1. n \in Nat
    BY FS_CardinalityType
<1>2. ASSUME NEW x \in S
      PROVE  IsFiniteSet(P[x]) /\ Cardinality(P[x]) \in 0 .. (n - 1)
  <2>1. P[x] \in SUBSET S /\ x \notin P[x]
    BY <1>0
  <2> QED BY <2>1, FewerBefore
<1>3. ASSUME NEW x \in S, NEW y \in S, x \in P[y]
      PROVE  Cardinality(P[x]) < Cardinality(P[y])
  <2>1. P[x] \in SUBSET P[y] /\ P[y] # P[x]
    BY <1>0, <1>3
  <2>2. Cardinality(P[x]) <= Cardinality(P[y]) /\ Cardinality(P[y]) # Cardinality(P[x])
    BY <2>1, <1>2, FS_Subset
  <2>3. Cardinality(P[x]) \in Nat /\ Cardinality(P[y]) \in Nat
    BY <1>1, <1>2
  <2> QED BY <2>2, <2>3
<1>4. ASSUME NEW x \in S, NEW y \in S, Cardinality(P[x]) = Cardinality(P[y])
      PROVE  x = y
  <2> SUFFICES ASSUME x # y PROVE FALSE
    OBVIOUS
  <2>1. Cardinality(P[x]) \in Nat /\ Cardinality(P[y]) \in Nat
    BY <1>1, <1>2
  <2>2. Cardinality(P[x]) < Cardinality(P[y]) \/ Cardinality(P[y]) < Cardinality(P[x])
    BY <1>0, <1>3, <1>4
  <2> QED BY <2>1, <2>2, <1>4
<1> DEFINE place == [x \in S |-> Cardinality(P[x])]
<1>5. place \in Injection(S, 0 .. (n - 1))
  <2>1. place \in [S -> 0 .. (n - 1)]
    BY <1>2
  <2>2. \A x, y \in S : place[x] = place[y] => x = y
    BY <1>4
  <2> QED BY <2>1, <2>2 DEF Injection, IsInjective
<1>6. IsFiniteSet(0 .. (n - 1)) /\ Cardinality(0 .. (n - 1)) = n
  <2> HIDE DEF n
  <2>1. 0 \in Int /\ n - 1 \in Int
    BY <1>1
  <2>2. IsFiniteSet(0 .. (n - 1)) /\ Cardinality(0 .. (n - 1)) = IF 0 > n - 1 THEN 0 ELSE (n - 1) - 0 + 1
    BY <2>1, FS_Interval
  <2> QED BY <2>2, <1>1
<1>7. place \in Surjection(S, 0 .. (n - 1))
    BY <1>5, <1>6, FS_Injection
<1>8. ASSUME NEW i \in 1 .. n PROVE \E x \in S : Cardinality(P[x]) = i - 1
  <2>1. i - 1 \in 0 .. (n - 1)
    <3> HIDE DEF n
    <3> QED BY <1>1
  <2>2. PICK x \in S : place[x] = i - 1
    BY <2>1, <1>7 DEF Surjection
  <2> QED BY <2>2
<1> QED BY <1>1, <1>2, <1>3, <1>4, <1>8 DEF Places

\* A list of the members of S.
Lists(list, S) ==
  /\ list \in Seq(S) /\ Len(list) = Cardinality(S) /\ Len(list) \in Nat
  /\ \A x \in S : \E i \in 1 .. Len(list) : list[i] = x

LEMMA OrderedPrecedes ==
  ASSUME NEW S, IsFiniteSet(S), S \subseteq DocumentRows, Facts \subseteq Nat,
         \A x, y \in S : (x.current = y.current /\ x.version = y.version /\ x.kind = y.kind
                              /\ x.source = y.source) => x = y
  PROVE  Lists(Ordered(S, Precedes), S)
<1> DEFINE P == [x \in S |-> {y \in S : Precedes(y, x)}]
<1> DEFINE O == Ordered(S, Precedes)
<1>00. ChapterIds \subseteq Nat /\ VersionNumbers \subseteq Nat
    BY DEF ChapterIds, VersionNumbers
<1>0. \A x \in S : /\ x.current \in BOOLEAN /\ x.version \in Nat /\ x.kind \in {"chapter", "fact"}
                   /\ x.source \in Nat
    BY <1>00 DEF DocumentRows
<1>1. P \in [S -> SUBSET S] /\ \A x \in S : x \notin P[x]
    BY <1>0 DEF Precedes
<1>2. ASSUME NEW x \in S, NEW y \in S, x # y PROVE x \in P[y] \/ y \in P[x]
  <2>1. x.current # y.current \/ x.version # y.version \/ x.kind # y.kind \/ x.source # y.source
    BY <1>2
  <2>2. Precedes(x, y) \/ Precedes(y, x)
    BY <1>0, <2>1 DEF Precedes
  <2> QED BY <2>2
<1>3. ASSUME NEW x \in S, NEW y \in S, x \in P[y], NEW z \in P[x] PROVE z \in P[y]
  <2>1. Precedes(x, y) /\ Precedes(z, x) /\ z \in S
    BY <1>3
  <2>2. Precedes(z, y)
    BY <1>0, <2>1 DEF Precedes
  <2> QED BY <2>1, <2>2
<1>4. /\ Cardinality(S) \in Nat
      /\ \A x \in S : Cardinality(P[x]) \in 0 .. (Cardinality(S) - 1)
      /\ \A x, y \in S : x \in P[y] => Cardinality(P[x]) < Cardinality(P[y])
      /\ \A x, y \in S : Cardinality(P[x]) = Cardinality(P[y]) => x = y
      /\ \A i \in 1 .. Cardinality(S) : \E x \in S : Cardinality(P[x]) = i - 1
  <2>1. \A x, y \in S : x # y => x \in P[y] \/ y \in P[x]
    BY <1>2
  <2>2. \A x, y \in S : x \in P[y] => P[x] \subseteq P[y]
    BY <1>3
  <2> HIDE DEF P, O
  <2>3. Orders(P, S)
    BY <1>1, <2>1, <2>2, Zenon DEF Orders
  <2>4. Places(P, S)
    BY <2>3, PlacesOf
  <2> QED BY <2>4 DEF Places
<1>5. O = [i \in 1 .. Cardinality(S) |-> O[i]]
  <2> DEFINE C(i) == CHOOSE x \in S : Cardinality({y \in S : Precedes(y, x)}) = i - 1
  <2>1. O = [i \in 1 .. Cardinality(S) |-> C(i)]
    BY DEF Ordered
  <2> HIDE DEF C, O
  <2> QED BY <2>1
<1>50. ASSUME NEW i \in 1 .. Cardinality(S), NEW z \in S, Cardinality({y \in S : Precedes(y, z)}) = i - 1
      PROVE  O[i] \in S /\ Cardinality({y \in S : Precedes(y, O[i])}) = i - 1
    BY <1>50 DEF Ordered
<1>52. \A x \in S : P[x] = {y \in S : Precedes(y, x)}
    OBVIOUS
<1> HIDE DEF O, P
<1>6. ASSUME NEW i \in 1 .. Cardinality(S)
      PROVE  O[i] \in S /\ Cardinality(P[O[i]]) = i - 1
  <2>1. PICK z \in S : Cardinality(P[z]) = i - 1
    BY <1>4
  <2> QED BY <2>1, <1>50, <1>52
<1>7. O \in Seq(S) /\ Len(O) = Cardinality(S)
    BY <1>4, <1>5, <1>6
<1>8. ASSUME NEW x \in S PROVE \E i \in 1 .. Len(O) : O[i] = x
  <2>1. Cardinality(P[x]) + 1 \in 1 .. Cardinality(S)
    BY <1>4
  <2>2. Cardinality(P[O[Cardinality(P[x]) + 1]]) = Cardinality(P[x])
    BY <2>1, <1>4, <1>6
  <2>3. O[Cardinality(P[x]) + 1] = x
    BY <2>1, <2>2, <1>4, <1>6
  <2> QED BY <2>1, <2>3, <1>7
<1> QED BY <1>4, <1>7, <1>8 DEF Lists, O

LEMMA OrderedNumbers ==
  ASSUME NEW S, S \subseteq Nat, IsFiniteSet(S)
  PROVE  /\ Lists(Ordered(S, <), S)
         /\ \A i, j \in 1 .. Len(Ordered(S, <)) : j < i => Ordered(S, <)[j] < Ordered(S, <)[i]
<1> DEFINE P == [x \in S |-> {y \in S : y < x}]
<1> DEFINE O == Ordered(S, <)
<1>0. \A x \in S : x \in Nat
    OBVIOUS
<1>1. P \in [S -> SUBSET S] /\ \A x \in S : x \notin P[x]
    BY <1>0
<1>2. ASSUME NEW x \in S, NEW y \in S, x # y PROVE x \in P[y] \/ y \in P[x]
  <2>1. x < y \/ y < x
    BY <1>0, <1>2
  <2> QED BY <2>1
<1>3. ASSUME NEW x \in S, NEW y \in S, x \in P[y], NEW z \in P[x] PROVE z \in P[y]
  <2>1. x < y /\ z < x /\ z \in S
    BY <1>3
  <2>2. z < y
    BY <1>0, <2>1
  <2> QED BY <2>1, <2>2
<1>4. /\ Cardinality(S) \in Nat
      /\ \A x \in S : Cardinality(P[x]) \in 0 .. (Cardinality(S) - 1)
      /\ \A x, y \in S : x \in P[y] => Cardinality(P[x]) < Cardinality(P[y])
      /\ \A x, y \in S : Cardinality(P[x]) = Cardinality(P[y]) => x = y
      /\ \A i \in 1 .. Cardinality(S) : \E x \in S : Cardinality(P[x]) = i - 1
  <2>1. \A x, y \in S : x # y => x \in P[y] \/ y \in P[x]
    BY <1>2
  <2>2. \A x, y \in S : x \in P[y] => P[x] \subseteq P[y]
    BY <1>3
  <2> HIDE DEF P, O
  <2>3. Orders(P, S)
    BY <1>1, <2>1, <2>2, Zenon DEF Orders
  <2>4. Places(P, S)
    BY <2>3, PlacesOf
  <2> QED BY <2>4 DEF Places
<1>5. O = [i \in 1 .. Cardinality(S) |-> O[i]]
  <2> DEFINE C(i) == CHOOSE x \in S : Cardinality({y \in S : y < x}) = i - 1
  <2>1. O = [i \in 1 .. Cardinality(S) |-> C(i)]
    BY DEF Ordered
  <2> HIDE DEF C, O
  <2> QED BY <2>1
<1>50. ASSUME NEW i \in 1 .. Cardinality(S), NEW z \in S, Cardinality({y \in S : y < z}) = i - 1
      PROVE  O[i] \in S /\ Cardinality({y \in S : y < O[i]}) = i - 1
    BY <1>50 DEF Ordered
<1>52. \A x \in S : P[x] = {y \in S : y < x}
    OBVIOUS
<1>51. \A x, y \in S : y \in P[x] <=> y < x
    OBVIOUS
<1> HIDE DEF O, P
<1>6. ASSUME NEW i \in 1 .. Cardinality(S)
      PROVE  O[i] \in S /\ Cardinality(P[O[i]]) = i - 1
  <2>1. PICK z \in S : Cardinality(P[z]) = i - 1
    BY <1>4
  <2> QED BY <2>1, <1>50, <1>52
<1>7. O \in Seq(S) /\ Len(O) = Cardinality(S)
    BY <1>4, <1>5, <1>6
<1>8. ASSUME NEW x \in S PROVE \E i \in 1 .. Len(O) : O[i] = x
  <2>1. Cardinality(P[x]) + 1 \in 1 .. Cardinality(S)
    BY <1>4
  <2>2. Cardinality(P[O[Cardinality(P[x]) + 1]]) = Cardinality(P[x])
    BY <2>1, <1>4, <1>6
  <2>3. O[Cardinality(P[x]) + 1] = x
    BY <2>1, <2>2, <1>4, <1>6
  <2> QED BY <2>1, <2>3, <1>7
<1>9. ASSUME NEW i \in 1 .. Len(O), NEW j \in 1 .. Len(O), j < i PROVE O[j] < O[i]
  <2>1. /\ O[i] \in S /\ O[j] \in S /\ Cardinality(P[O[i]]) = i - 1
        /\ Cardinality(P[O[j]]) = j - 1 /\ i \in Int /\ j \in Int
    BY <1>4, <1>6, <1>7
  <2>2. O[i] \notin P[O[j]]
    <3>1. ~(i - 1 < j - 1)
      BY <2>1, <1>9
    <3> QED BY <2>1, <3>1, <1>4
  <2>3. O[i] # O[j]
    BY <2>1, <1>9
  <2>4. ~(O[i] < O[j])
    BY <2>1, <2>2, <1>51
  <2>5. O[i] \in Nat /\ O[j] \in Nat
    BY <2>1, <1>0
  <2> QED BY <2>3, <2>4, <2>5
<1> QED BY <1>4, <1>7, <1>8, <1>9 DEF Lists, O

-----------------------------------------------------------------------------
(* What a page shows of the rows it counts.                                *)

LEMMA AllCounts ==
  ASSUME NEW T, 0 \in T, \A k \in Nat : k \in T => k + 1 \in T
  PROVE  Nat \subseteq T
<1> SUFFICES ASSUME NEW n \in Nat, n \notin T PROVE FALSE
    OBVIOUS
<1> DEFINE S == {k \in Nat : k \notin T}
<1>1. PICK x \in S : \A y \in S : <<y, x>> \notin OpToRel(<, Nat)
    BY NatLessThanWellFounded, WFMin
<1>2. \A y \in S : ~(y < x)
    BY <1>1 DEF OpToRel
<1>3. x # 0 /\ x - 1 \in Nat /\ x - 1 < x
    OBVIOUS
<1>4. x - 1 \in T
    BY <1>2, <1>3
<1> QED BY <1>3, <1>4

Next1(page, n, before) == IF Recognized(page[n]) THEN Append(before, page[n]) ELSE before
ShownBody(page, f, n) == IF n = 0 THEN <<>> ELSE Next1(page, n, f[n - 1])

LEMMA ShownExists ==
  ASSUME NEW page, NEW n \in Nat
  PROVE  \E f : f = [k \in 0 .. n |-> ShownBody(page, f, k)]
<1> DEFINE T == {m \in Nat : \E f : f = [k \in 0 .. m |-> ShownBody(page, f, k)]}
<1>1. 0 \in T
  <2> DEFINE f == [k \in 0 .. 0 |-> <<>>]
  <2>1. f = [k \in 0 .. 0 |-> ShownBody(page, f, k)]
    BY DEF ShownBody
  <2> HIDE DEF f
  <2> QED BY <2>1
<1>2. ASSUME NEW m \in Nat, m \in T PROVE m + 1 \in T
  <2>1. PICK f : f = [k \in 0 .. m |-> ShownBody(page, f, k)]
    BY <1>2
  <2> DEFINE last == Next1(page, m + 1, f[m])
  <2> HIDE DEF last
  <2> DEFINE g == [k \in 0 .. (m + 1) |-> IF k = m + 1 THEN last ELSE f[k]]
  <2>2. ASSUME NEW k \in 0 .. (m + 1) PROVE g[k] = ShownBody(page, g, k)
    <3>1. CASE k = m + 1
      <4>1. k # 0 /\ k - 1 = m /\ m \in 0 .. (m + 1) /\ m # m + 1
        BY <3>1
      <4>2. g[k - 1] = f[m] /\ g[k] = last
        BY <3>1, <4>1
      <4> HIDE DEF g
      <4> QED BY <3>1, <4>1, <4>2 DEF ShownBody, last
    <3>2. CASE k # m + 1
      <4>1. k \in 0 .. m /\ g[k] = f[k]
        BY <3>2
      <4>2. k # 0 => k - 1 \in 0 .. (m + 1) /\ k - 1 # m + 1
        BY <3>2
      <4>3. k # 0 => g[k - 1] = f[k - 1]
        BY <4>2
      <4>4. f[k] = ShownBody(page, f, k)
        BY <2>1, <4>1
      <4> HIDE DEF g
      <4> QED BY <4>1, <4>3, <4>4 DEF ShownBody
    <3> QED BY <3>1, <3>2
  <2>3. g = [k \in 0 .. (m + 1) |-> g[k]]
    OBVIOUS
  <2> HIDE DEF g
  <2>4. g = [k \in 0 .. (m + 1) |-> ShownBody(page, g, k)]
    BY <2>2, <2>3
  <2> QED BY <2>4
<1> HIDE DEF T
<1>3. Nat \subseteq T
    BY <1>1, <1>2, AllCounts
<1> QED BY <1>3 DEF T

Shows(page, f) ==
  /\ f[0] = <<>> /\ \A k \in 1 .. Len(page) : f[k] = Next1(page, k, f[k - 1])
  /\ Shown(page) = f[Len(page)]

LEMMA ShownIs ==
  ASSUME NEW D, NEW page \in Seq(D)
  PROVE  \E f : Shows(page, f) /\ \A k \in 0 .. Len(page) : f[k] \in Seq(D)
<1> DEFINE n == Len(page)
<1> DEFINE f == CHOOSE f : f = [k \in 0 .. n |-> ShownBody(page, f, k)]
<1>0. n \in Nat /\ \A k \in 1 .. n : page[k] \in D
    OBVIOUS
<1>1. f = [k \in 0 .. n |-> ShownBody(page, f, k)]
    BY <1>0, ShownExists
<1>2. Shown(page) = f[n]
    BY DEF Shown, ShownBody, Next1
<1> HIDE DEF f, n
<1>3. f[0] = <<>> /\ \A k \in 1 .. n : f[k] = Next1(page, k, f[k - 1])
  <2>1. \A k \in 0 .. n : f[k] = ShownBody(page, f, k)
    BY <1>1
  <2> QED BY <1>0, <2>1 DEF ShownBody
<1> DEFINE T == {k \in Nat : k <= n => f[k] \in Seq(D)}
<1>4. 0 \in T
  <2>1. <<>> \in Seq(D)
    OBVIOUS
  <2>2. f[0] \in Seq(D)
    BY <2>1, <1>3
  <2> QED BY <2>2
<1>5. ASSUME NEW k \in Nat, k \in T PROVE k + 1 \in T
  <2> SUFFICES ASSUME k + 1 <= n PROVE f[k + 1] \in Seq(D)
    OBVIOUS
  <2>1. k + 1 \in 1 .. n /\ f[k] \in Seq(D) /\ page[k + 1] \in D /\ (k + 1) - 1 = k
    BY <1>0, <1>5
  <2>2. f[k + 1] = Next1(page, k + 1, f[k])
    BY <1>3, <2>1
  <2> QED BY <2>1, <2>2 DEF Next1
<1> HIDE DEF T
<1>6. Nat \subseteq T
    BY <1>4, <1>5, AllCounts
<1>7. \A k \in 0 .. n : f[k] \in Seq(D)
    BY <1>6, <1>0 DEF T
<1> QED BY <1>2, <1>3, <1>7 DEF Shows, n

\* What a page shows is of what it counts, and has all of it that is recognized.
LEMMA ShownOf ==
  ASSUME NEW D, NEW page \in Seq(D)
  PROVE  /\ Shown(page) \in Seq(D)
         /\ \A i \in 1 .. Len(page) : Recognized(page[i]) =>
              \E j \in 1 .. Len(Shown(page)) : Shown(page)[j] = page[i]
<1> DEFINE n == Len(page)
<1>0. n \in Nat /\ \A k \in 1 .. n : page[k] \in D
    OBVIOUS
<1>1. PICK f : Shows(page, f) /\ \A k \in 0 .. n : f[k] \in Seq(D)
    BY ShownIs
<1> HIDE DEF n
<1>2. /\ Shown(page) = f[n]
      /\ \A k \in 1 .. n : f[k] = Next1(page, k, f[k - 1])
      /\ \A k \in 0 .. n : f[k] \in Seq(D)
    BY <1>1 DEF Shows, n
<1>3. Shown(page) \in Seq(D)
    BY <1>0, <1>2
<1>4. ASSUME NEW i \in 1 .. n, Recognized(page[i])
      PROVE  \E j \in 1 .. Len(f[n]) : f[n][j] = page[i]
  <2> DEFINE T == {k \in Nat : i + k <= n => \E j \in 1 .. Len(f[i + k]) : f[i + k][j] = page[i]}
  <2>1. 0 \in T
    <3>1. i - 1 \in 0 .. n /\ i \in Nat
      BY <1>0
    <3>2. f[i - 1] \in Seq(D) /\ page[i] \in D
      BY <3>1, <1>0, <1>2
    <3>3. f[i] = Append(f[i - 1], page[i])
      BY <1>2, <1>4 DEF Next1
    <3>4. Len(f[i]) = Len(f[i - 1]) + 1 /\ Len(f[i - 1]) \in Nat /\ f[i][Len(f[i - 1]) + 1] = page[i]
      BY <3>2, <3>3
    <3>5. Len(f[i]) \in 1 .. Len(f[i]) /\ f[i][Len(f[i])] = page[i]
      BY <3>4
    <3>6. i + 0 = i
      BY <3>1
    <3> QED BY <3>5, <3>6
  <2>2. ASSUME NEW k \in Nat, k \in T PROVE k + 1 \in T
    <3> SUFFICES ASSUME i + (k + 1) <= n
                 PROVE  \E j \in 1 .. Len(f[i + (k + 1)]) : f[i + (k + 1)][j] = page[i]
      OBVIOUS
    <3> DEFINE m == i + k
    <3>1. m \in 1 .. n /\ m \in 0 .. n /\ m + 1 \in 1 .. n /\ i + (k + 1) = m + 1 /\ (m + 1) - 1 = m
      BY <1>0
    <3>2. PICK j \in 1 .. Len(f[m]) : f[m][j] = page[i]
      BY <2>2, <3>1
    <3> HIDE DEF m, T
    <3>3. f[m] \in Seq(D) /\ page[m + 1] \in D
      BY <3>1, <1>0, <1>2
    <3>4. f[m + 1] = Append(f[m], page[m + 1]) \/ f[m + 1] = f[m]
      BY <3>1, <1>2 DEF Next1
    <3>5. j \in 1 .. Len(f[m + 1]) /\ f[m + 1][j] = f[m][j]
      BY <3>3, <3>4
    <3> QED BY <3>1, <3>2, <3>5
  <2> HIDE DEF T
  <2>3. Nat \subseteq T
    BY <2>1, <2>2, AllCounts
  <2>4. n - i \in Nat /\ i + (n - i) = n
    BY <1>0
  <2>5. n - i \in T
    BY <2>3, <2>4
  <2>6. n <= n
    BY <1>0
  <2> QED BY <2>4, <2>5, <2>6 DEF T
<1> QED BY <1>2, <1>3, <1>4 DEF n

\* Two pages in turn show what one page of both would.
LEMMA ShownInTurn ==
  ASSUME NEW D, NEW list \in Seq(D), NEW a \in 0 .. Len(list), NEW b \in a .. Len(list)
  PROVE  Shown(SubSeq(list, 1, b)) = Shown(SubSeq(list, 1, a)) \o Shown(SubSeq(list, a + 1, b))
<1> DEFINE both == SubSeq(list, 1, b)
           first == SubSeq(list, 1, a)
           second == SubSeq(list, a + 1, b)
<1>1. /\ both \in Seq(D) /\ Len(both) = b /\ \A k \in 1 .. b : both[k] = list[k]
      /\ first \in Seq(D) /\ Len(first) = a /\ \A k \in 1 .. a : first[k] = list[k]
  <2>1. 1 \in 1 .. Len(list) + 1 /\ b \in 1 - 1 .. Len(list) /\ a \in 1 - 1 .. Len(list)
    OBVIOUS
  <2> QED BY <2>1, SubSeqProperties
<1>2. second \in Seq(D) /\ Len(second) = b - a /\ \A k \in 1 .. (b - a) : second[k] = list[a + k]
  <2>1. a + 1 \in 1 .. Len(list) + 1 /\ b \in (a + 1) - 1 .. Len(list)
    OBVIOUS
  <2> QED BY <2>1, SubSeqProperties
<1>3. PICK f : Shows(both, f) /\ \A k \in 0 .. b : f[k] \in Seq(D)
    BY <1>1, ShownIs
<1>4. PICK g : Shows(first, g) /\ \A k \in 0 .. a : g[k] \in Seq(D)
    BY <1>1, ShownIs
<1>5. PICK h : Shows(second, h) /\ \A k \in 0 .. (b - a) : h[k] \in Seq(D)
    BY <1>2, ShownIs
<1> HIDE DEF both, first, second
<1>6. /\ f[0] = <<>> /\ Shown(both) = f[b] /\ \A k \in 1 .. b : f[k] = Next1(both, k, f[k - 1])
      /\ g[0] = <<>> /\ Shown(first) = g[a] /\ \A k \in 1 .. a : g[k] = Next1(first, k, g[k - 1])
    BY <1>1, <1>3, <1>4 DEF Shows
<1>7. /\ h[0] = <<>> /\ Shown(second) = h[b - a]
      /\ \A k \in 1 .. (b - a) : h[k] = Next1(second, k, h[k - 1])
    BY <1>2, <1>5 DEF Shows
<1>8. a \in Nat /\ b \in Nat /\ a <= b
    OBVIOUS
<1>9. f[a] = g[a]
  <2> DEFINE T == {k \in Nat : k <= a => f[k] = g[k]}
  <2>1. 0 \in T
    BY <1>6
  <2>2. ASSUME NEW k \in Nat, k \in T PROVE k + 1 \in T
    <3> SUFFICES ASSUME k + 1 <= a PROVE f[k + 1] = g[k + 1]
      OBVIOUS
    <3>1. k + 1 \in 1 .. a /\ k + 1 \in 1 .. b /\ (k + 1) - 1 = k /\ k <= a
      BY <1>8
    <3>2. f[k] = g[k]
      BY <2>2, <3>1
    <3> HIDE DEF T
    <3>3. both[k + 1] = first[k + 1]
      BY <3>1, <1>1
    <3>4. f[k + 1] = Next1(both, k + 1, f[k]) /\ g[k + 1] = Next1(first, k + 1, g[k])
      BY <3>1, <1>6
    <3> QED BY <3>2, <3>3, <3>4 DEF Next1
  <2> HIDE DEF T
  <2>3. Nat \subseteq T
    BY <2>1, <2>2, AllCounts
  <2>4. a \in T
    BY <2>3, <1>8
  <2>5. a <= a
    BY <1>8
  <2> QED BY <2>4, <2>5 DEF T
<1>10. f[b] = g[a] \o h[b - a]
  <2> DEFINE T == {k \in Nat : k <= b - a => f[a + k] = g[a] \o h[k]}
  <2>0. g[a] \in Seq(D)
    BY <1>4, <1>8
  <2>1. 0 \in T
    <3>1. g[a] \o <<>> = g[a]
      BY <2>0
    <3>2. a + 0 = a
      BY <1>8
    <3> QED BY <1>7, <1>9, <3>1, <3>2
  <2>2. ASSUME NEW k \in Nat, k \in T PROVE k + 1 \in T
    <3>0. k + 1 \in Nat
      OBVIOUS
    <3> SUFFICES ASSUME k + 1 <= b - a PROVE f[a + (k + 1)] = g[a] \o h[k + 1]
      BY <3>0, Zenon
    <3> DEFINE m == a + (k + 1)
    <3>1. /\ k + 1 \in 1 .. (b - a) /\ k \in 0 .. (b - a) /\ (k + 1) - 1 = k /\ k <= b - a
          /\ m \in 1 .. b /\ m - 1 = a + k
      BY <1>8
    <3>2. f[a + k] = g[a] \o h[k]
      BY <2>2, <3>1
    <3> HIDE DEF T
    <3>3. both[m] = second[k + 1] /\ second[k + 1] \in D
      BY <3>1, <1>1, <1>2
    <3> HIDE DEF m
    <3>4. f[m] = Next1(both, m, f[a + k]) /\ h[k + 1] = Next1(second, k + 1, h[k])
      BY <3>1, <1>6, <1>7
    <3>5. h[k] \in Seq(D)
      BY <3>1, <1>5
    <3>6. g[a] \o Append(h[k], second[k + 1]) = Append(g[a] \o h[k], second[k + 1])
      <4> DEFINE x == g[a]
                 y == h[k]
                 e == second[k + 1]
      <4>1. x \in Seq(D) /\ y \in Seq(D) /\ e \in D
        BY <2>0, <3>3, <3>5
      <4> HIDE DEF x, y, e
      <4>2. Append(y, e) = y \o <<e>> /\ Append(x \o y, e) = (x \o y) \o <<e>>
        BY <4>1, AppendIsConcat, ConcatProperties
      <4>3. x \o (y \o <<e>>) = (x \o y) \o <<e>>
        BY <4>1, ConcatAssociative
      <4> QED BY <4>2, <4>3 DEF x, y, e
    <3>7. f[m] = g[a] \o h[k + 1]
      BY <3>2, <3>3, <3>4, <3>6 DEF Next1
    <3> QED BY <3>7 DEF m
  <2> HIDE DEF T
  <2>3. Nat \subseteq T
    BY <2>1, <2>2, AllCounts
  <2>4. b - a \in T /\ b - a <= b - a /\ a + (b - a) = b
    BY <2>3, <1>8
  <2> QED BY <2>4 DEF T
<1> QED BY <1>6, <1>7, <1>10 DEF both, first, second

-----------------------------------------------------------------------------
(* The inductive invariant.                                                *)

RebuildRows == [pc : {"none", "queued", "begun", "versions", "sources", "built", "completed", "failed"},
                current : Nat, last : Nat, docs : SUBSET DocumentRows]
SearchRows  == [pc : {"idle", "book", "judged", "known", "counted", "page"}, history : BOOLEAN,
                start : Nat, book : Nat, fresh : BOOLEAN, some : BOOLEAN, held : BOOLEAN,
                ready : BOOLEAN, total : Nat, cursor : Nat, found : Seq(DocumentRows),
                steady : BOOLEAN]
ViewRows    == [pc : {"idle", "version", "chapters", "shown"}, number : Nat,
                there : SUBSET ChapterIds, chapters : Seq([chapter : ChapterIds, title : Words])]

\* Chapters are written in the order of their numbers.
BookSound ==
    /\ published \in Seq(EditionRows) /\ Len(published) \in 1 .. MaxPublished
    /\ written \in 0 .. MaxChapterRows /\ chapterRows \subseteq 1 .. written
    /\ \A v \in 1 .. Len(published) : published[v].lists \subseteq 1 .. written

\* A document says what its version said.
TrueRow(d) ==
    /\ d \in DocumentRows /\ d.version \in 1 .. Len(published)
    /\ d.word = IF d.kind = "chapter" THEN published[d.version].titles[d.source]
                                      ELSE published[d.version].facts[d.source]

\* Every chapter of a version that is there has its current document.
Documented(docs, v) ==
    \A c \in published[v].lists \cap chapterRows :
        \E d \in docs : d.kind = "chapter" /\ d.source = c /\ d.current /\ d.version = v

UnderWay == rebuild.pc \in {"begun", "versions", "sources"}

IndexSound ==
    /\ rebuild \in RebuildRows
    /\ \A d \in documents : TrueRow(d)
    /\ \A d, e \in CurrentDocuments : d.version = e.version
    /\ \A d \in CurrentDocuments : Documented(documents, d.version)
    /\ UnderWay => /\ rebuild.current \in 1 .. Len(published)
                   /\ \A d \in CurrentDocuments : d.version <= rebuild.current
    /\ rebuild.pc = "versions" => rebuild.last \in rebuild.current .. Len(published)
    /\ rebuild.pc = "sources" =>
          /\ \A d \in rebuild.docs : TrueRow(d) /\ (d.current => d.version = rebuild.current)
          /\ Documented(rebuild.docs, rebuild.current)

Sorted == Ordered(MatchesOf(search.history), Precedes)

\* What is current belongs to the version the search began with or a later one, and so does
\* what a rebuild brings.
SinceStart ==
    /\ \A d \in CurrentDocuments : d.version >= search.start
    /\ UnderWay => rebuild.current >= search.start

OfStart == CurrentDocuments # {} /\ \A d \in CurrentDocuments : d.version = search.start

SearchTrue ==
    /\ search \in SearchRows /\ search.start <= Len(published)
    /\ search.pc # "idle" => search.start >= 1
    /\ search.pc = "book" => search.book \in search.start .. Len(published)
    /\ \A i \in 1 .. Len(search.found) : TrueRow(search.found[i])
    /\ search.held /\ search.ready => \A i \in 1 .. Len(search.found) :
          search.found[i].current => search.found[i].version >= search.start
    /\ search.held /\ search.pc = "judged" /\ search.fresh => SinceStart
    /\ search.held /\ search.pc \in {"known", "counted"} /\ search.ready => SinceStart

SearchSteady ==
    search.steady =>
        /\ search.cursor \in 0 .. Cardinality(MatchesOf(search.history))
        /\ search.found = Shown(SubSeq(Sorted, 1, search.cursor))
        /\ search.pc \in {"counted", "page"} => search.total = Cardinality(MatchesOf(search.history))
        /\ search.held /\ search.ready =>
              /\ search.pc = "book" => search.book = search.start \/ OfStart
              /\ search.pc = "judged" /\ search.fresh => OfStart
              /\ search.pc \in {"known", "counted", "page"} => OfStart

ViewSound ==
    /\ view \in ViewRows /\ (view.pc # "idle" => view.number \in 1 .. Len(published))
    /\ view.pc = "chapters" => published[view.number].lists \cap chapterRows \subseteq view.there
    /\ ViewIsOneVersion

RepairsSound ==
    /\ \A r \in repairs : r.made \in 1 .. Len(published) /\ r.seen \in 1 .. Len(published)
    /\ RepairIsExact

ReadingInv == BookSound /\ IndexSound /\ SearchTrue /\ SearchSteady /\ ViewSound /\ RepairsSound

-----------------------------------------------------------------------------
(* The matches can be listed.                                              *)

LEMMA RowsFinite ==
  ASSUME NEW D, \A d \in D : TrueRow(d)
  PROVE  /\ IsFiniteSet(D) /\ D \subseteq DocumentRows
         /\ \A x, y \in D : (x.current = y.current /\ x.version = y.version /\ x.kind = y.kind
                                /\ x.source = y.source) => x = y
<1>1. ASSUME NEW x \in D, NEW y \in D, x.current = y.current, x.version = y.version,
             x.kind = y.kind, x.source = y.source
      PROVE  x = y
  <2>1. x \in DocumentRows /\ y \in DocumentRows /\ x.word = y.word
    BY <1>1 DEF TrueRow
  <2> QED BY <1>1, <2>1 DEF DocumentRows
<1> DEFINE K == {"chapter", "fact"} \X (ChapterIds \cup Facts)
           W == VersionNumbers \X BOOLEAN
           f == [d \in D |-> <<<<d.kind, d.source>>, <<d.version, d.current>>>>]
<1>2. IsFiniteSet(K \X W)
  <2>1. IsFiniteSet({"chapter", "fact"}) /\ IsFiniteSet(BOOLEAN)
    <3>1. IsFiniteSet({"chapter"} \cup {"fact"}) /\ IsFiniteSet({TRUE} \cup {FALSE})
      BY FS_Singleton, FS_Union
    <3>2. {"chapter"} \cup {"fact"} = {"chapter", "fact"} /\ {TRUE} \cup {FALSE} = BOOLEAN
      OBVIOUS
    <3> QED BY <3>1, <3>2
  <2>2. IsFiniteSet(ChapterIds) /\ IsFiniteSet(VersionNumbers)
    BY ReadingAssumption, FS_Interval DEF ChapterIds, VersionNumbers
  <2>3. IsFiniteSet(ChapterIds \cup Facts)
    BY <2>2, ReadingAssumption, FS_Union
  <2> HIDE DEF K, W
  <2>4. IsFiniteSet(K) /\ IsFiniteSet(W)
    BY <2>1, <2>2, <2>3, FS_Product DEF K, W
  <2> QED BY <2>4, FS_Product
<1>3. \A d \in D : d \in DocumentRows
    BY DEF TrueRow
<1>4. f \in Injection(D, K \X W)
  <2>1. ASSUME NEW d \in D PROVE f[d] \in K \X W
    BY <1>3 DEF DocumentRows
  <2>2. ASSUME NEW x \in D, NEW y \in D, f[x] = f[y] PROVE x = y
    <3>1. x.current = y.current /\ x.version = y.version /\ x.kind = y.kind /\ x.source = y.source
      BY <2>2
    <3> QED BY <3>1, <1>1
  <2> HIDE DEF K, W
  <2>3. f \in [D -> K \X W]
    BY <2>1
  <2> HIDE DEF f
  <2> QED BY <2>2, <2>3 DEF Injection, IsInjective
<1>5. IsFiniteSet(D)
  <2> HIDE DEF K, W, f
  <2> QED BY <1>2, <1>4, FS_Injection
<1> QED BY <1>1, <1>3, <1>5

LEMMA SortedLists ==
  ASSUME IndexSound, NEW history \in BOOLEAN
  PROVE  Lists(Ordered(MatchesOf(history), Precedes), MatchesOf(history))
<1> DEFINE D == MatchesOf(history)
<1>1. \A d \in D : TrueRow(d)
    BY DEF IndexSound, MatchesOf
<1> HIDE DEF D
<1>2. /\ IsFiniteSet(D) /\ D \subseteq DocumentRows
      /\ \A x, y \in D : (x.current = y.current /\ x.version = y.version /\ x.kind = y.kind
                                /\ x.source = y.source) => x = y
    BY <1>1, RowsFinite
<1>3. Facts \subseteq Nat
    BY ReadingAssumption DEF Facts
<1> QED BY <1>2, <1>3, OrderedPrecedes DEF D

-----------------------------------------------------------------------------
(* The book only grows: versions stay, and a chapter that comes is new.    *)

BookMoves ==
    /\ Len(published') >= Len(published) /\ \A v \in 1 .. Len(published) : published'[v] = published[v]
    /\ chapterRows' \cap (1 .. written) \subseteq chapterRows

Publishes(e) ==
    /\ e \in EditionRows /\ AppendVersion(e)
    /\ written' \in written .. MaxChapterRows /\ e.lists \subseteq 1 .. written'
    /\ chapterRows' \subseteq chapterRows \cup ((written + 1) .. written')
    /\ UNCHANGED <<documents, rebuild, search, view>>

LEMMA EditionIs ==
  ASSUME BookSound
  PROVE  /\ Edition \in EditionRows /\ Edition.lists \subseteq 1 .. written
         /\ CurrentNumber \in 1 .. Len(published) /\ written \in Nat
         /\ \A v \in 1 .. Len(published) : published[v] \in EditionRows
<1>1. CurrentNumber \in 1 .. Len(published)
    BY DEF CurrentNumber, BookSound
<1> QED BY <1>1 DEF BookSound, Edition

LEMMA PublishMoves ==
  ASSUME BookSound, NEW e, Publishes(e)
  PROVE  BookSound' /\ BookMoves
<1>1. /\ published \in Seq(EditionRows) /\ e \in EditionRows /\ published' = Append(published, e)
      /\ Len(published) \in Nat /\ Len(published) < MaxPublished /\ MaxPublished \in Nat
      /\ MaxChapterRows \in Nat /\ written \in Nat /\ written' \in Nat /\ written <= written'
      /\ written' <= MaxChapterRows
    BY ReadingAssumption DEF BookSound, Publishes, AppendVersion, CurrentNumber
<1>2. /\ published' \in Seq(EditionRows) /\ Len(published') = Len(published) + 1
      /\ \A v \in 1 .. Len(published) : published'[v] = published[v]
      /\ published'[Len(published) + 1] = e
    BY <1>1
<1>3. Len(published') \in 1 .. MaxPublished /\ Len(published') >= Len(published)
    BY <1>1, <1>2
<1>4. chapterRows' \subseteq 1 .. written' /\ chapterRows' \cap (1 .. written) \subseteq chapterRows
    BY <1>1 DEF BookSound, Publishes
<1>5. \A v \in 1 .. Len(published') : published'[v].lists \subseteq 1 .. written'
  <2> SUFFICES ASSUME NEW v \in 1 .. Len(published') PROVE published'[v].lists \subseteq 1 .. written'
    OBVIOUS
  <2>1. CASE v = Len(published) + 1
    BY <2>1, <1>2 DEF Publishes
  <2>2. CASE v # Len(published) + 1
    <3>1. v \in 1 .. Len(published)
      BY <2>2, <1>1, <1>2
    <3>2. published[v].lists \subseteq 1 .. written
      BY <3>1 DEF BookSound
    <3>3. 1 .. written \subseteq 1 .. written'
      BY <1>1
    <3> QED BY <3>1, <3>2, <3>3, <1>2
  <2> QED BY <2>1, <2>2
<1> QED BY <1>1, <1>2, <1>3, <1>4, <1>5 DEF BookSound, BookMoves

LEMMA Publications ==
  ASSUME BookSound,
         \/ \E w \in Words : WriteChapter(w)
         \/ \E f \in TextFacts, w \in Words : EditFact(f, w)
         \/ \E c \in ChapterIds, w \in Words : Rename(c, w)
         \/ \E v \in VersionNumbers : ReturnTo(v) \/ ApplyRepairs(v)
         \/ \E c \in ChapterIds : TruncateFrom(c)
  PROVE  \E e : Publishes(e)
<1>0. /\ Edition \in EditionRows /\ Edition.lists \subseteq 1 .. written
      /\ written \in Nat /\ MaxChapterRows \in Nat /\ written <= MaxChapterRows
      /\ \A v \in 1 .. Len(published) : published[v] \in EditionRows
      /\ Len(published) \in Nat
    BY EditionIs, ReadingAssumption DEF BookSound
<1>1. ASSUME NEW e \in EditionRows, AppendVersion(e), e.lists \subseteq 1 .. written,
             UNCHANGED <<documents, rebuild, search, view, chapterRows, written>>
      PROVE  Publishes(e)
    BY <1>0, <1>1 DEF Publishes
<1>2. Facts = ListFacts \cup TextFacts /\ Words \subseteq Values
    BY DEF Facts, Values
<1>3. CASE \E w \in Words : WriteChapter(w)
  <2>1. PICK w \in Words : WriteChapter(w)
    BY <1>3
  <2> DEFINE e == [Edition EXCEPT !.lists = @ \cup {written + 1}, !.titles[written + 1] = w]
  <2>2. written + 1 \in ChapterIds
    BY <2>1 DEF WriteChapter
  <2>3. e \in EditionRows
    BY <1>0, <2>2 DEF EditionRows
  <2>4. e.lists = Edition.lists \cup {written + 1}
    BY <1>0 DEF EditionRows
  <2>5. AppendVersion(e) /\ written' = written + 1 /\ chapterRows' = chapterRows \cup {written + 1}
    BY <2>1 DEF WriteChapter
  <2>6. UNCHANGED <<documents, rebuild, search, view>>
    BY <2>1 DEF WriteChapter, Desk
  <2> HIDE DEF e
  <2>7. e.lists \subseteq 1 .. written' /\ written' \in written .. MaxChapterRows
    BY <2>2, <2>4, <2>5, <1>0 DEF ChapterIds
  <2>8. chapterRows' \subseteq chapterRows \cup ((written + 1) .. written')
    BY <2>5, <1>0
  <2> QED BY <2>3, <2>5, <2>6, <2>7, <2>8 DEF Publishes
<1>4. CASE \E f \in TextFacts, w \in Words : EditFact(f, w)
  <2>1. PICK f \in TextFacts, w \in Words : EditFact(f, w)
    BY <1>4
  <2>2. [Edition EXCEPT !.facts[f] = w] \in EditionRows
    BY <1>0, <1>2 DEF EditionRows
  <2>3. [Edition EXCEPT !.facts[f] = w].lists = Edition.lists
    BY <1>0 DEF EditionRows
  <2> QED BY <2>1, <2>2, <2>3, <1>0, <1>1 DEF EditFact, Desk
<1>5. CASE \E c \in ChapterIds, w \in Words : Rename(c, w)
  <2>1. PICK c \in ChapterIds, w \in Words : Rename(c, w)
    BY <1>5
  <2>2. [Edition EXCEPT !.titles[c] = w] \in EditionRows
    BY <1>0 DEF EditionRows
  <2>3. [Edition EXCEPT !.titles[c] = w].lists = Edition.lists
    BY <1>0 DEF EditionRows
  <2> QED BY <2>1, <2>2, <2>3, <1>0, <1>1 DEF Rename, Desk
<1>6. CASE \E v \in VersionNumbers : ReturnTo(v)
  <2>1. PICK v \in VersionNumbers : ReturnTo(v)
    BY <1>6
  <2>2. v \in 1 .. Len(published)
    BY <2>1, <1>0 DEF ReturnTo, VersionNumbers, CurrentNumber
  <2>3. published[v] \in EditionRows /\ published[v].lists \subseteq 1 .. written
    BY <2>2, <1>0 DEF BookSound
  <2> QED BY <2>1, <2>3, <1>1 DEF ReturnTo, Desk
<1>7. CASE \E v \in VersionNumbers : ApplyRepairs(v)
  <2>1. PICK v \in VersionNumbers : ApplyRepairs(v)
    BY <1>7
  <2> DEFINE facts == NormalizeFacts(Edition.facts)
  <2>2. facts \in [Facts -> Values]
    BY <1>0, <1>2 DEF NormalizeFacts, EditionRows, Values
  <2> HIDE DEF facts
  <2>3. [Edition EXCEPT !.facts = facts] \in EditionRows
    BY <1>0, <2>2 DEF EditionRows
  <2>4. [Edition EXCEPT !.facts = facts].lists = Edition.lists
    BY <1>0 DEF EditionRows
  <2>5. AppendVersion([Edition EXCEPT !.facts = facts])
        /\ UNCHANGED <<documents, rebuild, search, view, chapterRows, written>>
    BY <2>1 DEF ApplyRepairs, facts
  <2> QED BY <2>3, <2>4, <2>5, <1>0, <1>1
<1>8. CASE \E c \in ChapterIds : TruncateFrom(c)
  <2>1. PICK c \in ChapterIds : TruncateFrom(c)
    BY <1>8
  <2> DEFINE kept == {d \in Edition.lists : d < c}
  <2>2. kept \subseteq Edition.lists
    OBVIOUS
  <2>3. AppendVersion([Edition EXCEPT !.lists = kept])
        /\ UNCHANGED <<documents, rebuild, search, view, chapterRows, written>>
    BY <2>1 DEF TruncateFrom, Desk
  <2> HIDE DEF kept
  <2>4. [Edition EXCEPT !.lists = kept] \in EditionRows
    BY <1>0, <2>2 DEF EditionRows
  <2>5. [Edition EXCEPT !.lists = kept].lists = kept
    BY <1>0 DEF EditionRows
  <2> QED BY <2>2, <2>3, <2>4, <2>5, <1>0, <1>1
<1> QED BY <1>3, <1>4, <1>5, <1>6, <1>7, <1>8

LEMMA DeletionMoves ==
  ASSUME BookSound, NEW c \in ChapterIds, DeleteChapter(c)
  PROVE  BookSound' /\ BookMoves
<1>1. published' = published /\ written' = written /\ chapterRows' \subseteq chapterRows
    BY DEF DeleteChapter
<1>2. Len(published') >= Len(published)
    BY <1>1 DEF BookSound
<1> QED BY <1>1, <1>2 DEF BookSound, BookMoves

LEMMA StillMoves ==
  ASSUME BookSound, UNCHANGED BookVars
  PROVE  BookSound' /\ BookMoves
<1>1. Len(published') >= Len(published)
    BY DEF BookSound, BookVars
<1> QED BY <1>1 DEF BookSound, BookMoves, BookVars

LEMMA RowStays ==
  ASSUME BookMoves, BookSound, NEW d, TrueRow(d)
  PROVE  /\ d \in DocumentRows /\ d.version \in 1 .. Len(published')
         /\ d.word = IF d.kind = "chapter" THEN published'[d.version].titles[d.source]
                                           ELSE published'[d.version].facts[d.source]
<1>1. published'[d.version] = published[d.version]
    BY DEF BookMoves, TrueRow
<1>3. d.version \in 1 .. Len(published')
    BY DEF BookSound, BookMoves, TrueRow
<1> QED BY <1>1, <1>3 DEF TrueRow

LEMMA TrueStays ==
  ASSUME BookMoves, BookSound, BookSound', NEW d, TrueRow(d)
  PROVE  TrueRow(d)'
BY RowStays DEF TrueRow

LEMMA DocumentedStays ==
  ASSUME BookMoves, BookSound, NEW D, NEW v \in 1 .. Len(published), Documented(D, v)
  PROVE  Documented(D, v)'
<1>1. published'[v] = published[v] /\ published[v].lists \subseteq 1 .. written
    BY DEF BookMoves, BookSound
<1>2. published'[v].lists \cap chapterRows' \subseteq published[v].lists \cap chapterRows
    BY <1>1 DEF BookMoves
<1> QED BY <1>2 DEF Documented

\* What the rebuild has read of the index stays true while the book moves on.
LEMMA IndexRests ==
  ASSUME BookSound, BookSound', BookMoves, IndexSound, UNCHANGED <<documents, rebuild>>
  PROVE  IndexSound'
<1>0. CurrentDocuments' = CurrentDocuments /\ UnderWay' = UnderWay
    BY DEF CurrentDocuments, UnderWay
<1>1. \A d \in documents' : TrueRow(d)'
    BY TrueStays DEF IndexSound
<1>2. \A d \in CurrentDocuments : d.version \in 1 .. Len(published)
    BY DEF CurrentDocuments, IndexSound, TrueRow
<1>3. \A d \in CurrentDocuments' : Documented(documents, d.version)'
    BY <1>0, <1>2, DocumentedStays DEF IndexSound
<1>4. Len(published) \in Nat /\ Len(published') \in Nat /\ Len(published) <= Len(published')
    BY DEF BookSound, BookMoves
<1>5. UnderWay => /\ rebuild.current \in 1 .. Len(published')
                  /\ \A d \in CurrentDocuments : d.version <= rebuild.current
    BY <1>4 DEF IndexSound
<1>6. rebuild.pc = "versions" => rebuild.last \in rebuild.current .. Len(published')
  <2>1. rebuild.pc = "versions" => rebuild.last \in rebuild.current .. Len(published)
                                    /\ rebuild.current \in 1 .. Len(published)
    BY DEF IndexSound, UnderWay
  <2> QED BY <2>1, <1>4
<1>7. rebuild.pc = "sources" =>
          /\ \A d \in rebuild.docs : TrueRow(d)' /\ (d.current => d.version = rebuild.current)
          /\ Documented(rebuild.docs, rebuild.current)'
  <2> SUFFICES ASSUME rebuild.pc = "sources"
               PROVE  /\ \A d \in rebuild.docs : TrueRow(d)' /\ (d.current => d.version = rebuild.current)
                      /\ Documented(rebuild.docs, rebuild.current)'
    OBVIOUS
  <2>1. \A d \in rebuild.docs : TrueRow(d) /\ (d.current => d.version = rebuild.current)
    BY DEF IndexSound
  <2>2. \A d \in rebuild.docs : TrueRow(d)'
    BY <2>1, TrueStays
  <2>3. rebuild.current \in 1 .. Len(published) /\ Documented(rebuild.docs, rebuild.current)
    BY DEF IndexSound, UnderWay
  <2> DEFINE D == rebuild.docs
             v == rebuild.current
  <2>4. D' = D /\ v' = v
    OBVIOUS
  <2>5. published'[v] = published[v] /\ published[v].lists \subseteq 1 .. written
    BY <2>3 DEF BookMoves, BookSound
  <2>6. published'[v].lists \cap chapterRows' \subseteq published[v].lists \cap chapterRows
    BY <2>5 DEF BookMoves
  <2>7. Documented(D, v)'
    BY <2>3, <2>4, <2>6 DEF Documented
  <2> QED BY <2>1, <2>2, <2>7
<1> QED BY <1>0, <1>1, <1>3, <1>5, <1>6, <1>7 DEF IndexSound

LEMMA IndexDeletion ==
  ASSUME BookSound, IndexSound, NEW c \in ChapterIds, DeleteChapter(c)
  PROVE  IndexSound'
<1>0. /\ published' = published /\ rebuild' = rebuild /\ chapterRows' = chapterRows \ {c}
      /\ documents' = {d \in documents : d.kind = "chapter" => d.source # c}
    BY DEF DeleteChapter, Desk
<1>1. UnderWay' = UnderWay /\ CurrentDocuments' \subseteq CurrentDocuments
    BY <1>0 DEF UnderWay, CurrentDocuments
<1>2. \A d : TrueRow(d)' <=> TrueRow(d)
    BY <1>0 DEF TrueRow
<1>3. ASSUME NEW v, Documented(documents, v) PROVE Documented(documents, v)'
    BY <1>0, <1>3 DEF Documented
<1>4. rebuild.pc = "sources" => Documented(rebuild.docs, rebuild.current)'
    BY <1>0 DEF Documented, IndexSound
<1>5. \A d \in documents' : TrueRow(d)'
    BY <1>0, <1>2 DEF IndexSound
<1>6. \A d \in CurrentDocuments' : Documented(documents, d.version)'
    BY <1>1, <1>3 DEF IndexSound
<1> QED BY <1>0, <1>1, <1>2, <1>4, <1>5, <1>6 DEF IndexSound

LEMMA SourcesTrue ==
  ASSUME BookSound, NEW last \in 1 .. Len(published), NEW current \in 1 .. last
  PROVE  /\ \A d \in SourceDocuments(last, current) : TrueRow(d) /\ (d.current => d.version = current)
         /\ Documented(SourceDocuments(last, current), current)
<1>0. /\ \A v \in 1 .. last : v \in 1 .. Len(published) /\ v \in VersionNumbers
      /\ MaxPublished \in Nat
  <2>1. Len(published) \in 1 .. MaxPublished
    BY DEF BookSound
  <2> QED BY <2>1, ReadingAssumption DEF VersionNumbers
<1>1. \A v \in 1 .. last : published[v] \in EditionRows
    BY <1>0 DEF BookSound
<1>2. ASSUME NEW v \in 1 .. last, NEW d \in ChapterDocuments(v, v = current)
      PROVE  TrueRow(d) /\ (d.current => d.version = current)
  <2>1. PICK c \in published[v].lists \cap chapterRows :
          d = [kind |-> "chapter", source |-> c, version |-> v, current |-> (v = current),
               word |-> published[v].titles[c]]
    BY <1>2 DEF ChapterDocuments
  <2>2. c \in ChapterIds /\ published[v].titles[c] \in Words
    BY <1>1 DEF EditionRows
  <2>3. d \in DocumentRows
    BY <2>1, <2>2, <1>0 DEF DocumentRows
  <2> QED BY <2>1, <2>3, <1>0 DEF TrueRow
<1>3. ASSUME NEW v \in 1 .. last, NEW d \in StateDocuments(v, v = current)
      PROVE  TrueRow(d) /\ (d.current => d.version = current)
  <2>1. PICK f \in TextFacts : published[v].facts[f] \in Words /\
          d = [kind |-> "fact", source |-> f, version |-> v, current |-> (v = current),
               word |-> published[v].facts[f]]
    BY <1>3 DEF StateDocuments
  <2>2. f \in Facts
    BY DEF Facts
  <2>3. d \in DocumentRows
    BY <2>1, <2>2, <1>0 DEF DocumentRows
  <2> QED BY <2>1, <2>3, <1>0 DEF TrueRow
<1>4. ASSUME NEW d \in SourceDocuments(last, current)
      PROVE  TrueRow(d) /\ (d.current => d.version = current)
  <2>1. PICK v \in 1 .. last : d \in ChapterDocuments(v, v = current) \cup StateDocuments(v, v = current)
    BY <1>4 DEF SourceDocuments
  <2> QED BY <2>1, <1>2, <1>3
<1>5. ASSUME NEW c \in published[current].lists \cap chapterRows
      PROVE  \E d \in SourceDocuments(last, current) :
                d.kind = "chapter" /\ d.source = c /\ d.current /\ d.version = current
  <2> DEFINE d == [kind |-> "chapter", source |-> c, version |-> current,
                   current |-> (current = current), word |-> published[current].titles[c]]
  <2>1. d \in ChapterDocuments(current, current = current)
    BY DEF ChapterDocuments
  <2>2. current \in 1 .. last
    OBVIOUS
  <2>3. d \in SourceDocuments(last, current)
    BY <2>1, <2>2 DEF SourceDocuments
  <2>4. d.kind = "chapter" /\ d.source = c /\ d.current /\ d.version = current
    OBVIOUS
  <2> HIDE DEF d
  <2> QED BY <2>3, <2>4
<1> QED BY <1>4, <1>5 DEF Documented

LEMMA RebuildSteps ==
  ASSUME BookSound, IndexSound,
         \/ QueueRebuild \/ BeginRebuild \/ ReadVersions \/ ReadSources \/ InsertDocuments
         \/ CompleteRebuild \/ FailRebuild
  PROVE  IndexSound'
<1>0. UNCHANGED BookVars
    BY DEF QueueRebuild, BeginRebuild, ReadVersions, ReadSources, InsertDocuments, CompleteRebuild,
           FailRebuild
<1>1. /\ \A d : TrueRow(d)' <=> TrueRow(d)
      /\ \A D, v : Documented(D, v) <=> (\A c \in published[v].lists \cap chapterRows :
            \E d \in D : d.kind = "chapter" /\ d.source = c /\ d.current /\ d.version = v)
      /\ published' = published /\ chapterRows' = chapterRows
    BY <1>0 DEF TrueRow, Documented, BookVars
<1>2. /\ rebuild \in RebuildRows /\ Len(published) \in Nat /\ Len(published) >= 1
      /\ \A d \in CurrentDocuments : d.version \in 1 .. Len(published)
    BY DEF IndexSound, BookSound, CurrentDocuments, TrueRow
<1>3. ASSUME documents' = documents, rebuild' \in RebuildRows, ~UnderWay'
      PROVE  IndexSound'
  <2>1. CurrentDocuments' = CurrentDocuments
    BY <1>3 DEF CurrentDocuments
  <2>2. \A d \in documents' : TrueRow(d)'
    BY <1>1, <1>3 DEF IndexSound
  <2>3. \A d \in CurrentDocuments' : Documented(documents, d.version)'
    BY <1>1, <1>3, <2>1 DEF IndexSound, Documented
  <2>4. rebuild'.pc # "versions" /\ rebuild'.pc # "sources"
    BY <1>3 DEF UnderWay
  <2> QED BY <1>3, <2>1, <2>2, <2>3, <2>4 DEF IndexSound
<1>4. ASSUME documents' = documents, rebuild' \in RebuildRows, UnderWay',
             rebuild'.current \in 1 .. Len(published),
             \A d \in CurrentDocuments : d.version <= rebuild'.current,
             rebuild'.pc = "versions" => rebuild'.last \in rebuild'.current .. Len(published),
             rebuild'.pc = "sources" =>
                 /\ \A d \in rebuild'.docs : TrueRow(d) /\ (d.current => d.version = rebuild'.current)
                 /\ Documented(rebuild'.docs, rebuild'.current)
      PROVE  IndexSound'
  <2>1. CurrentDocuments' = CurrentDocuments
    BY <1>4 DEF CurrentDocuments
  <2>2. \A d \in documents' : TrueRow(d)'
    BY <1>1, <1>4 DEF IndexSound
  <2>3. \A d \in CurrentDocuments' : Documented(documents, d.version)'
    BY <1>1, <1>4, <2>1 DEF IndexSound, Documented
  <2>5. rebuild'.pc = "sources" =>
          /\ \A d \in rebuild'.docs : TrueRow(d)' /\ (d.current => d.version = rebuild'.current)
          /\ Documented(rebuild.docs, rebuild.current)'
    BY <1>1, <1>4 DEF Documented
  <2> QED BY <1>1, <1>4, <2>1, <2>2, <2>3, <2>5 DEF IndexSound
<1>5. CASE QueueRebuild
  <2>1. documents' = documents /\ rebuild' = [NoRebuild EXCEPT !.pc = "queued"]
    BY <1>5 DEF QueueRebuild
  <2>2. rebuild' \in RebuildRows /\ ~UnderWay'
    BY <2>1 DEF NoRebuild, RebuildRows, UnderWay
  <2> QED BY <2>1, <2>2, <1>3
<1>6. CASE BeginRebuild
  <2>1. documents' = documents /\ rebuild' = [rebuild EXCEPT !.pc = "begun", !.current = CurrentNumber]
    BY <1>6 DEF BeginRebuild
  <2>2. CurrentNumber = Len(published)
    BY DEF CurrentNumber
  <2>3. rebuild' \in RebuildRows /\ rebuild'.pc = "begun" /\ rebuild'.current = Len(published)
    BY <2>1, <2>2, <1>2 DEF RebuildRows
  <2>4. \A d \in CurrentDocuments : d.version <= Len(published)
    BY <1>2
  <2>5. UnderWay' /\ Len(published) \in 1 .. Len(published)
    BY <2>3, <1>2 DEF UnderWay
  <2> QED BY <2>1, <2>3, <2>4, <2>5, <1>4
<1>7. CASE ReadVersions
  <2>1. /\ documents' = documents /\ rebuild' = [rebuild EXCEPT !.pc = "versions", !.last = CurrentNumber]
        /\ rebuild.pc = "begun"
    BY <1>7 DEF ReadVersions, Rebuilding
  <2>2. CurrentNumber = Len(published)
    BY DEF CurrentNumber
  <2>3. /\ rebuild' \in RebuildRows /\ rebuild'.pc = "versions" /\ rebuild'.last = Len(published)
        /\ rebuild'.current = rebuild.current
    BY <2>1, <2>2, <1>2 DEF RebuildRows
  <2>4. /\ UnderWay' /\ rebuild.current \in 1 .. Len(published)
        /\ \A d \in CurrentDocuments : d.version <= rebuild.current
    BY <2>1, <2>3 DEF UnderWay, IndexSound
  <2>5. Len(published) \in rebuild.current .. Len(published)
    BY <2>4, <1>2
  <2> QED BY <2>1, <2>3, <2>4, <2>5, <1>4
<1>8. CASE ReadSources
  <2> DEFINE docs == SourceDocuments(rebuild.last, rebuild.current)
  <2>1. /\ documents' = documents /\ rebuild' = [rebuild EXCEPT !.pc = "sources", !.docs = docs]
        /\ rebuild.pc = "versions"
    BY <1>8 DEF ReadSources, Rebuilding
  <2>2. /\ rebuild.last \in rebuild.current .. Len(published)
        /\ rebuild.current \in 1 .. Len(published)
        /\ \A d \in CurrentDocuments : d.version <= rebuild.current
    BY <2>1 DEF IndexSound, UnderWay
  <2>3. rebuild.last \in 1 .. Len(published) /\ rebuild.current \in 1 .. rebuild.last
    BY <2>2, <1>2
  <2>4. /\ \A d \in docs : TrueRow(d) /\ (d.current => d.version = rebuild.current)
        /\ Documented(docs, rebuild.current)
    BY <2>3, SourcesTrue
  <2> HIDE DEF docs
  <2>5. docs \subseteq DocumentRows
    BY <2>4 DEF TrueRow
  <2>6. /\ rebuild' \in RebuildRows /\ rebuild'.pc = "sources" /\ rebuild'.docs = docs
        /\ rebuild'.current = rebuild.current
    BY <2>1, <2>5, <1>2 DEF RebuildRows
  <2>7. UnderWay'
    BY <2>6 DEF UnderWay
  <2> QED BY <2>1, <2>2, <2>4, <2>6, <2>7, <1>4
<1>9. CASE InsertDocuments
  <2>1. /\ documents' = rebuild.docs /\ rebuild' = [NoRebuild EXCEPT !.pc = "built"]
        /\ rebuild.pc = "sources"
    BY <1>9 DEF InsertDocuments, Rebuilding
  <2>2. rebuild' \in RebuildRows /\ ~UnderWay' /\ rebuild'.pc = "built"
    BY <2>1 DEF NoRebuild, RebuildRows, UnderWay
  <2>3. /\ \A d \in rebuild.docs : TrueRow(d) /\ (d.current => d.version = rebuild.current)
        /\ Documented(rebuild.docs, rebuild.current)
    BY <2>1 DEF IndexSound
  <2>4. \A d \in CurrentDocuments' : d.version = rebuild.current
    BY <2>1, <2>3 DEF CurrentDocuments
  <2>5. \A d \in documents' : TrueRow(d)'
    BY <2>1, <2>3, <1>1
  <2>6. Documented(documents', rebuild.current)
    BY <2>1, <2>3
  <2>7. \A d \in CurrentDocuments' : Documented(documents, d.version)'
    BY <2>4, <2>6, <1>1 DEF Documented
  <2> QED BY <2>2, <2>4, <2>5, <2>7 DEF IndexSound
<1>10. CASE CompleteRebuild
  <2>1. documents' = documents /\ rebuild' = [rebuild EXCEPT !.pc = "completed"]
    BY <1>10 DEF CompleteRebuild
  <2>2. rebuild' \in RebuildRows /\ ~UnderWay'
    BY <2>1, <1>2 DEF RebuildRows, UnderWay
  <2> QED BY <2>1, <2>2, <1>3
<1>11. CASE FailRebuild
  <2>1. documents' = documents /\ rebuild' = [NoRebuild EXCEPT !.pc = "failed"]
    BY <1>11 DEF FailRebuild
  <2>2. rebuild' \in RebuildRows /\ ~UnderWay'
    BY <2>1 DEF NoRebuild, RebuildRows, UnderWay
  <2> QED BY <2>1, <2>2, <1>3
<1> QED BY <1>5, <1>6, <1>7, <1>8, <1>9, <1>10, <1>11

\* The actions that leave the index alone.
Reads == \/ \E history \in BOOLEAN : BeginSearch(history)
         \/ NextPage \/ JudgeDocuments \/ JudgeRebuild \/ CountMatches \/ ShowPage
         \/ BeginView \/ ReadChapters \/ ShowView

LEMMA IndexStep ==
  ASSUME BookSound, IndexSound, NextReading \/ UNCHANGED readingVars
  PROVE  BookSound' /\ BookMoves /\ IndexSound'
<1>1. ASSUME UNCHANGED <<BookVars, documents, rebuild>>
      PROVE  BookSound' /\ BookMoves /\ IndexSound'
    BY <1>1, StillMoves, IndexRests
<1>2. CASE \/ QueueRebuild \/ BeginRebuild \/ ReadVersions \/ ReadSources \/ InsertDocuments
           \/ CompleteRebuild \/ FailRebuild
  <2>1. UNCHANGED BookVars
    BY <1>2 DEF QueueRebuild, BeginRebuild, ReadVersions, ReadSources, InsertDocuments,
                CompleteRebuild, FailRebuild
  <2> QED BY <1>2, <2>1, StillMoves, RebuildSteps
<1>3. CASE Reads
  <2>1. UNCHANGED <<BookVars, documents, rebuild>>
    BY <1>3 DEF Reads, BeginSearch, NextPage, JudgeDocuments, JudgeRebuild, CountMatches, ShowPage,
                BeginView, ReadChapters, ShowView, DeskOthers
  <2> QED BY <2>1, <1>1
<1>4. CASE \E c \in ChapterIds : DeleteChapter(c)
    BY <1>4, DeletionMoves, IndexDeletion
<1>5. CASE \/ \E w \in Words : WriteChapter(w)
           \/ \E f \in TextFacts, w \in Words : EditFact(f, w)
           \/ \E c \in ChapterIds, w \in Words : Rename(c, w)
           \/ \E v \in VersionNumbers : ReturnTo(v) \/ ApplyRepairs(v)
           \/ \E c \in ChapterIds : TruncateFrom(c)
  <2>1. PICK e : Publishes(e)
    BY <1>5, Publications
  <2>2. UNCHANGED <<documents, rebuild>>
    BY <2>1 DEF Publishes
  <2> QED BY <2>1, <2>2, PublishMoves, IndexRests
<1>6. CASE UNCHANGED readingVars
    BY <1>1, <1>6 DEF readingVars, BookVars
<1> QED BY <1>2, <1>3, <1>4, <1>5, <1>6 DEF NextReading, Reads

-----------------------------------------------------------------------------
(* What a search may believe.                                              *)

\* How a step of somebody else can move the index under a search.
IndexMoves ==
    \/ /\ documents' \subseteq documents
       /\ UnderWay' => \/ UnderWay /\ rebuild'.current = rebuild.current
                       \/ rebuild'.current = Len(published)
    \/ documents' = rebuild.docs /\ rebuild.pc = "sources" /\ ~UnderWay'

LEMMA IndexMovesSo ==
  ASSUME BookSound, IndexSound, NextReading \/ UNCHANGED readingVars
  PROVE  IndexMoves
<1>0. rebuild \in RebuildRows
    BY DEF IndexSound
<1>1. ASSUME documents' \subseteq documents, rebuild' = rebuild PROVE IndexMoves
    BY <1>1 DEF IndexMoves, UnderWay
<1>2. ASSUME documents' = documents, ~UnderWay' PROVE IndexMoves
    BY <1>2 DEF IndexMoves
<1>3. CASE QueueRebuild \/ CompleteRebuild \/ FailRebuild
    BY <1>0, <1>2, <1>3 DEF QueueRebuild, CompleteRebuild, FailRebuild, NoRebuild, UnderWay, RebuildRows
<1>4. CASE BeginRebuild
    BY <1>0, <1>4 DEF BeginRebuild, IndexMoves, CurrentNumber, RebuildRows
<1>5. CASE ReadVersions \/ ReadSources
    BY <1>0, <1>5 DEF ReadVersions, ReadSources, IndexMoves, Rebuilding, UnderWay, RebuildRows
<1>6. CASE InsertDocuments
    BY <1>0, <1>6 DEF InsertDocuments, IndexMoves, Rebuilding, UnderWay, RebuildRows, NoRebuild
<1>7. CASE Reads
  <2>1. documents' = documents /\ rebuild' = rebuild
    BY <1>7 DEF Reads, BeginSearch, NextPage, JudgeDocuments, JudgeRebuild, CountMatches, ShowPage,
                BeginView, ReadChapters, ShowView, DeskOthers
  <2> QED BY <2>1, <1>1
<1>8. CASE \E c \in ChapterIds : DeleteChapter(c)
    BY <1>1, <1>8 DEF DeleteChapter, Desk
<1>9. CASE \/ \E w \in Words : WriteChapter(w)
           \/ \E f \in TextFacts, w \in Words : EditFact(f, w)
           \/ \E c \in ChapterIds, w \in Words : Rename(c, w)
           \/ \E v \in VersionNumbers : ReturnTo(v) \/ ApplyRepairs(v)
           \/ \E c \in ChapterIds : TruncateFrom(c)
    BY <1>1, <1>9, Publications DEF Publishes
<1>10. CASE UNCHANGED readingVars
    BY <1>1, <1>10 DEF readingVars
<1> QED BY <1>3, <1>4, <1>5, <1>6, <1>7, <1>8, <1>9, <1>10 DEF NextReading, Reads

LEMMA SinceStays ==
  ASSUME BookSound, IndexSound, search.start <= Len(published), search.start \in Nat, SinceStart,
         IndexMoves, search'.start = search.start
  PROVE  SinceStart'
<1>1. CASE /\ documents' \subseteq documents
           /\ UnderWay' => \/ UnderWay /\ rebuild'.current = rebuild.current
                           \/ rebuild'.current = Len(published)
  <2>1. CurrentDocuments' \subseteq CurrentDocuments
    BY <1>1 DEF CurrentDocuments
  <2>2. Len(published) >= search.start
    BY DEF BookSound
  <2> QED BY <1>1, <2>1, <2>2 DEF SinceStart
<1>2. CASE documents' = rebuild.docs /\ rebuild.pc = "sources" /\ ~UnderWay'
  <2>1. \A d \in CurrentDocuments' : d.version = rebuild.current
    BY <1>2 DEF IndexSound, CurrentDocuments
  <2>2. rebuild.current >= search.start
    BY <1>2 DEF SinceStart, UnderWay
  <2> QED BY <1>2, <2>1, <2>2 DEF SinceStart
<1> QED BY <1>1, <1>2 DEF IndexMoves

\* A search nobody works on.
LEMMA SearchRests ==
  ASSUME BookSound, BookSound', BookMoves, IndexSound, SearchTrue, IndexMoves,
         search' = search \/ search' = [search EXCEPT !.steady = FALSE]
  PROVE  SearchTrue'
<1>1. /\ search \in SearchRows /\ search' \in SearchRows
      /\ search'.pc = search.pc /\ search'.start = search.start /\ search'.book = search.book
      /\ search'.fresh = search.fresh /\ search'.held = search.held /\ search'.ready = search.ready
      /\ search'.found = search.found
    BY DEF SearchTrue, SearchRows
<1>2. /\ Len(published) \in Nat /\ Len(published') \in Nat /\ Len(published) <= Len(published')
      /\ search.start \in Nat /\ search.start <= Len(published)
    BY <1>1 DEF BookSound, BookMoves, SearchTrue, SearchRows
<1>3. search.pc = "book" => search.book \in search.start .. Len(published')
    BY <1>2 DEF SearchTrue
<1>4. \A i \in 1 .. Len(search.found) : TrueRow(search.found[i])
    BY DEF SearchTrue
<1>5. \A i \in 1 .. Len(search'.found) : TrueRow(search.found[i])'
  <2> SUFFICES ASSUME NEW i \in 1 .. Len(search.found) PROVE TrueRow(search.found[i])'
    BY <1>1
  <2> DEFINE d == search.found[i]
  <2>1. TrueRow(d)
    BY <1>4
  <2>2. d' = d
    BY <1>1
  <2> HIDE DEF d
  <2>3. /\ d \in DocumentRows /\ d.version \in 1 .. Len(published')
        /\ d.word = IF d.kind = "chapter" THEN published'[d.version].titles[d.source]
                                          ELSE published'[d.version].facts[d.source]
    BY <2>1, RowStays
  <2>4. TrueRow(d)'
    BY <2>2, <2>3 DEF TrueRow
  <2> QED BY <2>4 DEF d
<1>6. SinceStart => SinceStart'
    BY <1>1, <1>2, SinceStays
<1>7. search.start <= Len(published')
    BY <1>2
<1> QED BY <1>1, <1>3, <1>5, <1>6, <1>7 DEF SearchTrue

\* What a step of the search itself must give.
LEMMA SearchGoesOn ==
  ASSUME UNCHANGED <<BookVars, documents, rebuild>>, search' \in SearchRows,
         search'.start <= Len(published),
         search'.pc # "idle" => search'.start >= 1,
         search'.pc = "book" => search'.book \in search'.start .. Len(published),
         \A i \in 1 .. Len(search'.found) : TrueRow(search'.found[i]),
         search'.held /\ search'.ready => \A i \in 1 .. Len(search'.found) :
             search'.found[i].current => search'.found[i].version >= search'.start,
         (search'.held /\ search'.pc = "judged" /\ search'.fresh)
         \/ (search'.held /\ search'.pc \in {"known", "counted"} /\ search'.ready) =>
              /\ \A d \in CurrentDocuments : d.version >= search'.start
              /\ UnderWay => rebuild.current >= search'.start
  PROVE  SearchTrue'
<1>1. published' = published /\ CurrentDocuments' = CurrentDocuments /\ UnderWay' = UnderWay
      /\ rebuild' = rebuild
    BY DEF BookVars, CurrentDocuments, UnderWay
<1>2. \A i \in 1 .. Len(search'.found) : TrueRow(search.found[i])'
    BY <1>1 DEF TrueRow
<1>3. (search'.held /\ search'.pc = "judged" /\ search'.fresh)
         \/ (search'.held /\ search'.pc \in {"known", "counted"} /\ search'.ready) => SinceStart'
    BY <1>1 DEF SinceStart
<1> QED BY <1>1, <1>2, <1>3 DEF SearchTrue

\* The page that is shown next.
Upto == IF search.cursor + PageSize < Len(Sorted) THEN search.cursor + PageSize ELSE Len(Sorted)
Page == SubSeq(Sorted, search.cursor + 1, Upto)

LEMMA PageIs ==
  ASSUME SearchTrue, IndexSound
  PROVE  /\ Lists(Sorted, MatchesOf(search.history)) /\ search.cursor \in Nat /\ Upto \in Nat
         /\ Upto <= Len(Sorted) /\ Page \in Seq(MatchesOf(search.history))
         /\ Shown(Page) \in Seq(MatchesOf(search.history))
         /\ Len(Page) = (IF search.cursor + 1 <= Upto THEN Upto - search.cursor ELSE 0)
<1>0. search.history \in BOOLEAN /\ search.cursor \in Nat /\ PageSize \in Nat
    BY ReadingAssumption DEF SearchTrue, SearchRows
<1> DEFINE M == MatchesOf(search.history)
<1>1. Lists(Sorted, M)
    BY <1>0, SortedLists DEF Sorted
<1> HIDE DEF M
<1>2. Sorted \in Seq(M) /\ Len(Sorted) \in Nat
    BY <1>1 DEF Lists
<1>3. Upto \in Nat /\ Upto <= Len(Sorted)
    BY <1>0, <1>2 DEF Upto
<1>4. \A i \in search.cursor + 1 .. Upto : Sorted[i] \in M
  <2>1. \A i \in search.cursor + 1 .. Upto : i \in 1 .. Len(Sorted)
    BY <1>0, <1>2, <1>3
  <2> QED BY <2>1, <1>2
<1>5. search.cursor + 1 \in Int /\ Upto \in Int
    BY <1>0, <1>3
<1>6. Page \in Seq(M) /\ Len(Page) = IF search.cursor + 1 <= Upto THEN Upto - (search.cursor + 1) + 1 ELSE 0
    BY <1>4, <1>5, SubSeqProperties DEF Page
<1>7. Upto - (search.cursor + 1) + 1 = Upto - search.cursor
    BY <1>0, <1>3
<1>8. Shown(Page) \in Seq(M)
    BY <1>6, ShownOf
<1> QED BY <1>0, <1>1, <1>3, <1>6, <1>7, <1>8 DEF M

LEMMA ShowPageIs ==
  ASSUME ShowPage
  PROVE  /\ UNCHANGED <<DeskOthers, view>> /\ search.pc = "counted"
         /\ search' = [search EXCEPT !.pc = "page", !.found = search.found \o Shown(Page),
                                     !.cursor = search.cursor + Len(Page)]
BY DEF ShowPage, Page, Upto, Sorted, Searching, Advanced

LEMMA SearchTrueSteps ==
  ASSUME BookSound, IndexSound, SearchTrue, Reads
  PROVE  SearchTrue'
<1>0. /\ search \in SearchRows /\ Len(published) \in Nat /\ Len(published) >= 1
      /\ CurrentNumber = Len(published)
      /\ search.start \in Nat /\ search.book \in Nat /\ search.start <= Len(published)
    BY DEF SearchTrue, BookSound, SearchRows, CurrentNumber
<1>1. UNCHANGED <<BookVars, documents, rebuild>>
    BY DEF Reads, BeginSearch, NextPage, JudgeDocuments, JudgeRebuild, CountMatches, ShowPage,
           BeginView, ReadChapters, ShowView, DeskOthers
<1>2. <<>> \in Seq(DocumentRows) /\ Len(<<>>) = 0
    OBVIOUS
<1>3. CASE \E history \in BOOLEAN : BeginSearch(history)
  <2>1. PICK history \in BOOLEAN : BeginSearch(history)
    BY <1>3
  <2>2. search' = [NoSearch EXCEPT !.pc = "book", !.history = history, !.start = Len(published),
                              !.book = Len(published)]
    BY <2>1, <1>0 DEF BeginSearch
  <2>3. /\ search' \in SearchRows /\ search'.pc = "book" /\ search'.found = <<>>
        /\ search'.start = Len(published) /\ search'.book = Len(published)
    BY <2>2, <1>0, <1>2 DEF NoSearch, SearchRows
  <2>4. search'.book \in search'.start .. Len(published) /\ search'.start <= Len(published)
    BY <2>3, <1>0
  <2>5. \A i \in 1 .. Len(search'.found) : FALSE
    BY <2>3, <1>2
  <2> QED BY <1>0, <1>1, <2>3, <2>4, <2>5, SearchGoesOn
<1>4. CASE NextPage
  <2>1. search' = [search EXCEPT !.pc = "book", !.book = Len(published)] /\ search.pc = "page"
    BY <1>4, <1>0 DEF NextPage, Searching
  <2>2. /\ search' \in SearchRows /\ search'.pc = "book" /\ search'.book = Len(published)
        /\ search'.found = search.found /\ search'.held = search.held /\ search'.ready = search.ready
        /\ search'.start = search.start /\ search.start >= 1
    BY <2>1, <1>0 DEF SearchRows, SearchTrue
  <2>3. search'.book \in search'.start .. Len(published) /\ search'.start <= Len(published)
    BY <2>2, <1>0
  <2>4. /\ \A i \in 1 .. Len(search'.found) : TrueRow(search'.found[i])
        /\ search'.held /\ search'.ready => \A i \in 1 .. Len(search'.found) :
             search'.found[i].current => search'.found[i].version >= search'.start
    BY <2>2 DEF SearchTrue
  <2> QED BY <1>1, <2>2, <2>3, <2>4, SearchGoesOn
<1>5. CASE JudgeDocuments
  <2> DEFINE fresh == \A d \in CurrentDocuments : d.version = search.book
             held  == search.held /\ CurrentDocuments # {}
             some  == documents # {}
  <2>1. /\ search' = [search EXCEPT !.pc = "judged", !.held = held, !.some = some, !.fresh = fresh]
        /\ search.pc = "book"
    BY <1>5 DEF JudgeDocuments, Searching
  <2>2. fresh \in BOOLEAN /\ held \in BOOLEAN /\ some \in BOOLEAN
    OBVIOUS
  <2>3. held /\ fresh => /\ \A d \in CurrentDocuments : d.version >= search.start
                         /\ UnderWay => rebuild.current >= search.start
    <3> SUFFICES ASSUME held, fresh
                 PROVE  /\ \A d \in CurrentDocuments : d.version >= search.start
                        /\ UnderWay => rebuild.current >= search.start
      OBVIOUS
    <3>1. PICK d \in CurrentDocuments : d.version = search.book
      OBVIOUS
    <3>2. search.book \in search.start .. Len(published)
      BY <2>1 DEF SearchTrue
    <3>3. UnderWay => search.book <= rebuild.current /\ rebuild.current \in Nat
      BY <3>1 DEF IndexSound
    <3>4. UnderWay => rebuild.current >= search.start
      BY <3>2, <3>3, <1>0
    <3>5. search.book >= search.start
      BY <3>2, <1>0
    <3> QED BY <3>4, <3>5
  <2>4. held => search.held
    OBVIOUS
  <2> HIDE DEF fresh, held, some
  <2>5. /\ search' \in SearchRows /\ search'.pc = "judged" /\ search'.found = search.found
        /\ search'.held = held /\ search'.ready = search.ready /\ search'.fresh = fresh
        /\ search'.start = search.start /\ search.start >= 1
    BY <2>1, <2>2, <1>0 DEF SearchRows, SearchTrue
  <2>6. /\ \A i \in 1 .. Len(search'.found) : TrueRow(search'.found[i])
        /\ search'.held /\ search'.ready => \A i \in 1 .. Len(search'.found) :
             search'.found[i].current => search'.found[i].version >= search'.start
    BY <2>4, <2>5 DEF SearchTrue
  <2> QED BY <1>0, <1>1, <2>3, <2>5, <2>6, SearchGoesOn
<1>6. CASE JudgeRebuild
  <2> DEFINE ready == search.ready /\ Ready
  <2>1. /\ search' = [search EXCEPT !.pc = "known", !.ready = ready, !.book = 0,
                                !.fresh = FALSE, !.some = FALSE]
        /\ search.pc = "judged"
    BY <1>6 DEF JudgeRebuild, Searching
  <2>2. ready \in BOOLEAN /\ (ready => search.ready /\ search.fresh)
    BY DEF Ready
  <2> HIDE DEF ready
  <2>3. /\ search' \in SearchRows /\ search'.pc = "known" /\ search'.found = search.found
        /\ search'.held = search.held /\ search'.ready = ready
        /\ search'.start = search.start /\ search.start >= 1
    BY <2>1, <2>2, <1>0 DEF SearchRows, SearchTrue
  <2>4. /\ \A i \in 1 .. Len(search'.found) : TrueRow(search'.found[i])
        /\ search'.held /\ search'.ready => \A i \in 1 .. Len(search'.found) :
             search'.found[i].current => search'.found[i].version >= search'.start
    BY <2>2, <2>3 DEF SearchTrue
  <2>5. search.held /\ ready => SinceStart
    BY <2>1, <2>2 DEF SearchTrue
  <2> QED BY <1>0, <1>1, <2>3, <2>4, <2>5, SearchGoesOn DEF SinceStart
<1>7. CASE CountMatches
  <2> DEFINE total == Cardinality(MatchesOf(search.history))
  <2>1. search' = [search EXCEPT !.pc = "counted", !.total = total] /\ search.pc = "known"
    BY <1>7 DEF CountMatches, Searching
  <2>2. total \in Nat
    BY PageIs DEF Lists
  <2> HIDE DEF total
  <2>3. /\ search' \in SearchRows /\ search'.pc = "counted" /\ search'.found = search.found
        /\ search'.held = search.held /\ search'.ready = search.ready
        /\ search'.start = search.start /\ search.start >= 1
    BY <2>1, <2>2, <1>0 DEF SearchRows, SearchTrue
  <2>4. /\ \A i \in 1 .. Len(search'.found) : TrueRow(search'.found[i])
        /\ search'.held /\ search'.ready => \A i \in 1 .. Len(search'.found) :
             search'.found[i].current => search'.found[i].version >= search'.start
    BY <2>3 DEF SearchTrue
  <2>5. search.held /\ search.ready => SinceStart
    BY <2>1 DEF SearchTrue
  <2> QED BY <1>0, <1>1, <2>3, <2>4, <2>5, SearchGoesOn DEF SinceStart
<1>8. CASE ShowPage
  <2> DEFINE shown == Shown(Page)
  <2>1. /\ search' = [search EXCEPT !.pc = "page", !.found = search.found \o shown,
                                    !.cursor = search.cursor + Len(Page)]
        /\ search.pc = "counted"
    BY <1>8, ShowPageIs
  <2>2. /\ shown \in Seq(MatchesOf(search.history)) /\ search.cursor + Len(Page) \in Nat
        /\ search.found \in Seq(DocumentRows)
    BY <1>0, PageIs DEF SearchRows
  <2>3. \A d \in MatchesOf(search.history) : d \in documents /\ TrueRow(d) /\ d \in DocumentRows
    BY DEF MatchesOf, IndexSound, TrueRow
  <2> HIDE DEF shown
  <2>4. shown \in Seq(DocumentRows) /\ \A i \in 1 .. Len(shown) : shown[i] \in documents /\ TrueRow(shown[i])
    BY <2>2, <2>3
  <2>5. /\ search.found \o shown \in Seq(DocumentRows)
        /\ \A i \in 1 .. Len(search.found \o shown) :
              \/ i \in 1 .. Len(search.found) /\ (search.found \o shown)[i] = search.found[i]
              \/ \E j \in 1 .. Len(shown) : (search.found \o shown)[i] = shown[j]
    BY <2>2, <2>4
  <2>6. /\ search' \in SearchRows /\ search'.pc = "page" /\ search'.found = search.found \o shown
        /\ search'.held = search.held /\ search'.ready = search.ready
        /\ search'.start = search.start /\ search.start >= 1
    BY <2>1, <2>2, <2>5, <1>0 DEF SearchRows, SearchTrue
  <2>7. \A i \in 1 .. Len(search'.found) : TrueRow(search'.found[i])
    BY <2>4, <2>5, <2>6 DEF SearchTrue
  <2>8. search'.held /\ search'.ready => \A i \in 1 .. Len(search'.found) :
             search'.found[i].current => search'.found[i].version >= search'.start
    <3> SUFFICES ASSUME search.held, search.ready, NEW i \in 1 .. Len(search.found \o shown),
                        (search.found \o shown)[i].current
                 PROVE  (search.found \o shown)[i].version >= search.start
      BY <2>6
    <3>1. SinceStart
      BY <2>1 DEF SearchTrue
    <3>2. \A j \in 1 .. Len(shown) : shown[j].current => shown[j] \in CurrentDocuments
      BY <2>4 DEF CurrentDocuments
    <3> QED BY <2>5, <3>1, <3>2 DEF SinceStart, SearchTrue
  <2> QED BY <1>0, <1>1, <2>6, <2>7, <2>8, SearchGoesOn
<1>9. CASE BeginView
  <2>1. search' = NoSearch
    BY <1>9 DEF BeginView
  <2>2. search' \in SearchRows /\ search'.pc = "idle" /\ search'.found = <<>> /\ search'.start = 0
    BY <2>1, <1>2 DEF NoSearch, SearchRows
  <2>3. \A i \in 1 .. Len(search'.found) : FALSE
    BY <2>2, <1>2
  <2> QED BY <1>0, <1>1, <2>2, <2>3, SearchGoesOn
<1>10. CASE ReadChapters \/ ShowView
  <2>1. search' = search
    BY <1>10 DEF ReadChapters, ShowView
  <2> QED BY <1>1, <2>1, SearchGoesOn DEF SearchTrue, SinceStart
<1> QED BY <1>3, <1>4, <1>5, <1>6, <1>7, <1>8, <1>9, <1>10 DEF Reads

-----------------------------------------------------------------------------
(* A search through an index that does not change.                         *)

LEMMA NothingShown ==
  ASSUME NEW list
  PROVE  Shown(SubSeq(list, 1, 0)) = <<>>
<1>1. SubSeq(list, 1, 0) = <<>>
    BY SubSeqEmpty
<1>2. <<>> \in Seq({}) /\ Len(<<>>) = 0
    OBVIOUS
<1>3. PICK f : Shows(<<>>, f)
    BY <1>2, ShownIs
<1> QED BY <1>1, <1>2, <1>3 DEF Shows

LEMMA SteadyGoesOn ==
  ASSUME documents' = documents, search' \in SearchRows,
         search'.steady =>
            /\ search'.cursor \in 0 .. Cardinality(MatchesOf(search'.history))
            /\ search'.found = Shown(SubSeq(Ordered(MatchesOf(search'.history), Precedes), 1, search'.cursor))
            /\ search'.pc \in {"counted", "page"} =>
                  search'.total = Cardinality(MatchesOf(search'.history))
            /\ search'.held /\ search'.ready =>
                  /\ search'.pc = "book" => \/ search'.book = search'.start
                                            \/ /\ CurrentDocuments # {}
                                               /\ \A d \in CurrentDocuments : d.version = search'.start
                  /\ (search'.pc = "judged" /\ search'.fresh)
                     \/ search'.pc \in {"known", "counted", "page"} =>
                        /\ CurrentDocuments # {}
                        /\ \A d \in CurrentDocuments : d.version = search'.start
  PROVE  SearchSteady'
<1>1. /\ CurrentDocuments' = CurrentDocuments
      /\ MatchesOf(search.history)' = MatchesOf(search'.history)
    BY DEF CurrentDocuments, MatchesOf
<1>2. Sorted' = Ordered(MatchesOf(search'.history), Precedes)
    BY <1>1 DEF Sorted
<1> QED BY <1>1, <1>2 DEF SearchSteady, OfStart

LEMMA SteadyRests ==
  ASSUME SearchTrue, SearchSteady, documents' = documents, search' = search
  PROVE  SearchSteady'
<1>1. /\ CurrentDocuments' = CurrentDocuments
      /\ MatchesOf(search.history)' = MatchesOf(search.history)
    BY DEF CurrentDocuments, MatchesOf
<1>2. Sorted' = Sorted
    BY <1>1 DEF Sorted
<1> QED BY <1>1, <1>2 DEF SearchSteady, OfStart

LEMMA SteadySteps ==
  ASSUME BookSound, IndexSound, SearchTrue, SearchSteady, SearchTrue', Reads
  PROVE  SearchSteady'
<1>0. /\ search \in SearchRows /\ search' \in SearchRows /\ CurrentNumber = Len(published)
    BY DEF SearchTrue, CurrentNumber
<1>1. documents' = documents
    BY DEF Reads, BeginSearch, NextPage, JudgeDocuments, JudgeRebuild, CountMatches, ShowPage,
           BeginView, ReadChapters, ShowView, DeskOthers
<1>2. ASSUME NEW history \in BOOLEAN
      PROVE  0 \in 0 .. Cardinality(MatchesOf(history))
  <2>1. Cardinality(MatchesOf(history)) \in Nat
    BY SortedLists DEF Lists
  <2> QED BY <2>1
<1>3. CASE \E history \in BOOLEAN : BeginSearch(history)
  <2>1. PICK history \in BOOLEAN : BeginSearch(history)
    BY <1>3
  <2>2. search' = [NoSearch EXCEPT !.pc = "book", !.history = history, !.start = Len(published),
                              !.book = Len(published)]
    BY <2>1, <1>0 DEF BeginSearch
  <2>3. /\ search'.pc = "book" /\ search'.found = <<>> /\ search'.cursor = 0
        /\ search'.start = Len(published) /\ search'.book = Len(published)
        /\ search'.history = history
    BY <2>2 DEF NoSearch
  <2> QED BY <1>0, <1>1, <1>2, <2>3, NothingShown, SteadyGoesOn
<1>4. CASE NextPage
  <2>1. search' = [search EXCEPT !.pc = "book", !.book = Len(published)] /\ search.pc = "page"
    BY <1>4, <1>0 DEF NextPage, Searching
  <2>2. /\ search'.pc = "book" /\ search'.book = Len(published) /\ search'.cursor = search.cursor
        /\ search'.found = search.found /\ search'.held = search.held /\ search'.ready = search.ready
        /\ search'.start = search.start /\ search'.steady = search.steady
        /\ search'.history = search.history
    BY <2>1, <1>0 DEF SearchRows
  <2>3. search.steady /\ search.held /\ search.ready => OfStart
    BY <2>1 DEF SearchSteady
  <2>4. search.steady => /\ search.cursor \in 0 .. Cardinality(MatchesOf(search.history))
                         /\ search.found = Shown(SubSeq(Ordered(MatchesOf(search.history), Precedes), 1, search.cursor))
    BY DEF SearchSteady, Sorted
  <2> QED BY <1>0, <1>1, <2>2, <2>3, <2>4, SteadyGoesOn DEF OfStart
<1>5. CASE JudgeDocuments
  <2> DEFINE fresh == \A d \in CurrentDocuments : d.version = search.book
             held  == search.held /\ CurrentDocuments # {}
             some  == documents # {}
  <2>1. /\ search' = [search EXCEPT !.pc = "judged", !.held = held, !.some = some, !.fresh = fresh]
        /\ search.pc = "book"
    BY <1>5 DEF JudgeDocuments, Searching
  <2>2. search.steady /\ held /\ search.ready => search.book = search.start \/ OfStart
    BY <2>1 DEF SearchSteady
  <2>3. search.steady /\ held /\ search.ready /\ fresh => OfStart
    BY <2>2 DEF OfStart
  <2> HIDE DEF fresh, held, some
  <2>4. /\ search'.pc = "judged" /\ search'.cursor = search.cursor /\ search'.fresh = fresh
        /\ search'.found = search.found /\ search'.held = held /\ search'.ready = search.ready
        /\ search'.start = search.start /\ search'.steady = search.steady
        /\ search'.history = search.history
    BY <2>1, <1>0 DEF SearchRows
  <2>5. search.steady => /\ search.cursor \in 0 .. Cardinality(MatchesOf(search.history))
                         /\ search.found = Shown(SubSeq(Ordered(MatchesOf(search.history), Precedes), 1, search.cursor))
    BY DEF SearchSteady, Sorted
  <2> QED BY <1>0, <1>1, <2>3, <2>4, <2>5, SteadyGoesOn DEF OfStart
<1>6. CASE JudgeRebuild
  <2> DEFINE ready == search.ready /\ Ready
  <2>1. /\ search' = [search EXCEPT !.pc = "known", !.ready = ready, !.book = 0,
                                !.fresh = FALSE, !.some = FALSE]
        /\ search.pc = "judged"
    BY <1>6 DEF JudgeRebuild, Searching
  <2>2. ready => search.ready /\ search.fresh
    BY DEF Ready
  <2>3. search.steady /\ search.held /\ ready => OfStart
    BY <2>1, <2>2 DEF SearchSteady
  <2> HIDE DEF ready
  <2>4. /\ search'.pc = "known" /\ search'.cursor = search.cursor
        /\ search'.found = search.found /\ search'.held = search.held /\ search'.ready = ready
        /\ search'.start = search.start /\ search'.steady = search.steady
        /\ search'.history = search.history
    BY <2>1, <1>0 DEF SearchRows
  <2>5. search.steady => /\ search.cursor \in 0 .. Cardinality(MatchesOf(search.history))
                         /\ search.found = Shown(SubSeq(Ordered(MatchesOf(search.history), Precedes), 1, search.cursor))
    BY DEF SearchSteady, Sorted
  <2> QED BY <1>0, <1>1, <2>3, <2>4, <2>5, SteadyGoesOn DEF OfStart
<1>7. CASE CountMatches
  <2> DEFINE total == Cardinality(MatchesOf(search.history))
  <2>1. search' = [search EXCEPT !.pc = "counted", !.total = total] /\ search.pc = "known"
    BY <1>7 DEF CountMatches, Searching
  <2>2. /\ search'.pc = "counted" /\ search'.cursor = search.cursor /\ search'.total = total
        /\ search'.found = search.found /\ search'.held = search.held /\ search'.ready = search.ready
        /\ search'.start = search.start /\ search'.steady = search.steady
        /\ search'.history = search.history
    BY <2>1, <1>0 DEF SearchRows
  <2>3. search.steady /\ search.held /\ search.ready => OfStart
    BY <2>1 DEF SearchSteady
  <2>4. search.steady => /\ search.cursor \in 0 .. Cardinality(MatchesOf(search.history))
                         /\ search.found = Shown(SubSeq(Ordered(MatchesOf(search.history), Precedes), 1, search.cursor))
    BY DEF SearchSteady, Sorted
  <2> QED BY <1>0, <1>1, <2>2, <2>3, <2>4, SteadyGoesOn DEF OfStart
<1>8. CASE ShowPage
  <2>1. /\ search' = [search EXCEPT !.pc = "page", !.found = search.found \o Shown(Page),
                                    !.cursor = search.cursor + Len(Page)]
        /\ search.pc = "counted"
    BY <1>8, ShowPageIs
  <2>2. /\ search'.pc = "page" /\ search'.cursor = search.cursor + Len(Page)
        /\ search'.total = search.total
        /\ search'.found = search.found \o Shown(Page)
        /\ search'.held = search.held /\ search'.ready = search.ready
        /\ search'.start = search.start /\ search'.steady = search.steady
        /\ search'.history = search.history
    BY <2>1, <1>0 DEF SearchRows
  <2>3. /\ search.steady /\ search.held /\ search.ready => OfStart
        /\ search.steady => search.total = Cardinality(MatchesOf(search.history))
    BY <2>1 DEF SearchSteady
  <2>4. search.steady =>
          /\ search'.cursor \in 0 .. Cardinality(MatchesOf(search.history))
          /\ search'.found = Shown(SubSeq(Sorted, 1, search'.cursor))
    <3> SUFFICES ASSUME search.steady
                 PROVE  /\ search'.cursor \in 0 .. Cardinality(MatchesOf(search.history))
                        /\ search'.found = Shown(SubSeq(Sorted, 1, search'.cursor))
      OBVIOUS
    <3>1. /\ search.cursor \in 0 .. Len(Sorted) /\ Len(Sorted) \in Nat
          /\ Len(Sorted) = Cardinality(MatchesOf(search.history))
          /\ Sorted \in Seq(MatchesOf(search.history))
          /\ search.found = Shown(SubSeq(Sorted, 1, search.cursor))
      BY PageIs DEF SearchSteady, Lists
    <3>2. Upto \in search.cursor .. Len(Sorted)
      BY <3>1, ReadingAssumption DEF Upto
    <3>3. Len(Page) = Upto - search.cursor
      <4>1. Len(Page) = (IF search.cursor + 1 <= Upto THEN Upto - search.cursor ELSE 0)
        BY PageIs
      <4> QED BY <4>1, <3>1, <3>2
    <3>4. search'.cursor = Upto
      BY <2>2, <3>1, <3>2, <3>3
    <3>5. Shown(SubSeq(Sorted, 1, Upto)) = Shown(SubSeq(Sorted, 1, search.cursor)) \o Shown(Page)
      BY <3>1, <3>2, ShownInTurn DEF Page
    <3>6. Upto \in 0 .. Cardinality(MatchesOf(search.history))
      BY <3>1, <3>2
    <3> QED BY <2>2, <3>1, <3>4, <3>5, <3>6
  <2> QED BY <1>0, <1>1, <2>2, <2>3, <2>4, SteadyGoesOn DEF OfStart, Sorted
<1>9. CASE BeginView
  <2>1. search' = NoSearch
    BY <1>9 DEF BeginView
  <2>2. /\ search'.pc = "idle" /\ search'.found = <<>> /\ search'.cursor = 0
        /\ search'.history = FALSE
    BY <2>1 DEF NoSearch
  <2> QED BY <1>0, <1>1, <1>2, <2>2, NothingShown, SteadyGoesOn
<1>10. CASE ReadChapters \/ ShowView
  <2>1. search' = search
    BY <1>10 DEF ReadChapters, ShowView
  <2> QED BY <1>1, <2>1, SteadyRests
<1> QED BY <1>3, <1>4, <1>5, <1>6, <1>7, <1>8, <1>9, <1>10 DEF Reads

-----------------------------------------------------------------------------
(* What a reader sees of the book.                                         *)

LEMMA ViewRests ==
  ASSUME BookSound, BookSound', BookMoves, ViewSound, view' = view
  PROVE  ViewSound'
<1>1. /\ Len(published) \in Nat /\ Len(published') \in Nat /\ Len(published) <= Len(published')
    BY DEF BookSound, BookMoves
<1>2. view.pc # "idle" =>
        /\ view.number \in 1 .. Len(published') /\ published'[view.number] = published[view.number]
        /\ published[view.number].lists \cap chapterRows' \subseteq published[view.number].lists \cap chapterRows
  <2> SUFFICES ASSUME view.pc # "idle"
               PROVE  /\ view.number \in 1 .. Len(published')
                      /\ published'[view.number] = published[view.number]
                      /\ published[view.number].lists \cap chapterRows'
                            \subseteq published[view.number].lists \cap chapterRows
    OBVIOUS
  <2>1. view.number \in 1 .. Len(published)
    BY DEF ViewSound
  <2>2. published[view.number].lists \subseteq 1 .. written
    BY <2>1 DEF BookSound
  <2> QED BY <1>1, <2>1, <2>2 DEF BookMoves
<1>3. view.pc = "chapters" => published'[view.number].lists \cap chapterRows' \subseteq view.there
    BY <1>2 DEF ViewSound
<1>4. ViewIsOneVersion'
  <2> SUFFICES ASSUME view.pc = "shown"  PROVE  ViewIsOneVersion'
    BY DEF ViewIsOneVersion
  <2> DEFINE E == published[view.number]
             ShowsOf(e, there, list) ==
                /\ e.lists \cap there \subseteq {list[i].chapter : i \in 1 .. Len(list)}
                /\ {list[i].chapter : i \in 1 .. Len(list)} \subseteq e.lists
                /\ \A i \in 1 .. Len(list) :
                      /\ list[i].title = e.titles[list[i].chapter]
                      /\ \A j \in 1 .. i - 1 : list[j].chapter < list[i].chapter
  <2>1. ShowsOf(E, chapterRows, view.chapters)
    BY DEF ViewSound, ViewIsOneVersion
  <2>2. published'[view.number] = E /\ E.lists \cap chapterRows' \subseteq E.lists \cap chapterRows
    BY <1>2
  <2> HIDE DEF E
  <2>3. ShowsOf(E, chapterRows', view.chapters)
    BY <2>1, <2>2
  <2>4. ViewIsOneVersion' <=> ShowsOf(published'[view.number], chapterRows', view.chapters)
    BY DEF ViewIsOneVersion
  <2> HIDE DEF ShowsOf
  <2> QED BY <2>2, <2>3, <2>4
<1> QED BY <1>2, <1>3, <1>4 DEF ViewSound

LEMMA ListOf ==
  ASSUME NEW n \in Nat, NEW R, NEW list \in [1 .. n -> R]
  PROVE  list \in Seq(R) /\ Len(list) = n
    OBVIOUS

LEMMA ViewOfIs ==
  ASSUME NEW edition \in EditionRows, view.there \subseteq ChapterIds
  PROVE  LET chapters == ViewOf(edition)
             S == edition.lists \cap view.there IN
         /\ chapters \in Seq([chapter : ChapterIds, title : Words])
         /\ {chapters[i].chapter : i \in 1 .. Len(chapters)} = S
         /\ \A i \in 1 .. Len(chapters) :
              /\ chapters[i].title = edition.titles[chapters[i].chapter]
              /\ \A j \in 1 .. i - 1 : chapters[j].chapter < chapters[i].chapter
<1> DEFINE S == edition.lists \cap view.there
           O == Ordered(S, <)
           chapters == ViewOf(edition)
<1>1. S \subseteq ChapterIds /\ S \subseteq Nat /\ IsFiniteSet(S)
  <2>1. IsFiniteSet(ChapterIds)
    BY ReadingAssumption, FS_Interval DEF ChapterIds
  <2>2. S \in SUBSET ChapterIds
    OBVIOUS
  <2>3. ChapterIds \subseteq Nat
    BY DEF ChapterIds
  <2>4. IsFiniteSet(S)
    BY <2>1, <2>2, FS_Subset
  <2> QED BY <2>2, <2>3, <2>4
<1>2. Lists(O, S) /\ \A i, j \in 1 .. Len(O) : j < i => O[j] < O[i]
  <2> HIDE DEF S
  <2> QED BY <1>1, OrderedNumbers
<1>3. chapters = [i \in 1 .. Len(O) |-> [chapter |-> O[i], title |-> edition.titles[O[i]]]]
    BY DEF ViewOf
<1> HIDE DEF O, S, chapters
<1>4. /\ O \in Seq(S) /\ Len(O) \in Nat /\ \A x \in S : \E i \in 1 .. Len(O) : O[i] = x
      /\ \A i \in 1 .. Len(O) : O[i] \in S
    BY <1>2 DEF Lists
<1>5. \A c \in ChapterIds : edition.titles[c] \in Words
    BY DEF EditionRows
<1>6. \A i \in 1 .. Len(O) : chapters[i].chapter = O[i] /\ chapters[i].title = edition.titles[O[i]]
    BY <1>3
<1>7. chapters \in Seq([chapter : ChapterIds, title : Words]) /\ Len(chapters) = Len(O)
  <2> DEFINE R == [chapter : ChapterIds, title : Words]
  <2>1. \A i \in 1 .. Len(O) : [chapter |-> O[i], title |-> edition.titles[O[i]]] \in R
    BY <1>1, <1>4, <1>5
  <2> HIDE DEF R
  <2>2. chapters \in [1 .. Len(O) -> R]
    BY <1>3, <2>1
  <2>3. chapters \in Seq(R) /\ Len(chapters) = Len(O)
    BY <1>4, <2>2, ListOf
  <2> QED BY <2>3 DEF R
<1>8. {chapters[i].chapter : i \in 1 .. Len(chapters)} = S
    BY <1>4, <1>6, <1>7
<1>9. ASSUME NEW i \in 1 .. Len(chapters)
      PROVE  /\ chapters[i].title = edition.titles[chapters[i].chapter]
             /\ \A j \in 1 .. i - 1 : chapters[j].chapter < chapters[i].chapter
  <2>1. \A j \in 1 .. i - 1 : j \in 1 .. Len(O) /\ j < i
    BY <1>4, <1>7
  <2> QED BY <2>1, <1>2, <1>6, <1>7
<1> QED BY <1>7, <1>8, <1>9 DEF S, chapters

LEMMA ViewSteps ==
  ASSUME BookSound, BookSound', BookMoves, ViewSound, Reads
  PROVE  ViewSound'
<1>0. /\ view \in ViewRows /\ Len(published) \in Nat /\ Len(published) >= 1
      /\ CurrentNumber = Len(published) /\ MaxChapterRows \in Nat
    BY ReadingAssumption DEF ViewSound, BookSound, CurrentNumber
<1>1. UNCHANGED BookVars
    BY DEF Reads, BeginSearch, NextPage, JudgeDocuments, JudgeRebuild, CountMatches, ShowPage,
           BeginView, ReadChapters, ShowView, DeskOthers
<1>2. <<>> \in Seq([chapter : ChapterIds, title : Words])
    OBVIOUS
<1>3. CASE (\E history \in BOOLEAN : BeginSearch(history)) \/ view' = NoView
  <2>1. view' = NoView
    BY <1>3 DEF BeginSearch
  <2>2. view' \in ViewRows /\ view'.pc = "idle"
    BY <2>1, <1>2 DEF NoView, ViewRows
  <2> QED BY <2>2 DEF ViewSound, ViewIsOneVersion
<1>4. CASE NextPage \/ JudgeDocuments \/ JudgeRebuild \/ CountMatches \/ ShowPage
  <2>1. view' = view
    BY <1>4 DEF NextPage, JudgeDocuments, JudgeRebuild, CountMatches, ShowPage
  <2> QED BY <2>1, ViewRests
<1>5. CASE BeginView
  <2>1. view' = [NoView EXCEPT !.pc = "version", !.number = Len(published)]
    BY <1>5, <1>0 DEF BeginView
  <2>2. view' \in ViewRows /\ view'.pc = "version" /\ view'.number = Len(published)
    BY <2>1, <1>0, <1>2 DEF NoView, ViewRows
  <2>3. Len(published') = Len(published) /\ Len(published) \in 1 .. Len(published)
    BY <1>0, <1>1 DEF BookVars
  <2> QED BY <2>2, <2>3 DEF ViewSound, ViewIsOneVersion
<1>6. CASE ReadChapters
  <2>1. view' = [view EXCEPT !.pc = "chapters", !.there = chapterRows] /\ view.pc = "version"
    BY <1>6 DEF ReadChapters
  <2>2. chapterRows \subseteq ChapterIds
    BY <1>0 DEF BookSound, ChapterIds
  <2>3. /\ view' \in ViewRows /\ view'.pc = "chapters" /\ view'.number = view.number
        /\ view'.there = chapterRows
    BY <2>1, <2>2, <1>0 DEF ViewRows
  <2>4. view.number \in 1 .. Len(published)
    BY <2>1 DEF ViewSound
  <2>5. published' = published /\ chapterRows' = chapterRows
    BY <1>1 DEF BookVars
  <2> QED BY <2>3, <2>4, <2>5 DEF ViewSound, ViewIsOneVersion
<1>7. CASE ShowView /\ view' # NoView
  <2> DEFINE edition == published[view.number]
             chapters == ViewOf(edition)
             S == edition.lists \cap view.there
  <2>1. /\ view.pc = "chapters" /\ edition.lists \cap view.there \subseteq chapterRows
        /\ view' = [view EXCEPT !.pc = "shown", !.chapters = chapters, !.there = {}]
    BY <1>7 DEF ShowView, ViewedEdition
  <2>2. view.number \in 1 .. Len(published) /\ edition.lists \cap chapterRows \subseteq view.there
    BY <2>1 DEF ViewSound
  <2>3. edition \in EditionRows /\ view.there \subseteq ChapterIds
    BY <2>2, <1>0 DEF BookSound, ViewRows
  <2>4. /\ chapters \in Seq([chapter : ChapterIds, title : Words])
        /\ {chapters[i].chapter : i \in 1 .. Len(chapters)} = S
        /\ \A i \in 1 .. Len(chapters) :
              /\ chapters[i].title = edition.titles[chapters[i].chapter]
              /\ \A j \in 1 .. i - 1 : chapters[j].chapter < chapters[i].chapter
    <3> HIDE DEF edition
    <3> QED BY <2>3, ViewOfIs
  <2>5. edition.lists \cap chapterRows \subseteq S /\ S \subseteq edition.lists
    BY <2>2
  <2>6. published' = published /\ chapterRows' = chapterRows
    BY <1>1 DEF BookVars
  <2> HIDE DEF chapters, S
  <2>7. /\ view' \in ViewRows /\ view'.pc = "shown" /\ view'.number = view.number
        /\ view'.chapters = chapters
    BY <2>1, <2>4, <1>0 DEF ViewRows
  <2>8. published'[view'.number] = edition
    BY <2>6, <2>7
  <2> HIDE DEF edition
  <2>9. ViewIsOneVersion'
    BY <2>4, <2>5, <2>6, <2>7, <2>8 DEF ViewIsOneVersion
  <2> QED BY <2>2, <2>6, <2>7, <2>9 DEF ViewSound
<1>8. ShowView => view' = NoView \/ view' # NoView
    OBVIOUS
<1> QED BY <1>3, <1>4, <1>5, <1>6, <1>7, <1>8 DEF Reads

-----------------------------------------------------------------------------
(* Repairs.                                                                *)

LEMMA RepairsRest ==
  ASSUME BookSound, BookSound', BookMoves, RepairsSound, repairs' = repairs
  PROVE  RepairsSound'
<1>1. Len(published) \in Nat /\ Len(published') \in Nat /\ Len(published) <= Len(published')
    BY DEF BookSound, BookMoves
<1>2. \A r \in repairs : /\ r.made \in 1 .. Len(published) /\ r.seen \in 1 .. Len(published)
                         /\ published'[r.made] = published[r.made]
                         /\ published'[r.seen] = published[r.seen]
    BY DEF RepairsSound, BookMoves
<1>3. \A r \in repairs : r.made \in 1 .. Len(published') /\ r.seen \in 1 .. Len(published')
    BY <1>1, <1>2
<1>4. RepairIsExact'
    BY <1>2 DEF RepairsSound, RepairIsExact, Findings
<1> QED BY <1>3, <1>4 DEF RepairsSound

LEMMA RepairApplied ==
  ASSUME BookSound, BookSound', BookMoves, RepairsSound, NEW v \in VersionNumbers, ApplyRepairs(v)
  PROVE  RepairsSound'
<1> DEFINE before == Edition
           facts == NormalizeFacts(before.facts)
           after == [before EXCEPT !.facts = facts]
           new == [made |-> CurrentNumber + 1, seen |-> v]
<1>0. before \in EditionRows /\ Len(published) \in Nat /\ Len(published) >= 1
      /\ CurrentNumber = Len(published) /\ published \in Seq(EditionRows)
    BY EditionIs DEF BookSound, CurrentNumber
<1>1. /\ v = Len(published) /\ published[v] = before
      /\ Manual(before.facts) = {} /\ Valid(facts)
      /\ published' = Append(published, after) /\ repairs' = repairs \cup {new}
    BY <1>0 DEF ApplyRepairs, SameBase, AppendVersion, Edition
<1>2. /\ before.facts \in [Facts -> Values] /\ after.facts = facts
      /\ after = [before EXCEPT !.facts = after.facts]
    BY <1>0 DEF EditionRows
<1>3. \A f \in Facts : facts[f] = IF f \in Repairable(before.facts) THEN "list" ELSE before.facts[f]
    BY DEF NormalizeFacts
<1> HIDE DEF before, facts, after
<1>4. Findings(after.facts) = {}
  <2> SUFFICES ASSUME NEW f \in Facts, facts[f] \in Marked \/ (f \in ListFacts /\ facts[f] # "list")
               PROVE  FALSE
    BY <1>2 DEF Findings
  <2>1. ~(f \in ListFacts /\ facts[f] # "list")
    BY <1>1 DEF Valid
  <2>2. f \notin Repairable(before.facts)
    BY <2>1, <1>3 DEF Marked
  <2>3. before.facts[f] \in Marked
    BY <2>1, <2>2, <1>3
  <2> QED BY <2>2, <2>3, <1>1 DEF Manual
<1>5. ASSUME NEW f \in Facts \ Findings(before.facts) PROVE after.facts[f] = before.facts[f]
  <2>1. before.facts[f] \notin Marked
    BY <1>5 DEF Findings
  <2>2. f \notin Repairable(before.facts)
    BY <2>1 DEF Repairable, Marked
  <2> QED BY <2>2, <1>2, <1>3
<1>6. /\ Len(published') = Len(published) + 1 /\ published'[Len(published) + 1] = after
      /\ published'[v] = before
    BY <1>0, <1>1
<1>7. new.made = v + 1 /\ new.seen = v /\ v \in 1 .. Len(published') /\ v + 1 \in 1 .. Len(published')
      /\ published'[new.made] = after /\ published'[new.seen] = before
    BY <1>0, <1>1, <1>6
<1> HIDE DEF new
<1>8. \A r \in repairs : /\ r.made \in 1 .. Len(published') /\ r.seen \in 1 .. Len(published')
                         /\ published'[r.made] = published[r.made]
                         /\ published'[r.seen] = published[r.seen]
    BY <1>0, <1>6 DEF RepairsSound, BookMoves
<1>9. RepairIsExact'
  <2> SUFFICES ASSUME NEW r \in repairs'
               PROVE  /\ r.made = r.seen + 1 /\ Findings(published'[r.made].facts) = {}
                      /\ published'[r.made] = [published'[r.seen] EXCEPT !.facts = published'[r.made].facts]
                      /\ \A f \in Facts \ Findings(published'[r.seen].facts) :
                            published'[r.made].facts[f] = published'[r.seen].facts[f]
    BY DEF RepairIsExact, Findings
  <2>1. CASE r \in repairs
    <3>1. /\ r.made = r.seen + 1 /\ Findings(published[r.made].facts) = {}
          /\ published[r.made] = [published[r.seen] EXCEPT !.facts = published[r.made].facts]
          /\ \A f \in Facts \ Findings(published[r.seen].facts) :
                published[r.made].facts[f] = published[r.seen].facts[f]
      BY <2>1 DEF RepairsSound, RepairIsExact
    <3>2. published'[r.made] = published[r.made] /\ published'[r.seen] = published[r.seen]
      BY <2>1, <1>8
    <3> QED BY <3>1, <3>2
  <2>2. CASE r = new
    BY <2>2, <1>2, <1>4, <1>5, <1>7
  <2> QED BY <2>1, <2>2, <1>1
<1> QED BY <1>1, <1>7, <1>8, <1>9 DEF RepairsSound

-----------------------------------------------------------------------------
(* The theorem.                                                            *)

LEMMA ReadingStarts ==
  ASSUME InitReading
  PROVE  ReadingInv
<1>1. /\ published \in Seq(EditionRows) /\ published # <<>> /\ Len(published) <= MaxPublished
      /\ MaxChapterRows \in Nat
    BY ReadingAssumption DEF InitReading
<1>2. PICK n \in 0 .. MaxChapterRows : UNION {published[v].lists : v \in DOMAIN published} = 1 .. n
    BY ReadingAssumption DEF InitReading
<1>3. Len(published) \in 1 .. MaxPublished
    BY <1>1
<1>4. chapterRows = 1 .. n /\ written = n
  <2>1. chapterRows = 1 .. n
    BY <1>2 DEF InitReading
  <2>2. n \in Nat
    BY <1>1
  <2>3. Cardinality(1 .. n) = n
    BY <2>2, FS_Interval
  <2> QED BY <2>1, <2>3 DEF InitReading
<1>5. ASSUME NEW v \in 1 .. Len(published) PROVE published[v].lists \subseteq 1 .. written
  <2>1. v \in DOMAIN published
    BY <1>1
  <2> QED BY <2>1, <1>2, <1>4
<1>6. BookSound
    BY <1>1, <1>3, <1>4, <1>5 DEF BookSound
<1>7. /\ documents = {} /\ rebuild = NoRebuild /\ search = NoSearch /\ view = NoView /\ repairs = {}
    BY DEF InitReading
<1>8. <<>> \in Seq(DocumentRows) /\ <<>> \in Seq([chapter : ChapterIds, title : Words]) /\ Len(<<>>) = 0
    OBVIOUS
<1>9. IndexSound
    BY <1>7 DEF IndexSound, CurrentDocuments, UnderWay, NoRebuild, RebuildRows
<1>10. SearchTrue
  <2>1. search \in SearchRows
    BY <1>7, <1>8 DEF NoSearch, SearchRows
  <2>2. /\ search.pc = "idle" /\ search.found = <<>> /\ search.start = 0
    BY <1>7 DEF NoSearch
  <2>3. 0 <= Len(published)
    BY <1>3
  <2> QED BY <2>1, <2>2, <2>3, <1>8 DEF SearchTrue
<1>11. SearchSteady
  <2>1. /\ search.pc = "idle" /\ search.found = <<>> /\ search.cursor = 0 /\ search.history = FALSE
    BY <1>7 DEF NoSearch
  <2> DEFINE count == Cardinality(MatchesOf(FALSE))
  <2>2. count \in Nat
    BY <1>9, SortedLists DEF Lists
  <2>3. 0 \in 0 .. count
    <3> HIDE DEF count
    <3> QED BY <2>2
  <2> QED BY <2>1, <2>3, NothingShown DEF SearchSteady
<1>12. ViewSound
    BY <1>7, <1>8 DEF ViewSound, ViewIsOneVersion, NoView, ViewRows
<1>13. RepairsSound
    BY <1>7 DEF RepairsSound, RepairIsExact
<1> QED BY <1>6, <1>9, <1>10, <1>11, <1>12, <1>13 DEF ReadingInv

LEMMA ReadingKeeps ==
  ASSUME ReadingInv, [NextReading]_readingVars
  PROVE  ReadingInv'
<1>0. BookSound /\ IndexSound /\ SearchTrue /\ SearchSteady /\ ViewSound /\ RepairsSound
    BY DEF ReadingInv
<1>1. BookSound' /\ BookMoves /\ IndexSound' /\ IndexMoves
    BY <1>0, IndexStep, IndexMovesSo
<1>2. ASSUME search' = search, documents' = documents, view' = view, repairs' = repairs
      PROVE  ReadingInv'
    BY <1>0, <1>1, <1>2, SearchRests, SteadyRests, ViewRests, RepairsRest DEF ReadingInv
<1>3. CASE Reads
  <2>1. repairs' = repairs
    BY <1>3 DEF Reads, BeginSearch, NextPage, JudgeDocuments, JudgeRebuild, CountMatches, ShowPage,
                BeginView, ReadChapters, ShowView, DeskOthers
  <2>2. SearchTrue'
    BY <1>0, <1>3, SearchTrueSteps
  <2>3. SearchSteady'
    BY <1>0, <1>3, <2>2, SteadySteps
  <2>4. ViewSound'
    BY <1>0, <1>1, <1>3, ViewSteps
  <2> QED BY <1>0, <1>1, <2>1, <2>2, <2>3, <2>4, RepairsRest DEF ReadingInv
<1>4. CASE QueueRebuild \/ BeginRebuild \/ ReadVersions \/ ReadSources \/ CompleteRebuild \/ FailRebuild
    BY <1>2, <1>4 DEF QueueRebuild, BeginRebuild, ReadVersions, ReadSources, CompleteRebuild,
                      FailRebuild, DeskVars
<1>5. CASE InsertDocuments
  <2>1. search' = [search EXCEPT !.steady = FALSE] /\ view' = view /\ repairs' = repairs
    BY <1>5 DEF InsertDocuments, DeskVars
  <2>2. SearchTrue'
    BY <1>0, <1>1, <2>1, SearchRests
  <2>3. search'.steady = FALSE
    BY <1>0, <2>1 DEF SearchTrue, SearchRows
  <2> QED BY <1>0, <1>1, <2>1, <2>2, <2>3, ViewRests, RepairsRest DEF ReadingInv, SearchSteady
<1>6. CASE \E c \in ChapterIds : DeleteChapter(c)
  <2>1. PICK c \in ChapterIds : DeleteChapter(c)
    BY <1>6
  <2>2. /\ search' = [search EXCEPT !.steady = search.steady /\ documents' = documents]
        /\ view' = view /\ repairs' = repairs
    BY <2>1 DEF DeleteChapter, Desk
  <2>3. CASE documents' = documents
    <3>1. search' = search
      BY <1>0, <2>2, <2>3 DEF SearchTrue, SearchRows
    <3> QED BY <1>2, <2>2, <2>3, <3>1
  <2>4. CASE documents' # documents
    <3>1. search' = [search EXCEPT !.steady = FALSE]
      BY <2>2, <2>4
    <3>2. search'.steady = FALSE
      BY <1>0, <3>1 DEF SearchTrue, SearchRows
    <3>3. SearchTrue'
      BY <1>0, <1>1, <3>1, SearchRests
    <3> QED BY <1>0, <1>1, <2>2, <3>2, <3>3, ViewRests, RepairsRest DEF ReadingInv, SearchSteady
  <2> QED BY <2>3, <2>4
<1>7. CASE \E v \in VersionNumbers : ApplyRepairs(v)
  <2>1. PICK v \in VersionNumbers : ApplyRepairs(v)
    BY <1>7
  <2>2. search' = search /\ documents' = documents /\ view' = view
    BY <2>1 DEF ApplyRepairs
  <2>3. RepairsSound'
    BY <1>0, <1>1, <2>1, RepairApplied
  <2> QED BY <1>0, <1>1, <2>2, <2>3, SearchRests, SteadyRests, ViewRests DEF ReadingInv
<1>8. CASE \/ \E w \in Words : WriteChapter(w)
           \/ \E f \in TextFacts, w \in Words : EditFact(f, w)
           \/ \E c \in ChapterIds, w \in Words : Rename(c, w)
           \/ \E v \in VersionNumbers : ReturnTo(v)
           \/ \E c \in ChapterIds : TruncateFrom(c)
    BY <1>2, <1>8 DEF WriteChapter, EditFact, Rename, ReturnTo, TruncateFrom, Desk
<1>9. CASE UNCHANGED readingVars
    BY <1>2, <1>9 DEF readingVars
<1> QED BY <1>3, <1>4, <1>5, <1>6, <1>7, <1>8, <1>9 DEF NextReading, Reads

LEMMA WalkEnds ==
  ASSUME ReadingInv
  PROVE  WalkIsComplete
<1> SUFFICES ASSUME search.pc = "page", search.steady, search.cursor >= search.total
             PROVE  /\ search.found = Shown(Sorted)
                    /\ search.ready /\ search.held =>
                          \A c \in published[search.start].lists \cap chapterRows :
                              published[search.start].titles[c] = Query =>
                                  \E i \in 1 .. Len(search.found) :
                                      /\ search.found[i].kind = "chapter" /\ search.found[i].source = c
                                      /\ search.found[i].current
    BY DEF WalkIsComplete, Searching, Sorted
<1> DEFINE M == MatchesOf(search.history)
<1>0. BookSound /\ IndexSound /\ SearchTrue /\ SearchSteady
    BY DEF ReadingInv
<1>1. Lists(Sorted, M) /\ search.history \in BOOLEAN
    BY <1>0, PageIs DEF SearchTrue, SearchRows
<1>2. /\ search.cursor \in 0 .. Cardinality(M) /\ search.total = Cardinality(M)
      /\ search.found = Shown(SubSeq(Sorted, 1, search.cursor))
      /\ search.held /\ search.ready => OfStart
    BY <1>0 DEF SearchSteady
<1> HIDE DEF M
<1>3. Sorted \in Seq(M) /\ Len(Sorted) = Cardinality(M) /\ Len(Sorted) \in Nat
    BY <1>1 DEF Lists
<1>4. search.cursor = Len(Sorted)
    BY <1>2, <1>3
<1>5. SubSeq(Sorted, 1, Len(Sorted)) = Sorted
    BY <1>3
<1>6. search.found = Shown(Sorted)
    BY <1>2, <1>4, <1>5
<1>7. ASSUME search.ready, search.held, NEW c \in published[search.start].lists \cap chapterRows,
             published[search.start].titles[c] = Query
      PROVE  \E i \in 1 .. Len(search.found) :
                /\ search.found[i].kind = "chapter" /\ search.found[i].source = c
                /\ search.found[i].current
  <2>1. PICK e \in CurrentDocuments : e.version = search.start
    BY <1>2, <1>7 DEF OfStart
  <2>2. Documented(documents, search.start)
    BY <2>1, <1>0 DEF IndexSound
  <2>3. PICK d \in documents : /\ d.kind = "chapter" /\ d.source = c /\ d.current
                               /\ d.version = search.start
    BY <2>2, <1>7 DEF Documented
  <2>4. d.word = Query
    BY <2>3, <1>0, <1>7 DEF IndexSound, TrueRow
  <2>5. d \in M
    BY <2>3, <2>4 DEF M, MatchesOf
  <2>6. PICK i \in 1 .. Len(Sorted) : Sorted[i] = d
    BY <2>5, <1>1 DEF Lists
  <2>7. \E j \in 1 .. Len(Shown(Sorted)) : Shown(Sorted)[j] = d
    BY <2>4, <2>6, <1>3, ShownOf DEF Recognized
  <2> QED BY <2>3, <2>7, <1>6
<1> QED BY <1>6, <1>7

(* A search that says its index is ready shows what is current in the      *)
(* words of the version the search began with or of a later one; whoever   *)
(* follows the cursor through an index nobody changes is shown every match *)
(* once and in order; a view is one version; a repair leaves nothing to    *)
(* find and touches nothing else (ReadingIsSound).                         *)
THEOREM ReadingSound == ReadingSpec => []ReadingIsSound
<1>1. ReadingInv => ReadingIsSound
  <2> SUFFICES ASSUME ReadingInv PROVE ReadingIsSound
    OBVIOUS
  <2>1. ReadyIsTrue
    BY DEF ReadingInv, SearchTrue, ReadyIsTrue, Searching, TrueRow
  <2>2. WalkIsComplete
    BY WalkEnds
  <2>3. ViewIsOneVersion /\ RepairIsExact
    BY DEF ReadingInv, ViewSound, RepairsSound
  <2> QED BY <2>1, <2>2, <2>3 DEF ReadingIsSound
<1> QED BY <1>1, ReadingStarts, ReadingKeeps, PTL DEF ReadingSpec

-----------------------------------------------------------------------------
(* Cutting a text loses nothing of it: a piece begins before the one       *)
(* before it ends, and the last one ends with the text.                    *)

LEMMA GreatestIs ==
  ASSUME NEW n \in Nat, NEW S \in SUBSET (0 .. n), S # {}
  PROVE  Greatest(S) \in S /\ \A m \in S : m <= Greatest(S)
<1>1. PICK x \in S : \A y \in S : y <= x
    BY GreatestOf
<1> QED BY <1>1 DEF Greatest

LEMMA GreaterOf ==
  ASSUME NEW a \in Int, NEW b \in Int
  PROVE  Greatest({a, b}) \in {a, b} /\ a <= Greatest({a, b}) /\ b <= Greatest({a, b})
<1>1. \E x \in {a, b} : \A y \in {a, b} : y <= x
  <2>1. CASE a <= b
    BY <2>1
  <2>2. CASE b <= a
    BY <2>2
  <2> QED BY <2>1, <2>2
<1>2. Greatest({a, b}) \in {a, b} /\ \A y \in {a, b} : y <= Greatest({a, b})
    BY <1>1 DEF Greatest
<1> QED BY <1>2

\* What a text is, whole or damaged.
TextForm(s) == /\ s.length \in Nat /\ s.breaks \subseteq 0 .. s.length - 1
               /\ s.ordinal \in Nat

LEMMA CutMoves ==
  ASSUME NEW s, TextForm(s), NEW start \in 0 .. s.length, start < s.length
  PROVE  /\ CutEnd(s, start) \in 0 .. s.length
         /\ start < CutEnd(s, start) /\ CutEnd(s, start) - start <= Window
         /\ StartWithin(start, CutEnd(s, start)) \in 0 .. s.length
         /\ start < StartWithin(start, CutEnd(s, start))
         /\ StartWithin(start, CutEnd(s, start)) <= CutEnd(s, start)
<1> DEFINE full == IF start + Window < s.length THEN start + Window ELSE s.length
           lines == {b \in s.breaks : start + HalfWindow <= b /\ b < full}
           end == CutEnd(s, start)
<1>1. /\ Window \in Nat /\ HalfWindow \in Nat /\ Overlap \in Nat /\ Overlap < HalfWindow /\ HalfWindow < Window
      /\ s.length \in Nat /\ start \in Nat /\ \A b \in s.breaks : b \in Nat
    BY RetrievalAssumption DEF TextForm
<1>2. full \in Nat /\ full <= s.length /\ start < full /\ full - start <= Window
    BY <1>1
<1>3. end = IF full < s.length /\ lines # {} THEN Greatest(lines) + 1 ELSE full
    BY DEF CutEnd
<1>4. lines \subseteq 0 .. full /\ \A b \in lines : start <= b /\ b < full
    BY <1>1, <1>2
<1> HIDE DEF full, lines, end
<1>5. end \in Nat /\ end <= full /\ start < end
  <2>1. CASE full < s.length /\ lines # {}
    <3>1. Greatest(lines) \in lines
      BY <1>2, <1>4, <2>1, GreatestIs
    <3>2. Greatest(lines) \in 0 .. full
      BY <1>4, <3>1
    <3>3. start <= Greatest(lines) /\ Greatest(lines) < full
      BY <1>4, <3>1
    <3>4. end = Greatest(lines) + 1
      BY <1>3, <2>1
    <3> QED BY <1>1, <1>2, <3>2, <3>3, <3>4
  <2>2. CASE ~(full < s.length /\ lines # {})
    BY <1>2, <1>3, <2>2
  <2> QED BY <2>1, <2>2
<1>6. end \in 0 .. s.length /\ end - start <= Window
    BY <1>1, <1>2, <1>5
<1> DEFINE next == StartWithin(start, end)
<1>7. next \in {start + 1, end - Overlap} /\ start + 1 <= next
  <2>1. start + 1 \in Int /\ end - Overlap \in Int
    BY <1>1, <1>5
  <2> QED BY <2>1, GreaterOf DEF StartWithin
<1> HIDE DEF next
<1>8. next \in 0 .. s.length /\ start < next /\ next <= end
    BY <1>1, <1>5, <1>6, <1>7
<1> QED BY <1>5, <1>6, <1>8 DEF end, next

CutBody(s, f, start) ==
  IF start >= s.length THEN {}
  ELSE {Piece(s, start, CutEnd(s, start))} \cup
          (IF CutEnd(s, start) = s.length THEN {} ELSE f[StartWithin(start, CutEnd(s, start))])

LEMMA CutExists ==
  ASSUME NEW s, TextForm(s)
  PROVE  \E f : f = [k \in 0 .. s.length |-> CutBody(s, f, k)]
<1> DEFINE n == s.length
           T == {m \in Nat : m <= n => \E f : f = [k \in (n - m) .. n |-> CutBody(s, f, k)]}
<1>0. n \in Nat
    BY DEF TextForm
<1>1. 0 \in T
  <2> DEFINE f == [k \in n .. n |-> {}]
  <2>1. f = [k \in n .. n |-> CutBody(s, f, k)]
    BY <1>0 DEF CutBody
  <2> HIDE DEF f
  <2>2. n - 0 = n
    BY <1>0
  <2> QED BY <2>1, <2>2
<1>2. ASSUME NEW m \in Nat, m \in T PROVE m + 1 \in T
  <2> SUFFICES ASSUME m + 1 <= n
               PROVE  \E f : f = [k \in (n - (m + 1)) .. n |-> CutBody(s, f, k)]
    OBVIOUS
  <2>1. PICK f : f = [k \in (n - m) .. n |-> CutBody(s, f, k)]
    BY <1>0, <1>2
  <2> DEFINE low == n - (m + 1)
             first == CutBody(s, f, low)
  <2>2. low \in 0 .. n /\ low < n /\ n - m = low + 1
    BY <1>0
  <2> HIDE DEF first, low
  <2> DEFINE g == [k \in low .. n |-> IF k = low THEN first ELSE f[k]]
  <2>3. \A k \in (low + 1) .. n : k \in low .. n /\ k # low
    BY <1>0, <2>2
  <2>4. \A k \in (low + 1) .. n : g[k] = f[k] /\ f[k] = CutBody(s, f, k)
    BY <2>1, <2>2, <2>3
  <2>5. g[low] = first
    BY <1>0, <2>2
  <2>6. g = [k \in low .. n |-> g[k]]
    OBVIOUS
  <2> HIDE DEF g, T
  <2>7. ASSUME NEW k \in low .. n PROVE CutBody(s, f, k) = CutBody(s, g, k)
    <3>1. CASE k >= n
      BY <3>1 DEF CutBody
    <3>2. CASE k < n
      <4>1. k \in 0 .. n
        BY <1>0, <2>2
      <4> DEFINE next == StartWithin(k, CutEnd(s, k))
      <4>2. next \in 0 .. n /\ k < next
        BY <3>2, <4>1, CutMoves
      <4> HIDE DEF next
      <4>3. next \in (low + 1) .. n
        BY <1>0, <2>2, <4>1, <4>2
      <4>4. f[next] = g[next]
        BY <2>4, <4>3
      <4> QED BY <4>4 DEF CutBody, next
    <3> QED BY <1>0, <2>2, <3>1, <3>2
  <2>8. ASSUME NEW k \in low .. n PROVE g[k] = CutBody(s, g, k)
    <3>1. CASE k = low
      BY <2>5, <2>7, <3>1 DEF first
    <3>2. CASE k # low
      <4>1. k \in (low + 1) .. n
        BY <1>0, <2>2, <3>2
      <4> QED BY <2>4, <2>7, <4>1
    <3> QED BY <3>1, <3>2
  <2>9. g = [k \in low .. n |-> CutBody(s, g, k)]
    BY <2>6, <2>8
  <2> QED BY <2>9 DEF low
<1> HIDE DEF T
<1>3. n \in T
    BY <1>0, <1>1, <1>2, AllCounts
<1>4. n - n = 0 /\ n <= n
    BY <1>0
<1> QED BY <1>3, <1>4 DEF T

\* The pieces of a text.
PieceOf(s, p) ==
  /\ p.source = s.id /\ p.text = s.text /\ p.digest = s.digest
  /\ p.start \in Nat /\ p.end \in Nat /\ p.start < p.end /\ p.end - p.start <= Window

LEMMA PiecesCover ==
  ASSUME NEW s, TextForm(s)
  PROVE  /\ \A p \in PiecesOf(s) : PieceOf(s, p)
         /\ \A place \in 0 .. s.length - 1 :
              \E p \in PiecesOf(s) : p.start <= place /\ place < p.end
         /\ s.length = 0 => PiecesOf(s) = {}
<1> DEFINE n == s.length
           f == CHOOSE f : f = [k \in 0 .. n |-> CutBody(s, f, k)]
<1>0. n \in Nat
    BY DEF TextForm
<1>1. f = [k \in 0 .. n |-> CutBody(s, f, k)]
    BY CutExists
<1>2. PiecesOf(s) = f[0]
    BY DEF PiecesOf, CutBody
<1> HIDE DEF f
<1>3. \A k \in 0 .. n : f[k] = CutBody(s, f, k)
    BY <1>1
<1> DEFINE Covers(k) ==
             /\ \A p \in f[k] : PieceOf(s, p)
             /\ \A place \in k .. n - 1 : \E p \in f[k] : p.start <= place /\ place < p.end
           T == {m \in Nat : \A k \in 0 .. n : n - k <= m => Covers(k)}
<1>4. Covers(n) /\ f[n] = {}
  <2>1. f[n] = {}
    <3>1. n \in 0 .. n /\ n >= s.length
      BY <1>0
    <3>2. f[n] = CutBody(s, f, n)
      BY <1>3, <3>1
    <3> HIDE DEF n
    <3> QED BY <3>1, <3>2 DEF CutBody
  <2>2. ~ \E place \in n .. n - 1 : TRUE
    BY <1>0
  <2> QED BY <2>1, <2>2
<1>5. 0 \in T
  <2>1. \A k \in 0 .. n : n - k <= 0 => k = n
    BY <1>0
  <2> HIDE DEF Covers
  <2> QED BY <1>4, <2>1
<1>6. ASSUME NEW m \in Nat, m \in T PROVE m + 1 \in T
  <2> SUFFICES ASSUME NEW k \in 0 .. n, n - k <= m + 1
               PROVE  Covers(k)
    BY <1>0
  <2> HIDE DEF Covers
  <2>1. CASE k = n
    BY <1>4, <2>1
  <2>2. CASE k # n
    <3> DEFINE end == CutEnd(s, k)
               next == StartWithin(k, end)
               p == Piece(s, k, end)
    <3>1. k < n /\ k \in Nat
      BY <1>0, <2>2
    <3>2. /\ end \in 0 .. n /\ k < end /\ end - k <= Window
          /\ next \in 0 .. n /\ k < next /\ next <= end
      BY <3>1, CutMoves
    <3>3. f[k] = {p} \cup (IF end = n THEN {} ELSE f[next])
      <4>1. f[k] = CutBody(s, f, k) /\ ~(k >= s.length)
        BY <1>0, <1>3, <3>1
      <4> QED BY <4>1 DEF CutBody
    <3>4. PieceOf(s, p) /\ p.start = k /\ p.end = end
      BY <3>1, <3>2 DEF PieceOf, Piece
    <3> HIDE DEF end, next, p
    <3>5. Covers(next)
      <4>1. n - next <= m
        BY <1>0, <3>1, <3>2
      <4> QED BY <1>6, <3>2, <4>1
    <3>6. \A q \in f[k] : PieceOf(s, q)
      BY <3>3, <3>4, <3>5 DEF Covers
    <3>7. ASSUME NEW place \in k .. n - 1
          PROVE  \E q \in f[k] : q.start <= place /\ place < q.end
      <4>1. CASE place < end
        BY <3>1, <3>3, <3>4, <4>1
      <4>2. CASE ~(place < end)
        <5>1. place \in next .. n - 1 /\ end # n
          BY <1>0, <3>1, <3>2, <4>2
        <5>2. PICK q \in f[next] : q.start <= place /\ place < q.end
          BY <3>5, <5>1 DEF Covers
        <5> QED BY <3>3, <5>1, <5>2
      <4> QED BY <4>1, <4>2
    <3> QED BY <3>6, <3>7 DEF Covers
  <2> QED BY <2>1, <2>2
<1> HIDE DEF T
<1>7. n \in T
    BY <1>0, <1>5, <1>6, AllCounts
<1>8. 0 \in 0 .. n /\ n - 0 <= n
    BY <1>0
<1>9. Covers(0)
    BY <1>7, <1>8 DEF T
<1>10. n = 0 => f[0] = {}
    BY <1>4
<1> QED BY <1>2, <1>9, <1>10

\* A corpus has every text it is made of, without a gap and without words of another.
LEMMA CorpusIs ==
  ASSUME NEW S \in SUBSET SourceTexts
  PROVE  /\ {p.digest : p \in CorpusOf(S)} = {s.digest : s \in {t \in S : t.length > 0}}
         /\ \A p \in CorpusOf(S) :
              /\ p.text = p.digest /\ p.start \in Nat /\ p.end \in Nat
              /\ p.start < p.end /\ p.end - p.start <= Window
         /\ \A s \in S : \A place \in 0 .. s.length - 1 :
              \E p \in CorpusOf(S) : p.digest = s.digest /\ p.start <= place /\ place < p.end
<1>1. \A s \in S : TextForm(s) /\ s.text = s.digest
    BY RetrievalAssumption DEF TextForm, AsFrozen
<1>2. \A s \in S :
         /\ \A p \in PiecesOf(s) : PieceOf(s, p)
         /\ \A place \in 0 .. s.length - 1 : \E p \in PiecesOf(s) : p.start <= place /\ place < p.end
         /\ s.length = 0 => PiecesOf(s) = {}
    BY <1>1, PiecesCover
<1>3. \A p : p \in CorpusOf(S) <=> \E s \in S : p \in PiecesOf(s)
    BY DEF CorpusOf
<1>4. ASSUME NEW p \in CorpusOf(S)
      PROVE  /\ \E s \in S : s.length > 0 /\ p.digest = s.digest
             /\ p.text = p.digest /\ p.start \in Nat /\ p.end \in Nat
             /\ p.start < p.end /\ p.end - p.start <= Window
  <2>1. PICK s \in S : p \in PiecesOf(s)
    BY <1>3
  <2>2. PieceOf(s, p) /\ s.length # 0 /\ s.text = s.digest /\ s.length \in Nat
    BY <1>1, <1>2, <2>1 DEF TextForm
  <2> QED BY <2>2 DEF PieceOf
<1>5. ASSUME NEW s \in S, NEW place \in 0 .. s.length - 1
      PROVE  \E p \in CorpusOf(S) : p.digest = s.digest /\ p.start <= place /\ place < p.end
  <2>1. PICK p \in PiecesOf(s) : p.start <= place /\ place < p.end
    BY <1>2
  <2>2. PieceOf(s, p) /\ p \in CorpusOf(S)
    BY <1>2, <1>3, <2>1
  <2> QED BY <2>1, <2>2 DEF PieceOf
<1>6. ASSUME NEW s \in S, s.length > 0
      PROVE  \E p \in CorpusOf(S) : p.digest = s.digest
  <2>1. 0 \in 0 .. s.length - 1
    BY <1>1, <1>6 DEF TextForm
  <2> QED BY <1>5, <2>1
<1>7. {p.digest : p \in CorpusOf(S)} = {s.digest : s \in {t \in S : t.length > 0}}
    BY <1>4, <1>6
<1> QED BY <1>4, <1>5, <1>7

-----------------------------------------------------------------------------
(* What is taken one by one.                                               *)

LEMMA StepByStep ==
  ASSUME NEW P, NEW start \in P, NEW n \in Nat, NEW F \in [1 .. n -> [P -> P]]
  PROVE  \E f \in [0 .. n -> P] : f[0] = start /\ \A i \in 1 .. n : f[i] = F[i][f[i - 1]]
<1> DEFINE Runs(f, m) == /\ f \in [0 .. m -> P] /\ f[0] = start
                         /\ \A i \in 1 .. m : f[i] = F[i][f[i - 1]]
           T == {m \in Nat : m <= n => \E f : Runs(f, m)}
<1>1. 0 \in T
  <2> DEFINE f == [i \in 0 .. 0 |-> start]
  <2>1. Runs(f, 0)
    OBVIOUS
  <2> HIDE DEF f, Runs
  <2> QED BY <2>1
<1>2. ASSUME NEW m \in Nat, m \in T PROVE m + 1 \in T
  <2> SUFFICES ASSUME m + 1 <= n PROVE \E f : Runs(f, m + 1)
    OBVIOUS
  <2>1. PICK f : Runs(f, m)
    BY <1>2
  <2>2. m + 1 \in 1 .. n /\ f[m] \in P /\ F[m + 1] \in [P -> P]
    BY <2>1
  <2> DEFINE last == F[m + 1][f[m]]
  <2>3. last \in P
    BY <2>2
  <2> HIDE DEF last
  <2> DEFINE g == [i \in 0 .. (m + 1) |-> IF i = m + 1 THEN last ELSE f[i]]
  <2>4. \A i \in 0 .. m : i \in 0 .. (m + 1) /\ i # m + 1 /\ f[i] \in P
    BY <2>1
  <2>5. g \in [0 .. (m + 1) -> P] /\ g[m + 1] = last /\ \A i \in 0 .. m : g[i] = f[i]
    BY <2>3, <2>4
  <2> HIDE DEF g
  <2>6. ASSUME NEW i \in 1 .. (m + 1) PROVE g[i] = F[i][g[i - 1]]
    <3>1. CASE i = m + 1
      <4>1. i - 1 = m /\ m \in 0 .. m
        BY <3>1
      <4> QED BY <2>5, <3>1, <4>1 DEF last
    <3>2. CASE i # m + 1
      <4>1. i \in 1 .. m /\ i \in 0 .. m /\ i - 1 \in 0 .. m
        BY <3>2
      <4> QED BY <2>1, <2>5, <4>1
    <3> QED BY <3>1, <3>2
  <2>7. g[0] = start
    BY <2>1, <2>5
  <2>8. Runs(g, m + 1)
    BY <2>5, <2>6, <2>7
  <2> QED BY <2>8
<1> HIDE DEF T
<1>3. n \in T
    BY <1>1, <1>2, AllCounts
<1> QED BY <1>3 DEF T

-----------------------------------------------------------------------------
(* Ranking.                                                                *)

PieceForm(p) == p.start \in Nat /\ p.end \in Nat /\ p.start < p.end

Apart(hits) ==
  /\ IsFiniteSet(hits) /\ Cardinality(hits) <= HitLimit
  /\ \A h \in hits : Cardinality({o \in hits : o.source = h.source}) <= PerSource
  /\ \A g, h \in hits : g # h => ~Crosses(g, h)

LEMMA TakesApart ==
  ASSUME NEW hits, NEW p, Apart(hits), Takes(hits, p)
  PROVE  Apart(hits \cup {p})
<1> DEFINE all == hits \cup {p}
           Alike(S, q) == {o \in S : o.source = q.source}
<1>1. HitLimit \in Nat /\ PerSource \in Nat
    BY RetrievalAssumption
<1>2. IsFiniteSet(hits) /\ Cardinality(hits) \in Nat /\ Cardinality(hits) < HitLimit
    BY FS_CardinalityType DEF Apart, Takes
<1>3. IsFiniteSet(all) /\ (Cardinality(all) = Cardinality(hits) \/ Cardinality(all) = Cardinality(hits) + 1)
    BY <1>2, FS_AddElement
<1>4. Cardinality(all) <= HitLimit
    BY <1>1, <1>2, <1>3
<1>5. ASSUME NEW h \in all PROVE Cardinality(Alike(all, h)) <= PerSource
  <2>1. CASE h.source = p.source
    <3> DEFINE A == Alike(hits, p)
    <3>1. Alike(all, h) = A \cup {p}
      BY <2>1
    <3>2. IsFiniteSet(A) /\ Cardinality(A) \in Nat
      BY <1>2, FS_Subset, FS_CardinalityType
    <3>3. Cardinality(A) < PerSource
      BY DEF Takes
    <3> HIDE DEF A
    <3>4. Cardinality(A \cup {p}) = Cardinality(A) \/ Cardinality(A \cup {p}) = Cardinality(A) + 1
      BY <3>2, FS_AddElement
    <3>5. Cardinality(A \cup {p}) <= PerSource
      BY <1>1, <3>2, <3>3, <3>4
    <3> QED BY <3>1, <3>5
  <2>2. CASE h.source # p.source
    <3>1. h \in hits /\ Alike(all, h) = Alike(hits, h)
      BY <2>2
    <3> QED BY <3>1 DEF Apart
  <2> QED BY <2>1, <2>2
<1>6. ASSUME NEW g \in all, NEW h \in all, g # h PROVE ~Crosses(g, h)
  <2>1. CASE g \in hits /\ h \in hits
    BY <1>6, <2>1 DEF Apart
  <2>2. CASE g \in hits /\ h = p
    BY <2>2 DEF Takes
  <2>3. CASE g = p /\ h \in hits
    <3>1. ~Crosses(h, g)
      BY <2>3 DEF Takes
    <3>2. {g.start, h.start} = {h.start, g.start} /\ {-g.end, -h.end} = {-h.end, -g.end}
      OBVIOUS
    <3>3. Crosses(g, h) = Crosses(h, g)
      BY <3>2 DEF Crosses
    <3> QED BY <3>1, <3>3
  <2> QED BY <1>6, <2>1, <2>2, <2>3
<1> QED BY <1>3, <1>4, <1>5, <1>6 DEF Apart

ChosenBody(order, c, i) ==
  IF i = 0 THEN {} ELSE c[i - 1] \cup (IF Takes(c[i - 1], order[i]) THEN {order[i]} ELSE {})

LEMMA ChosenAre ==
  ASSUME NEW pieces, NEW order \in ScoredOrders(pieces)
  PROVE  ChosenPieces(order) \subseteq pieces /\ Apart(ChosenPieces(order))
<1>1. PICK n \in Nat : order \in [1 .. n -> pieces]
    BY DEF ScoredOrders
<1>2. Len(order) = n
    BY <1>1
<1> DEFINE P == SUBSET pieces
           Step(c, i) == c \cup (IF Takes(c, order[i]) THEN {order[i]} ELSE {})
           F == [i \in 1 .. n |-> [c \in P |-> Step(c, i)]]
<1>3. \A i \in 1 .. n : \A c \in P : Step(c, i) \in P
    BY <1>1
<1> HIDE DEF P, Step
<1>4. F \in [1 .. n -> [P -> P]] /\ \A i \in 1 .. n : \A c \in P : F[i][c] = Step(c, i)
    BY <1>3
<1>5. {} \in P
    BY DEF P
<1> HIDE DEF F
<1>6. PICK e \in [0 .. n -> P] : e[0] = {} /\ \A i \in 1 .. n : e[i] = F[i][e[i - 1]]
  <2>1. F \in [1 .. n -> [P -> P]]
    BY <1>4
  <2>2. n \in Nat
    BY <1>1
  <2> HIDE DEF P, F
  <2>3. \E f \in [0 .. n -> P] : f[0] = {} /\ \A i \in 1 .. n : f[i] = F[i][f[i - 1]]
    BY <2>1, <2>2, <1>5, StepByStep
  <2> QED BY <2>3
<1>7. \A i \in 1 .. n : i - 1 \in 0 .. n /\ i # 0
    OBVIOUS
<1>8. \A i \in 1 .. n : e[i] = Step(e[i - 1], i)
    BY <1>4, <1>6, <1>7
<1>9. \A i \in 0 .. n : i = 0 \/ i \in 1 .. n
    OBVIOUS
<1>10. \A i \in 0 .. n : e[i] = ChosenBody(order, e, i)
    BY <1>6, <1>7, <1>8, <1>9 DEF ChosenBody, Step
<1>11. e = [i \in 0 .. n |-> ChosenBody(order, e, i)]
  <2>1. e = [i \in 0 .. n |-> e[i]]
    BY <1>6
  <2> QED BY <1>10, <2>1
<1> DEFINE c == CHOOSE c : c = [i \in 0 .. n |-> ChosenBody(order, c, i)]
<1>12. c = [i \in 0 .. n |-> ChosenBody(order, c, i)]
    BY <1>11
<1>13. ChosenPieces(order) = c[n]
    BY <1>2 DEF ChosenPieces, ChosenBody
<1> HIDE DEF c
<1>14. \A i \in 0 .. n : c[i] = ChosenBody(order, c, i)
    BY <1>12
<1> DEFINE Fine(i) == c[i] \subseteq pieces /\ Apart(c[i])
           T == {i \in Nat : i <= n => Fine(i)}
<1>15. 0 \in T
  <2>1. c[0] = {}
    <3>1. 0 \in 0 .. n
      OBVIOUS
    <3>2. c[0] = ChosenBody(order, c, 0)
      BY <1>14, <3>1
    <3> QED BY <3>2 DEF ChosenBody
  <2>2. IsFiniteSet({}) /\ Cardinality({}) = 0 /\ 0 <= HitLimit
    BY FS_EmptySet, RetrievalAssumption
  <2>3. Apart({})
    BY <2>2 DEF Apart
  <2> QED BY <2>1, <2>3
<1>16. ASSUME NEW i \in Nat, i \in T PROVE i + 1 \in T
  <2> SUFFICES ASSUME i + 1 <= n PROVE Fine(i + 1)
    OBVIOUS
  <2>1. i + 1 \in 0 .. n /\ i + 1 # 0 /\ (i + 1) - 1 = i /\ i + 1 \in 1 .. n /\ i <= n
    OBVIOUS
  <2>2. c[i] \subseteq pieces /\ Apart(c[i]) /\ order[i + 1] \in pieces
    BY <1>1, <1>16, <2>1
  <2>3. c[i + 1] = c[i] \cup (IF Takes(c[i], order[i + 1]) THEN {order[i + 1]} ELSE {})
    BY <1>14, <2>1 DEF ChosenBody
  <2>4. CASE Takes(c[i], order[i + 1])
    BY <2>2, <2>3, <2>4, TakesApart
  <2>5. CASE ~Takes(c[i], order[i + 1])
    <3>1. c[i + 1] = c[i]
      BY <2>3, <2>5
    <3> QED BY <2>2, <3>1
  <2> QED BY <2>4, <2>5
<1> HIDE DEF T
<1>17. n \in T
    BY <1>15, <1>16, AllCounts
<1>18. Fine(n)
    BY <1>17 DEF T
<1> QED BY <1>13, <1>18

\* Pieces of one text that do not cross lie one after the other.
LEMMA ApartInText ==
  ASSUME NEW g, NEW h, PieceForm(g), PieceForm(h), ~Crosses(g, h), g.source = h.source
  PROVE  g.end <= h.start \/ h.end <= g.start
<1>1. /\ g.start \in Int /\ h.start \in Int /\ g.end \in Int /\ h.end \in Int
      /\ -g.end \in Int /\ -h.end \in Int /\ g.start < g.end /\ h.start < h.end
    BY DEF PieceForm
<1> DEFINE late == Greatest({g.start, h.start})
           soon == Greatest({-g.end, -h.end})
<1>2. late \in {g.start, h.start}
    BY <1>1, GreaterOf
<1>3. soon \in {-g.end, -h.end}
    BY <1>1, GreaterOf
<1>4. ~(late < -soon)
    BY DEF Crosses
<1> HIDE DEF late, soon
<1> QED BY <1>1, <1>2, <1>3, <1>4

-----------------------------------------------------------------------------
(* What is named by what is named: after as many rounds as there are       *)
(* entries, nothing is added any more.                                     *)

LEMMA LinkedFinite ==
  ASSUME Lore \subseteq WorldIds
  PROVE  WorldLinked \subseteq WorldIds /\ IsFiniteSet(WorldLinked)
<1>1. IsFiniteSet(WorldIds) /\ WorldLinked \subseteq WorldIds
    BY RetrievalAssumption DEF WorldLinked
<1> QED BY <1>1, FS_Subset

GrownBody(entries, g, n) ==
  IF n = 0 THEN entries ELSE g[n - 1] \cup ReferredBy(g[n - 1])

LEMMA DependenciesClosed ==
  ASSUME Lore \subseteq WorldIds, NEW entries, entries \subseteq WorldLinked
  PROVE  /\ Dependencies(entries) \subseteq WorldLinked /\ entries \subseteq Dependencies(entries)
         /\ ReferredBy(Dependencies(entries)) \subseteq Dependencies(entries)
<1> DEFINE W == WorldLinked
           N == Cardinality(W)
           P == SUBSET W
<1>1. IsFiniteSet(W) /\ N \in Nat
    BY LinkedFinite, FS_CardinalityType
<1>2. \A S : ReferredBy(S) \subseteq W
    BY DEF ReferredBy
<1>3. \A S \in P : S \cup ReferredBy(S) \in P
    BY <1>2
<1>4. entries \in P
    OBVIOUS
<1>5. Dependencies(entries) = (CHOOSE g : g = [n \in 0 .. N |-> GrownBody(entries, g, n)])[N]
    BY DEF Dependencies, GrownBody
<1> HIDE DEF N
<1> DEFINE F == [i \in 1 .. N |-> [S \in P |-> S \cup ReferredBy(S)]]
<1>6. F \in [1 .. N -> [P -> P]] /\ \A i \in 1 .. N : \A S \in P : F[i][S] = S \cup ReferredBy(S)
    BY <1>3
<1> HIDE DEF F, P
<1>7. PICK e \in [0 .. N -> P] : e[0] = entries /\ \A i \in 1 .. N : e[i] = F[i][e[i - 1]]
  <2>1. F \in [1 .. N -> [P -> P]]
    BY <1>6
  <2>2. \E f \in [0 .. N -> P] : f[0] = entries /\ \A i \in 1 .. N : f[i] = F[i][f[i - 1]]
    <3>1. N \in Nat
      BY <1>1
    <3> HIDE DEF W
    <3> QED BY <2>1, <3>1, <1>4, StepByStep
  <2> QED BY <2>2
<1>8. \A i \in 1 .. N : i - 1 \in 0 .. N /\ i # 0
    BY <1>1
<1>9. \A i \in 1 .. N : e[i] = e[i - 1] \cup ReferredBy(e[i - 1])
    BY <1>6, <1>7, <1>8
<1>10. \A i \in 0 .. N : e[i] = GrownBody(entries, e, i)
  <2>1. \A i \in 0 .. N : i = 0 \/ i \in 1 .. N
    BY <1>1
  <2> QED BY <1>7, <1>8, <1>9, <2>1 DEF GrownBody
<1>11. e = [i \in 0 .. N |-> GrownBody(entries, e, i)]
  <2>1. e = [i \in 0 .. N |-> e[i]]
    BY <1>7
  <2> QED BY <1>10, <2>1
<1> DEFINE g == CHOOSE g : g = [n \in 0 .. N |-> GrownBody(entries, g, n)]
<1>12. g = [n \in 0 .. N |-> GrownBody(entries, g, n)]
    BY <1>11
<1>13. Dependencies(entries) = g[N]
    BY <1>5
<1> HIDE DEF g
<1>14. \A n \in 0 .. N : g[n] = GrownBody(entries, g, n)
    BY <1>12
<1>15. g[0] = entries
  <2>1. 0 \in 0 .. N
    BY <1>1
  <2>2. g[0] = GrownBody(entries, g, 0)
    BY <1>14, <2>1
  <2> QED BY <2>2 DEF GrownBody
<1>16. \A i \in 1 .. N : g[i] = g[i - 1] \cup ReferredBy(g[i - 1])
  <2> TAKE i \in 1 .. N
  <2>1. i \in 0 .. N /\ i # 0
    BY <1>1
  <2>2. g[i] = GrownBody(entries, g, i)
    BY <1>14, <2>1
  <2> QED BY <2>1, <2>2 DEF GrownBody
<1> HIDE DEF W
<1> DEFINE Grows(i) == /\ g[i] \subseteq W /\ entries \subseteq g[i]
                       /\ ReferredBy(g[i]) \subseteq g[i] \/ i <= Cardinality(g[i])
           T == {i \in Nat : i <= N => Grows(i)}
<1>17. \A S \in SUBSET W : IsFiniteSet(S) /\ Cardinality(S) \in Nat
    BY <1>1, FS_Subset, FS_CardinalityType
<1>18. 0 \in T
  <2>1. entries \subseteq W
    BY DEF W
  <2>2. Cardinality(entries) \in Nat
    BY <1>17, <2>1
  <2>3. 0 <= Cardinality(entries)
    BY <2>2
  <2> QED BY <1>15, <2>1, <2>3
<1>19. ASSUME NEW i \in Nat, i \in T PROVE i + 1 \in T
  <2> SUFFICES ASSUME i + 1 <= N PROVE Grows(i + 1)
    OBVIOUS
  <2>1. i + 1 \in 1 .. N /\ i <= N /\ (i + 1) - 1 = i
    BY <1>1
  <2>2. Grows(i)
    BY <1>19, <2>1
  <2>3. g[i + 1] = g[i] \cup ReferredBy(g[i])
    BY <1>16, <2>1
  <2>4. g[i + 1] \subseteq W /\ entries \subseteq g[i + 1]
    BY <1>2, <2>2, <2>3
  <2>5. CASE ReferredBy(g[i]) \subseteq g[i]
    <3>1. g[i + 1] = g[i]
      BY <2>3, <2>5
    <3> QED BY <2>4, <2>5, <3>1
  <2>6. CASE ~(ReferredBy(g[i]) \subseteq g[i])
    <3>1. i <= Cardinality(g[i]) /\ g[i] \subseteq g[i + 1] /\ g[i] # g[i + 1]
      BY <2>2, <2>3, <2>6
    <3>2. IsFiniteSet(g[i + 1]) /\ Cardinality(g[i + 1]) \in Nat /\ Cardinality(g[i]) \in Nat
      BY <1>17, <2>2, <2>4
    <3>3. Cardinality(g[i]) <= Cardinality(g[i + 1]) /\ Cardinality(g[i]) # Cardinality(g[i + 1])
      BY <3>1, <3>2, FS_Subset
    <3>4. i + 1 <= Cardinality(g[i + 1])
      BY <3>1, <3>2, <3>3
    <3> QED BY <2>4, <3>4
  <2> QED BY <2>5, <2>6
<1> HIDE DEF T
<1>20. N \in T
    BY <1>1, <1>18, <1>19, AllCounts
<1>21. Grows(N)
    BY <1>1, <1>20 DEF T
<1>22. ReferredBy(g[N]) \subseteq g[N]
  <2> SUFFICES ASSUME N <= Cardinality(g[N]) PROVE g[N] = W
    BY <1>2, <1>21
  <2>1. g[N] \subseteq W /\ Cardinality(g[N]) \in Nat
    BY <1>17, <1>21
  <2>2. Cardinality(g[N]) <= Cardinality(W) /\ (Cardinality(W) = Cardinality(g[N]) => W = g[N])
    BY <1>1, <2>1, FS_Subset
  <2>3. Cardinality(g[N]) = Cardinality(W)
    BY <1>1, <2>1, <2>2 DEF N
  <2> QED BY <2>2, <2>3
<1> QED BY <1>13, <1>21, <1>22 DEF W

-----------------------------------------------------------------------------
(* The inductive invariant.  A frozen text that is not damaged is the text *)
(* of its version, a corpus in the cache is made of the texts its key has, *)
(* and so whatever is prepared is made of the texts of its version.        *)

TextShape(s) ==
  s = [kind |-> s.kind, id |-> s.id, ordinal |-> s.ordinal, length |-> s.length,
       breaks |-> s.breaks, text |-> s.text, digest |-> s.digest]

Corpora == {[key |-> [version |-> v, sources |-> S], pieces |-> CorpusOf(S)] :
               v \in BookVersions, S \in SUBSET SourceTexts}

FrozenSound ==
  /\ snapshot = [version |-> snapshot.version, sources |-> snapshot.sources]
  /\ snapshot = NoFrozen \/
       /\ snapshot.version \in BookVersions /\ \A s \in snapshot.sources : TextShape(s)
       /\ {Labelled(s) : s \in snapshot.sources} = VersionTexts[snapshot.version]

CacheSound == cached \in Seq(Corpora)

InquirySound ==
  /\ inquiry = [pc |-> inquiry.pc, asker |-> inquiry.asker, version |-> inquiry.version,
                through |-> inquiry.through, pieces |-> inquiry.pieces, hits |-> inquiry.hits]
  /\ inquiry.pc # "idle" =>
       /\ inquiry.version \in BookVersions
       /\ inquiry.asker = "batch" => /\ snapshot # NoFrozen /\ inquiry.through = 0
                                     /\ snapshot.version = inquiry.version
  /\ inquiry.pc = "prepared" =>
       inquiry.pieces = CorpusOf(Permitted(VersionTexts[inquiry.version], inquiry.through))
  /\ Apart(inquiry.hits) /\ \A h \in inquiry.hits : PieceForm(h)

\* What the entries in S name, where L are the entries of the frozen texts.
Refers(L, S) == (L \cup Past) \cap ((UNION {Mentions[e] : e \in S \cap L})
                                      \cup (UNION {PastMentions[e] : e \in S \cap Past}))

WorldOf(L, w) ==
  /\ w.full \subseteq L /\ w.brief \subseteq L /\ w.past \subseteq Past
  /\ w.required \subseteq w.full \cup w.past
  /\ Refers(L, w.full \cup w.past) \subseteq w.full \cup w.past
  /\ w.brief \cap w.full = {} /\ Cardinality(w.brief) <= MaxBrief
  /\ WorldFits(w.full, w.brief, w.past)

WorldSound ==
  /\ world = [required |-> world.required, full |-> world.full, brief |-> world.brief,
              past |-> world.past, considered |-> world.considered]
  /\ inquiry.pc = "world" => WorldOf(Lore, world)

RetrievalInv == FrozenSound /\ CacheSound /\ InquirySound /\ WorldSound

LEMMA ReferredIs ==
  \A S : ReferredBy(S) = Refers(Lore, S)
BY DEF ReferredBy, Refers, WorldLinked

LEMMA RefersTo ==
  ASSUME NEW L, NEW S, NEW x
  PROVE  x \in Refers(L, S) <=>
           /\ x \in L \cup Past
           /\ \E y \in S : (y \in L /\ x \in Mentions[y]) \/ (y \in Past /\ x \in PastMentions[y])
<1> DEFINE A == UNION {Mentions[e] : e \in S \cap L}
           B == UNION {PastMentions[e] : e \in S \cap Past}
<1>1. x \in A <=> \E y \in S : y \in L /\ x \in Mentions[y]
    OBVIOUS
<1>2. x \in B <=> \E y \in S : y \in Past /\ x \in PastMentions[y]
    OBVIOUS
<1>3. Refers(L, S) = (L \cup Past) \cap (A \cup B)
    BY DEF Refers
<1> HIDE DEF A, B
<1> QED BY <1>1, <1>2, <1>3

LEMMA LoreKnown ==
  ASSUME FrozenSound
  PROVE  Lore \subseteq WorldIds
<1> SUFFICES ASSUME NEW s \in snapshot.sources, s.kind = "world_lore"
             PROVE  s.id \in WorldIds
    BY DEF Lore
<1>1. snapshot # NoFrozen
  <2>1. NoFrozen.sources = {}
    BY DEF NoFrozen
  <2> QED BY <2>1
<1>2. TextShape(s) /\ Labelled(s) \in SourceTexts
  <2>1. Labelled(s) \in VersionTexts[snapshot.version] /\ snapshot.version \in BookVersions /\ TextShape(s)
    BY <1>1 DEF FrozenSound
  <2> QED BY <2>1 DEF SourceTexts
<1>3. Labelled(s).kind = s.kind /\ Labelled(s).id = s.id
    BY <1>2 DEF TextShape, Labelled
<1> QED BY <1>2, <1>3, RetrievalAssumption

-----------------------------------------------------------------------------
(* The entries of the world.                                               *)

LEMMA WorldBegins ==
  ASSUME Lore \subseteq WorldIds, NEW named \in SUBSET WorldLinked,
         NEW required, required = Dependencies(named),
         WorldFits(Lore \cap required, {}, Past \cap required)
  PROVE  WorldOf(Lore, [NoWorld EXCEPT !.required = required, !.full = Lore \cap required,
                                       !.past = Past \cap required])
<1> DEFINE w == [NoWorld EXCEPT !.required = required, !.full = Lore \cap required,
                                !.past = Past \cap required]
<1>1. /\ w.required = required /\ w.full = Lore \cap required /\ w.past = Past \cap required
      /\ w.brief = {}
    BY DEF NoWorld
<1> HIDE DEF w
<1>2. required \subseteq WorldLinked /\ ReferredBy(required) \subseteq required
    BY DependenciesClosed
<1>3. w.full \cup w.past = required
    BY <1>1, <1>2 DEF WorldLinked
<1>4. Cardinality({}) = 0 /\ MaxBrief \in Nat
    BY FS_EmptySet, RetrievalAssumption
<1>5. Refers(Lore, w.full \cup w.past) \subseteq w.full \cup w.past
    BY <1>2, <1>3, ReferredIs
<1>6. Cardinality(w.brief) <= MaxBrief
    BY <1>1, <1>4
<1>7. WorldFits(w.full, w.brief, w.past)
    BY <1>1
<1>8. WorldOf(Lore, w)
    BY <1>1, <1>3, <1>5, <1>6, <1>7 DEF WorldOf
<1> QED BY <1>8 DEF w

LEMMA WorldDetails ==
  ASSUME Lore \subseteq WorldIds, WorldOf(Lore, world), NEW e \in Lore,
         NEW closure, closure = Dependencies(world.full \cup {e}),
         NEW w, w.required = world.required, w.full = Lore \cap closure,
         w.brief = world.brief \ closure, w.past = world.past \cup (Past \cap closure),
         WorldFits(w.full, w.brief, w.past)
  PROVE  WorldOf(Lore, w)
<1>1. world.full \cup {e} \subseteq WorldLinked
    BY DEF WorldOf, WorldLinked
<1>2. /\ closure \subseteq WorldLinked /\ world.full \cup {e} \subseteq closure
      /\ Refers(Lore, closure) \subseteq closure
    BY <1>1, DependenciesClosed, ReferredIs
<1> DEFINE told == world.full \cup world.past
           more == w.full \cup w.past
<1>3. /\ Refers(Lore, told) \subseteq told /\ world.past \subseteq Past /\ world.full \subseteq Lore
      /\ world.required \subseteq told /\ world.brief \subseteq Lore
    BY DEF WorldOf
<1>4. more = closure \cup world.past /\ told \subseteq more /\ more \subseteq closure \cup told
    BY <1>2, <1>3 DEF WorldLinked
<1>5. Refers(Lore, more) \subseteq Refers(Lore, closure) \cup Refers(Lore, told)
  <2> SUFFICES ASSUME NEW x \in Refers(Lore, more)
               PROVE  x \in Refers(Lore, closure) \/ x \in Refers(Lore, told)
    OBVIOUS
  <2> HIDE DEF more, told
  <2>1. /\ x \in Lore \cup Past
        /\ \E y \in more : (y \in Lore /\ x \in Mentions[y]) \/ (y \in Past /\ x \in PastMentions[y])
    BY RefersTo
  <2> QED BY <1>4, <2>1, RefersTo
<1>6. Refers(Lore, more) \subseteq more
    BY <1>2, <1>3, <1>4, <1>5
<1>7. Cardinality(w.brief) <= MaxBrief
  <2>1. IsFiniteSet(world.brief)
    BY <1>3, RetrievalAssumption, FS_Subset
  <2>2. w.brief \subseteq world.brief
    OBVIOUS
  <2>3. Cardinality(w.brief) <= Cardinality(world.brief)
    BY <2>1, <2>2, FS_Subset
  <2>4. Cardinality(w.brief) \in Nat /\ Cardinality(world.brief) \in Nat
    BY <2>1, <2>2, FS_Subset, FS_CardinalityType
  <2>5. Cardinality(world.brief) <= MaxBrief /\ MaxBrief \in Nat
    BY RetrievalAssumption DEF WorldOf
  <2> QED BY <2>3, <2>4, <2>5
<1>8. w.full \subseteq Lore /\ w.brief \subseteq Lore /\ w.past \subseteq Past /\ w.brief \cap w.full = {}
    BY <1>3
<1>9. w.required \subseteq more
    BY <1>3, <1>4
<1> QED BY <1>6, <1>7, <1>8, <1>9 DEF WorldOf

LEMMA WorldOutlines ==
  ASSUME Lore \subseteq WorldIds, WorldOf(Lore, world), NEW e \in Lore, e \notin world.full,
         world = [required |-> world.required, full |-> world.full, brief |-> world.brief,
                  past |-> world.past, considered |-> world.considered]
  PROVE  WorldOf(Lore, Outlined(e)) /\ WorldOf(Lore, SeenEntry(e))
<1> DEFINE s == SeenEntry(e)
           w == [SeenEntry(e) EXCEPT !.brief = @ \cup {e}]
<1>1. /\ s.required = world.required /\ s.full = world.full /\ s.brief = world.brief /\ s.past = world.past
      /\ w.required = world.required /\ w.full = world.full /\ w.brief = world.brief \cup {e}
      /\ w.past = world.past
    BY DEF SeenEntry
<1>2. Outlined(e) = IF RoomInBrief /\ WorldFits(world.full, world.brief \cup {e}, world.past) THEN w ELSE s
    BY DEF Outlined
<1> HIDE DEF s, w
<1>3. WorldOf(Lore, s)
    BY <1>1 DEF WorldOf
<1>4. ASSUME RoomInBrief, WorldFits(world.full, world.brief \cup {e}, world.past)
      PROVE  WorldOf(Lore, w)
  <2>1. IsFiniteSet(world.brief)
    BY RetrievalAssumption, FS_Subset DEF WorldOf
  <2>2. Cardinality(world.brief) \in Nat /\ MaxBrief \in Nat
    BY <2>1, FS_CardinalityType, RetrievalAssumption
  <2>3. \/ Cardinality(world.brief \cup {e}) = Cardinality(world.brief)
        \/ Cardinality(world.brief \cup {e}) = Cardinality(world.brief) + 1
    BY <2>1, FS_AddElement
  <2>4. Cardinality(world.brief) < MaxBrief
    BY <1>4 DEF RoomInBrief
  <2>5. Cardinality(w.brief) <= MaxBrief
    BY <1>1, <2>2, <2>3, <2>4
  <2>6. WorldFits(w.full, w.brief, w.past)
    BY <1>1, <1>4
  <2> QED BY <1>1, <2>5, <2>6 DEF WorldOf
<1> QED BY <1>2, <1>3, <1>4 DEF s

-----------------------------------------------------------------------------
(* What is prepared.                                                       *)

LEMMA IntactIs ==
  ASSUME NEW s, TextShape(s), AsFrozen(s)
  PROVE  Labelled(s) = s
BY DEF TextShape, AsFrozen, Labelled

LEMMA TextsAre ==
  \A s \in SourceTexts : TextShape(s) /\ AsFrozen(s)
BY RetrievalAssumption DEF TextShape

LEMMA FrozenIntact ==
  ASSUME FrozenSound, snapshot # NoFrozen, AllIntact(snapshot.sources)
  PROVE  snapshot.sources = VersionTexts[snapshot.version]
<1>1. \A s \in snapshot.sources : Labelled(s) = s
    BY IntactIs DEF FrozenSound, AllIntact
<1> QED BY <1>1 DEF FrozenSound

LEMMA PreparedIs ==
  ASSUME FrozenSound, InquirySound, inquiry.pc = "asked", NEW sources,
         sources = Permitted(SourcesFor(inquiry), inquiry.through), AllIntact(sources)
  PROVE  /\ sources = Permitted(VersionTexts[inquiry.version], inquiry.through)
         /\ sources \in SUBSET SourceTexts /\ inquiry.version \in BookVersions
         /\ CorpusKey(inquiry.version, sources) = [version |-> inquiry.version, sources |-> sources]
<1>1. inquiry.version \in BookVersions
    BY DEF InquirySound
<1>2. SourcesFor(inquiry) = VersionTexts[inquiry.version]
  <2>1. CASE inquiry.asker = "batch"
    <3>1. snapshot # NoFrozen /\ inquiry.through = 0 /\ snapshot.version = inquiry.version
      BY <2>1 DEF InquirySound
    <3>2. SourcesFor(inquiry) = snapshot.sources
      BY <2>1 DEF SourcesFor
    <3>3. sources = snapshot.sources
      BY <3>1, <3>2 DEF Permitted, StatePermitted
    <3> QED BY <3>1, <3>2, <3>3, FrozenIntact
  <2>2. CASE inquiry.asker # "batch"
    BY <2>2 DEF SourcesFor
  <2> QED BY <2>1, <2>2
<1>3. sources \subseteq VersionTexts[inquiry.version]
    BY <1>2 DEF Permitted
<1>4. sources \in SUBSET SourceTexts
    BY <1>1, <1>3 DEF SourceTexts
<1>5. \A s \in sources : Labelled(s) = s
    BY <1>4, TextsAre, IntactIs
<1>6. {Labelled(s) : s \in sources} = sources
    BY <1>5
<1> QED BY <1>1, <1>2, <1>4, <1>6 DEF CorpusKey

LEMMA CacheOf ==
  ASSUME CacheSound, NEW v \in BookVersions, NEW S \in SUBSET SourceTexts,
         NEW i \in DOMAIN cached, cached[i].key = [version |-> v, sources |-> S]
  PROVE  cached[i].pieces = CorpusOf(S)
<1>1. cached[i] \in Corpora
    BY DEF CacheSound
<1>2. PICK w \in BookVersions, R \in SUBSET SourceTexts :
         cached[i] = [key |-> [version |-> w, sources |-> R], pieces |-> CorpusOf(R)]
    BY <1>1 DEF Corpora
<1>3. [version |-> w, sources |-> R] = [version |-> v, sources |-> S]
    BY <1>2
<1>4. R = S
    BY <1>3
<1> QED BY <1>2, <1>4

LEMMA CorpusPrepared ==
  ASSUME FrozenSound, CacheSound, InquirySound, PrepareCorpus
  PROVE  /\ inquiry' = [inquiry EXCEPT !.pc = "prepared",
                !.pieces = CorpusOf(Permitted(VersionTexts[inquiry.version], inquiry.through))]
         /\ CacheSound'
<1> DEFINE sources == Permitted(SourcesFor(inquiry), inquiry.through)
           key     == CorpusKey(inquiry.version, sources)
           found   == {i \in DOMAIN cached : cached[i].key = key}
           place   == CHOOSE i \in found : TRUE
           others  == IF found = {} THEN cached
                      ELSE SubSeq(cached, 1, place - 1) \o SubSeq(cached, place + 1, Len(cached))
           corpus  == IF found = {} THEN CorpusOf(sources) ELSE cached[place].pieces
           grown   == Append(others, [key |-> key, pieces |-> corpus])
<1>1. /\ inquiry.pc = "asked" /\ AllIntact(sources)
      /\ cached' = IF Len(grown) > MaxCached THEN Tail(grown) ELSE grown
      /\ inquiry' = [inquiry EXCEPT !.pc = "prepared", !.pieces = corpus]
    BY DEF PrepareCorpus
<1> HIDE DEF corpus, others
<1>2. /\ sources = Permitted(VersionTexts[inquiry.version], inquiry.through)
      /\ sources \in SUBSET SourceTexts /\ inquiry.version \in BookVersions
      /\ key = [version |-> inquiry.version, sources |-> sources]
    BY <1>1, PreparedIs
<1> HIDE DEF sources, key
<1>3. corpus = CorpusOf(sources)
  <2>1. CASE found = {}
    BY <2>1 DEF corpus
  <2>2. CASE found # {}
    <3>1. place \in DOMAIN cached /\ cached[place].key = key
      BY <2>2
    <3>2. cached[place].pieces = CorpusOf(sources)
      BY <1>2, <3>1, CacheOf
    <3> QED BY <2>2, <3>2 DEF corpus
  <2> QED BY <2>1, <2>2
<1>4. [key |-> key, pieces |-> corpus] \in Corpora
    BY <1>2, <1>3 DEF Corpora
<1>5. others \in Seq(Corpora)
  <2>1. cached \in Seq(Corpora)
    BY DEF CacheSound
  <2>2. CASE found = {}
    BY <2>1, <2>2 DEF others
  <2>3. CASE found # {}
    <3>1. place \in DOMAIN cached
      BY <2>3
    <3> HIDE DEF found, place
    <3>2. place \in 1 .. Len(cached) /\ Len(cached) \in Nat
      BY <2>1, <3>1
    <3>3. SubSeq(cached, 1, place - 1) \in Seq(Corpora)
      BY <2>1, <3>2
    <3>4. SubSeq(cached, place + 1, Len(cached)) \in Seq(Corpora)
      BY <2>1, <3>2
    <3> QED BY <2>3, <3>3, <3>4 DEF others
  <2> QED BY <2>2, <2>3
<1> DEFINE new == [key |-> key, pieces |-> corpus]
<1> HIDE DEF new
<1>6. Append(others, new) \in Seq(Corpora) /\ Append(others, new) # <<>>
  <2>1. new \in Corpora
    BY <1>4 DEF new
  <2> QED BY <1>5, <2>1, AppendProperties
<1>7. Tail(Append(others, new)) \in Seq(Corpora)
    BY <1>6
<1>8. CacheSound'
    BY <1>1, <1>6, <1>7 DEF CacheSound, new
<1> QED BY <1>1, <1>2, <1>3, <1>8

-----------------------------------------------------------------------------
(* The steps.                                                              *)

LEMMA DamageMoves ==
  ASSUME FrozenSound, NEW s \in snapshot.sources, DamageText(s)
  PROVE  /\ FrozenSound' /\ Lore' = Lore
         /\ snapshot' # NoFrozen /\ snapshot'.version = snapshot.version
<1> DEFINE d == [s EXCEPT !.text = Damaged]
           S == snapshot.sources
           R == (S \ {s}) \cup {d}
<1>1. AsFrozen(s) /\ snapshot' = [snapshot EXCEPT !.sources = R]
    BY DEF DamageText
<1>2. snapshot # NoFrozen
  <2>1. NoFrozen.sources = {}
    BY DEF NoFrozen
  <2> QED BY <2>1
<1>3. /\ snapshot = [version |-> snapshot.version, sources |-> S]
      /\ snapshot.version \in BookVersions /\ \A t \in S : TextShape(t)
      /\ {Labelled(t) : t \in S} = VersionTexts[snapshot.version]
    BY <1>2 DEF FrozenSound
<1>4. TextShape(s)
    BY <1>3
<1>5. TextShape(d) /\ d.kind = s.kind /\ d.id = s.id /\ d.digest = s.digest
    BY <1>4 DEF TextShape
<1>6. Labelled(d) = Labelled(s)
    BY <1>4 DEF TextShape, Labelled
<1> HIDE DEF d, S
<1>7. snapshot' = [version |-> snapshot.version, sources |-> R]
    BY <1>1, <1>3
<1>8. s \in S /\ d \in R
    BY DEF S
<1> HIDE DEF R
<1>9. snapshot'.version = snapshot.version /\ snapshot'.sources = R
    BY <1>7
<1>10. {Labelled(t) : t \in R} = {Labelled(t) : t \in S}
    BY <1>6, <1>8 DEF R
<1>11. \A t \in R : TextShape(t)
    BY <1>3, <1>5 DEF R
<1>12. snapshot' # NoFrozen
  <2>1. NoFrozen.sources = {}
    BY DEF NoFrozen
  <2> QED BY <1>8, <1>9, <2>1
<1>13. FrozenSound'
    BY <1>3, <1>7, <1>9, <1>10, <1>11 DEF FrozenSound
<1>14. Lore' = Lore
  <2>1. Lore = {t.id : t \in {u \in S : u.kind = "world_lore"}}
    BY DEF Lore, S
  <2>2. Lore' = {t.id : t \in {u \in R : u.kind = "world_lore"}}
    BY <1>9 DEF Lore
  <2> QED BY <1>5, <1>8, <2>1, <2>2 DEF R
<1> QED BY <1>9, <1>12, <1>13, <1>14

LEMMA LoreRests ==
  ASSUME snapshot' = snapshot
  PROVE  Lore' = Lore /\ (FrozenSound => FrozenSound')
BY DEF Lore, FrozenSound

LEMMA WorldRests ==
  ASSUME WorldSound, world' = world, Lore' = Lore, inquiry'.pc = "world" => inquiry.pc = "world"
  PROVE  WorldSound'
<1>1. inquiry'.pc = "world" => WorldOf(Lore, world)
    BY DEF WorldSound
<1>2. inquiry'.pc = "world" => WorldOf(Lore', world')
  <2> HIDE DEF WorldOf
  <2> QED BY <1>1
<1>3. world' = [required |-> world'.required, full |-> world'.full, brief |-> world'.brief,
                past |-> world'.past, considered |-> world'.considered]
    BY DEF WorldSound
<1> QED BY <1>2, <1>3 DEF WorldSound

LEMMA InquiryIdles ==
  ASSUME inquiry' = NoInquiry
  PROVE  InquirySound' /\ inquiry'.pc = "idle"
<1>1. inquiry'.pc = "idle" /\ inquiry'.hits = {}
    BY DEF NoInquiry
<1>2. Apart({})
  <2>1. IsFiniteSet({}) /\ Cardinality({}) = 0 /\ 0 <= HitLimit
    BY FS_EmptySet, RetrievalAssumption
  <2> QED BY <2>1 DEF Apart
<1>3. inquiry' = [pc |-> inquiry'.pc, asker |-> inquiry'.asker, version |-> inquiry'.version,
                  through |-> inquiry'.through, pieces |-> inquiry'.pieces, hits |-> inquiry'.hits]
    BY DEF NoInquiry
<1> HIDE DEF Apart
<1>4. Apart(inquiry'.hits) /\ \A h \in inquiry'.hits : PieceForm(h)
    BY <1>1, <1>2
<1> QED BY <1>1, <1>3, <1>4 DEF InquirySound

LEMMA InquiryAsks ==
  ASSUME NEW asker, NEW v \in BookVersions, NEW through, inquiry' = AskedBy(asker, v, through),
         asker = "batch" => snapshot' # NoFrozen /\ through = 0 /\ snapshot'.version = v
  PROVE  InquirySound' /\ inquiry'.pc = "asked"
<1>1. inquiry' = [pc |-> "asked", asker |-> asker, version |-> v, through |-> through,
                  pieces |-> {}, hits |-> {}]
    BY DEF AskedBy, NoInquiry
<1>2. Apart({})
  <2>1. IsFiniteSet({}) /\ Cardinality({}) = 0 /\ 0 <= HitLimit
    BY FS_EmptySet, RetrievalAssumption
  <2> QED BY <2>1 DEF Apart
<1>3. /\ inquiry'.pc = "asked" /\ inquiry'.asker = asker /\ inquiry'.version = v
      /\ inquiry'.through = through /\ inquiry'.hits = {}
    BY <1>1
<1>4. inquiry' = [pc |-> inquiry'.pc, asker |-> inquiry'.asker, version |-> inquiry'.version,
                  through |-> inquiry'.through, pieces |-> inquiry'.pieces, hits |-> inquiry'.hits]
    BY <1>1
<1>5. Apart(inquiry'.hits) /\ \A h \in inquiry'.hits : PieceForm(h)
    BY <1>2, <1>3
<1> QED BY <1>3, <1>4, <1>5 DEF InquirySound

\* An inquiry goes on with the version it has, while the frozen texts are those it began with.
LEMMA InquiryGoesOn ==
  ASSUME InquirySound, inquiry.pc # "idle", NEW pc, NEW pieces, NEW hits,
         inquiry' = [inquiry EXCEPT !.pc = pc, !.pieces = pieces, !.hits = hits],
         snapshot # NoFrozen => snapshot' # NoFrozen /\ snapshot'.version = snapshot.version,
         pc = "prepared" => pieces = CorpusOf(Permitted(VersionTexts[inquiry.version], inquiry.through)),
         Apart(hits), \A h \in hits : PieceForm(h)
  PROVE  InquirySound'
<1>1. inquiry = [pc |-> inquiry.pc, asker |-> inquiry.asker, version |-> inquiry.version,
                 through |-> inquiry.through, pieces |-> inquiry.pieces, hits |-> inquiry.hits]
    BY DEF InquirySound
<1>2. inquiry' = [pc |-> pc, asker |-> inquiry.asker, version |-> inquiry.version,
                  through |-> inquiry.through, pieces |-> pieces, hits |-> hits]
    BY <1>1
<1>3. /\ inquiry'.pc = pc /\ inquiry'.asker = inquiry.asker /\ inquiry'.version = inquiry.version
      /\ inquiry'.through = inquiry.through /\ inquiry'.pieces = pieces /\ inquiry'.hits = hits
    BY <1>2
<1>4. inquiry.version \in BookVersions
    BY DEF InquirySound
<1>5. inquiry'.asker = "batch" => /\ snapshot' # NoFrozen /\ inquiry'.through = 0
                                  /\ snapshot'.version = inquiry'.version
    BY <1>3 DEF InquirySound
<1>6. inquiry'.pc = "prepared" =>
        inquiry'.pieces = CorpusOf(Permitted(VersionTexts[inquiry'.version], inquiry'.through))
    BY <1>3
<1>7. Apart(inquiry'.hits) /\ \A h \in inquiry'.hits : PieceForm(h)
    BY <1>3
<1> QED BY <1>2, <1>3, <1>4, <1>5, <1>6, <1>7 DEF InquirySound

LEMMA InquiryRests ==
  ASSUME InquirySound, inquiry' = inquiry,
         snapshot # NoFrozen => snapshot' # NoFrozen /\ snapshot'.version = snapshot.version
  PROVE  InquirySound'
BY DEF InquirySound

LEMMA HitsChosen ==
  ASSUME FrozenSound, InquirySound, RankPieces
  PROVE  InquirySound' /\ inquiry'.pc = "ranked"
<1>1. PICK hits \in {ChosenPieces(order) : order \in ScoredOrders(inquiry.pieces)} :
         inquiry' = [inquiry EXCEPT !.pc = "ranked", !.hits = hits, !.pieces = {}]
    BY DEF RankPieces
<1>2. inquiry.pc = "prepared" /\ snapshot' = snapshot
    BY DEF RankPieces
<1>3. hits \subseteq inquiry.pieces /\ Apart(hits)
  <2>1. PICK order \in ScoredOrders(inquiry.pieces) : hits = ChosenPieces(order)
    OBVIOUS
  <2> QED BY <2>1, ChosenAre
<1>4. PICK S \in SUBSET SourceTexts : inquiry.pieces = CorpusOf(S)
  <2> DEFINE S == Permitted(VersionTexts[inquiry.version], inquiry.through)
  <2>1. inquiry.version \in BookVersions /\ inquiry.pieces = CorpusOf(S)
    BY <1>2 DEF InquirySound
  <2>2. S \in SUBSET SourceTexts
    BY <2>1 DEF Permitted, SourceTexts
  <2> QED BY <2>1, <2>2
<1>5. \A h \in hits : PieceForm(h)
    BY <1>3, <1>4, CorpusIs DEF PieceForm
<1>6. inquiry' = [inquiry EXCEPT !.pc = "ranked", !.pieces = {}, !.hits = hits]
    BY <1>1 DEF InquirySound
<1>7. inquiry'.pc = "ranked"
    BY <1>6 DEF InquirySound
<1> QED BY <1>2, <1>3, <1>5, <1>6, <1>7, InquiryGoesOn

LEMMA WorldStarts ==
  ASSUME RetrievalInv, BeginWorld
  PROVE  RetrievalInv'
<1> USE DEF RetrievalInv
<1>1. PICK named \in SUBSET WorldLinked :
        LET required == Dependencies(named)
            full     == Lore \cap required
            past     == Past \cap required
        IN  /\ inquiry.pc = "ranked"
            /\ IF WorldFits(full, {}, past)
               THEN /\ world' = [NoWorld EXCEPT !.required = required, !.full = full, !.past = past]
                    /\ inquiry' = [inquiry EXCEPT !.pc = "world"]
               ELSE inquiry' = NoInquiry /\ UNCHANGED world
            /\ UNCHANGED <<snapshot, cached, damages>>
    BY DEF BeginWorld
<1> DEFINE required == Dependencies(named)
           full     == Lore \cap required
           past     == Past \cap required
<1>2. snapshot' = snapshot /\ cached' = cached /\ inquiry.pc = "ranked"
    BY <1>1
<1>3. FrozenSound' /\ Lore' = Lore /\ CacheSound'
    BY <1>2, LoreRests DEF CacheSound
<1>4. CASE WorldFits(full, {}, past)
  <2>1. /\ world' = [NoWorld EXCEPT !.required = required, !.full = full, !.past = past]
        /\ inquiry' = [inquiry EXCEPT !.pc = "world"]
    BY <1>1, <1>4
  <2>2. WorldOf(Lore, world')
    BY <2>1, <1>4, LoreKnown, WorldBegins
  <2>3. WorldSound'
    <3>1. world' = [required |-> required, full |-> full, brief |-> {}, past |-> past, considered |-> {}]
      BY <2>1 DEF NoWorld
    <3> HIDE DEF required, full, past, WorldOf
    <3>2. world' = [required |-> world'.required, full |-> world'.full, brief |-> world'.brief,
                    past |-> world'.past, considered |-> world'.considered]
      BY <3>1
    <3>3. WorldOf(Lore', world')
      BY <1>3, <2>2
    <3> QED BY <3>2, <3>3 DEF WorldSound
  <2>4. InquirySound'
    <3>1. inquiry' = [inquiry EXCEPT !.pc = "world", !.pieces = inquiry.pieces, !.hits = inquiry.hits]
      BY <2>1 DEF InquirySound
    <3>2. Apart(inquiry.hits) /\ \A h \in inquiry.hits : PieceForm(h)
      BY DEF InquirySound
    <3> QED BY <1>2, <3>1, <3>2, InquiryGoesOn
  <2> QED BY <1>3, <2>3, <2>4
<1>5. CASE ~WorldFits(full, {}, past)
  <2>1. inquiry' = NoInquiry /\ world' = world
    BY <1>1, <1>5
  <2>2. InquirySound' /\ inquiry'.pc = "idle"
    BY <2>1, InquiryIdles
  <2>3. WorldSound'
    BY <2>1, <2>2, <1>3, WorldRests
  <2> QED BY <1>3, <2>2, <2>3
<1> QED BY <1>4, <1>5

LEMMA ReplacedIn ==
  ASSUME NEW a, NEW b, NEW c, NEW d, NEW x, NEW full, NEW brief, NEW past,
         NEW s, s = [required |-> a, full |-> b, brief |-> c, past |-> d, considered |-> x],
         NEW w, w = [s EXCEPT !.full = full, !.brief = brief, !.past = past]
  PROVE  w = [required |-> a, full |-> full, brief |-> brief, past |-> past, considered |-> x]
    OBVIOUS

LEMMA WorldMoves ==
  ASSUME RetrievalInv, NEW e, SkipEntry(e) \/ DetailEntry(e) \/ OutlineEntry(e)
  PROVE  RetrievalInv'
<1> USE DEF RetrievalInv
<1>1. /\ inquiry.pc = "world" /\ e \in Lore
      /\ snapshot' = snapshot /\ cached' = cached /\ inquiry' = inquiry
    BY DEF SkipEntry, DetailEntry, OutlineEntry, Considers, WorldCandidates
<1>2. FrozenSound' /\ Lore' = Lore /\ CacheSound' /\ InquirySound'
    BY <1>1, LoreRests, InquiryRests DEF CacheSound
<1>3. WorldOf(Lore, world) /\ Lore \subseteq WorldIds
    BY <1>1, LoreKnown DEF WorldSound
<1>4. world = [required |-> world.required, full |-> world.full, brief |-> world.brief,
               past |-> world.past, considered |-> world.considered]
    BY DEF WorldSound
<1> DEFINE Formed(w) == w = [required |-> w.required, full |-> w.full, brief |-> w.brief,
                             past |-> w.past, considered |-> w.considered]
<1>5. Formed(SeenEntry(e)) /\ SeenEntry(e).required = world.required /\ SeenEntry(e).full = world.full
      /\ SeenEntry(e).brief = world.brief /\ SeenEntry(e).past = world.past
    BY <1>4 DEF SeenEntry
<1>6. Formed(Outlined(e))
  <2> DEFINE s == SeenEntry(e)
  <2>1. Outlined(e) = s \/ Outlined(e) = [s EXCEPT !.brief = @ \cup {e}]
    BY DEF Outlined
  <2> HIDE DEF s
  <2>2. Formed(s)
    BY <1>5 DEF s
  <2> QED BY <2>1, <2>2
<1> HIDE DEF WorldOf
<1>7. WorldOf(Lore, world') /\ Formed(world')
  <2>1. CASE SkipEntry(e)
    <3>1. world' = SeenEntry(e)
      BY <2>1 DEF SkipEntry
    <3>2. WorldOf(Lore, SeenEntry(e))
      BY <1>3, <1>5 DEF WorldOf
    <3> QED BY <1>5, <3>1, <3>2
  <2>2. CASE OutlineEntry(e)
    <3>1. world' = Outlined(e) /\ e \notin world.full
      BY <2>2 DEF OutlineEntry
    <3> QED BY <1>1, <1>3, <1>4, <1>6, <3>1, WorldOutlines
  <2>3. CASE DetailEntry(e)
    <3> DEFINE closure == Dependencies(world.full \cup {e})
               full    == Lore \cap closure
               brief   == world.brief \ closure
               past    == PastGrown(closure)
               w       == [SeenEntry(e) EXCEPT !.full = full, !.brief = brief, !.past = past]
    <3>1. /\ e \notin world.full
          /\ world' = IF WorldFits(full, brief, past) THEN w ELSE Outlined(e)
      BY <2>3 DEF DetailEntry
    <3>2. past = world.past \cup (Past \cap closure)
      BY DEF PastGrown
    <3>3. /\ w.required = world.required /\ w.full = full /\ w.brief = brief /\ w.past = past
          /\ Formed(w)
      <4> DEFINE s == SeenEntry(e)
      <4> HIDE DEF closure, full, brief, past
      <4>1. PICK a, b, c, d, x :
               s = [required |-> a, full |-> b, brief |-> c, past |-> d, considered |-> x]
        BY <1>5
      <4> HIDE DEF s
      <4>2. w = [s EXCEPT !.full = full, !.brief = brief, !.past = past]
        BY DEF s
      <4>3. s.required = a /\ a = world.required
        BY <1>5, <4>1 DEF s
      <4> HIDE DEF w
      <4>4. w = [required |-> a, full |-> full, brief |-> brief, past |-> past, considered |-> x]
        BY <4>1, <4>2, ReplacedIn
      <4> QED BY <4>3, <4>4
    <3> HIDE DEF closure, w, past
    <3>4. CASE WorldFits(full, brief, past)
      <4>1. world' = w
        BY <3>1, <3>4
      <4>2. closure = Dependencies(world.full \cup {e})
        BY DEF closure
      <4>3. WorldFits(w.full, w.brief, w.past)
        BY <3>3, <3>4
      <4>4. WorldOf(Lore, w)
        BY <1>1, <1>3, <3>2, <3>3, <4>2, <4>3, WorldDetails
      <4> QED BY <3>3, <4>1, <4>4
    <3>5. CASE ~WorldFits(full, brief, past)
      <4>1. world' = Outlined(e)
        BY <3>1, <3>5
      <4> QED BY <1>1, <1>3, <1>4, <1>6, <3>1, <4>1, WorldOutlines
    <3> QED BY <3>4, <3>5
  <2> QED BY <2>1, <2>2, <2>3
<1>8. WorldSound'
    BY <1>2, <1>7 DEF WorldSound
<1> QED BY <1>2, <1>8

LEMMA RetrievalInit ==
  ASSUME InitRetrieval
  PROVE  RetrievalInv
<1> USE DEF InitRetrieval
<1>1. FrozenSound
    BY DEF FrozenSound, NoFrozen
<1>2. CacheSound
  <2>1. <<>> \in Seq(Corpora)
    OBVIOUS
  <2> QED BY <2>1 DEF CacheSound
<1>3. InquirySound
  <2>1. IsFiniteSet({}) /\ Cardinality({}) = 0 /\ 0 <= HitLimit
    BY FS_EmptySet, RetrievalAssumption
  <2>2. Apart({})
    BY <2>1 DEF Apart
  <2>3. inquiry = [pc |-> "idle", asker |-> "none", version |-> 0, through |-> 0, pieces |-> {}, hits |-> {}]
    BY DEF NoInquiry
  <2> HIDE DEF Apart, InitRetrieval
  <2>4. inquiry.pc = "idle" /\ inquiry.hits = {}
    BY <2>3
  <2>5. Apart(inquiry.hits) /\ \A h \in inquiry.hits : PieceForm(h)
    BY <2>2, <2>4
  <2> QED BY <2>3, <2>4, <2>5 DEF InquirySound
<1>4. WorldSound
  <2>1. inquiry.pc = "idle"
    BY DEF NoInquiry
  <2> QED BY <2>1 DEF WorldSound, NoWorld
<1> QED BY <1>1, <1>2, <1>3, <1>4 DEF RetrievalInv

\* The steps of a lookup that leave the frozen texts and the world as they are.
LookupSteps ==
  \/ \E v \in BookVersions, through \in {0} \cup {s.ordinal : s \in SourceTexts} : AskAuthor(v, through)
  \/ BeginRequest \/ PrepareCorpus \/ RefuseDamaged \/ RankPieces \/ ShowAuthor \/ RefuseReceipt

LEMMA LooksUp ==
  ASSUME RetrievalInv, LookupSteps
  PROVE  RetrievalInv'
<1> USE DEF RetrievalInv
<1>1. snapshot' = snapshot /\ world' = world
    BY DEF LookupSteps, AskAuthor, BeginRequest, PrepareCorpus, RefuseDamaged, RankPieces,
           ShowAuthor, RefuseReceipt
<1>2. FrozenSound' /\ Lore' = Lore
    BY <1>1, LoreRests
<1> SUFFICES CacheSound' /\ InquirySound' /\ inquiry'.pc # "world"
  <2>1. ASSUME inquiry'.pc # "world" PROVE WorldSound'
    BY <1>1, <1>2, <2>1, WorldRests
  <2> QED BY <1>2, <2>1
<1>3. cached' = cached => CacheSound'
    BY DEF CacheSound
<1>4. CASE \E v \in BookVersions, through \in {0} \cup {s.ordinal : s \in SourceTexts} : AskAuthor(v, through)
  <2>1. PICK v \in BookVersions, through \in {0} \cup {s.ordinal : s \in SourceTexts} : AskAuthor(v, through)
    BY <1>4
  <2>2. inquiry' = AskedBy("author", v, through) /\ cached' = cached
    BY <2>1 DEF AskAuthor
  <2> QED BY <1>3, <2>2, InquiryAsks
<1>5. CASE BeginRequest
  <2>1. inquiry' = AskedBy("batch", snapshot.version, 0) /\ cached' = cached /\ snapshot # NoFrozen
    BY <1>5 DEF BeginRequest
  <2>2. snapshot.version \in BookVersions
    BY <2>1 DEF FrozenSound
  <2> QED BY <1>1, <1>3, <2>1, <2>2, InquiryAsks
<1>6. CASE PrepareCorpus
  <2>1. /\ inquiry' = [inquiry EXCEPT !.pc = "prepared",
             !.pieces = CorpusOf(Permitted(VersionTexts[inquiry.version], inquiry.through))]
        /\ CacheSound' /\ inquiry.pc = "asked"
    BY <1>6, CorpusPrepared DEF PrepareCorpus
  <2> DEFINE corpus == CorpusOf(Permitted(VersionTexts[inquiry.version], inquiry.through))
  <2>2. inquiry' = [inquiry EXCEPT !.pc = "prepared", !.pieces = corpus, !.hits = inquiry.hits]
    <3> HIDE DEF corpus
    <3> QED BY <2>1 DEF InquirySound, corpus
  <2>3. Apart(inquiry.hits) /\ \A h \in inquiry.hits : PieceForm(h)
    BY DEF InquirySound
  <2>4. InquirySound'
    BY <1>1, <2>1, <2>2, <2>3, InquiryGoesOn
  <2>5. inquiry'.pc = "prepared"
    BY <2>1 DEF InquirySound
  <2> QED BY <2>1, <2>4, <2>5
<1>7. CASE RankPieces
  <2>1. cached' = cached
    BY <1>7 DEF RankPieces
  <2> QED BY <1>3, <1>7, <2>1, HitsChosen
<1>8. CASE RefuseDamaged \/ ShowAuthor \/ RefuseReceipt
  <2>1. inquiry' = NoInquiry /\ cached' = cached
    BY <1>8 DEF RefuseDamaged, ShowAuthor, RefuseReceipt
  <2> QED BY <1>3, <2>1, InquiryIdles
<1> QED BY <1>4, <1>5, <1>6, <1>7, <1>8 DEF LookupSteps

LEMMA FreezeKeeps ==
  ASSUME RetrievalInv, NEW v \in BookVersions, FreezeSources(v)
  PROVE  RetrievalInv'
<1> USE DEF RetrievalInv
<1>1. /\ snapshot' = [version |-> v, sources |-> VersionTexts[v]]
      /\ inquiry' = AskedBy("batch", v, 0) /\ cached' = cached /\ world' = world
    BY DEF FreezeSources
<1>2. snapshot'.version = v /\ snapshot'.sources = VersionTexts[v]
    BY <1>1
<1>3. \A s \in VersionTexts[v] : TextShape(s) /\ Labelled(s) = s
    BY TextsAre, IntactIs DEF SourceTexts
<1>4. {Labelled(s) : s \in VersionTexts[v]} = VersionTexts[v]
    BY <1>3
<1>5. FrozenSound'
    BY <1>1, <1>2, <1>3, <1>4 DEF FrozenSound
<1>6. CacheSound'
    BY <1>1 DEF CacheSound
<1>7. InquirySound' /\ inquiry'.pc = "asked"
  <2>1. snapshot' # NoFrozen
    <3>1. NoFrozen.version = 0
      BY DEF NoFrozen
    <3> QED BY <1>2, <3>1, RetrievalAssumption
  <2> QED BY <1>1, <1>2, <2>1, InquiryAsks
<1>8. WorldSound'
    BY <1>1, <1>7 DEF WorldSound
<1> QED BY <1>5, <1>6, <1>7, <1>8

LEMMA RetrievalMoves ==
  ASSUME RetrievalInv, [NextRetrieval]_retrievalVars
  PROVE  RetrievalInv'
<1>1. CASE LookupSteps
    BY <1>1, LooksUp
<1>2. CASE \E v \in BookVersions : FreezeSources(v)
    BY <1>2, FreezeKeeps
<1>3. CASE \E s \in snapshot.sources : DamageText(s)
  <2> USE DEF RetrievalInv
  <2>1. PICK s \in snapshot.sources : DamageText(s)
    BY <1>3
  <2>2. cached' = cached /\ inquiry' = inquiry /\ world' = world
    BY <2>1 DEF DamageText
  <2>3. FrozenSound' /\ Lore' = Lore /\ snapshot' # NoFrozen /\ snapshot'.version = snapshot.version
    BY <2>1, DamageMoves
  <2>4. CacheSound' /\ InquirySound'
    BY <2>2, <2>3, InquiryRests DEF CacheSound
  <2>5. WorldSound'
    BY <2>2, <2>3, WorldRests
  <2> QED BY <2>3, <2>4, <2>5
<1>4. CASE BeginWorld
    BY <1>4, WorldStarts
<1>5. CASE \E e \in WorldIds : SkipEntry(e) \/ DetailEntry(e) \/ OutlineEntry(e)
    BY <1>5, WorldMoves
<1>6. CASE SendMaterial
  <2> USE DEF RetrievalInv
  <2>1. inquiry' = NoInquiry /\ world' = NoWorld /\ snapshot' = snapshot /\ cached' = cached
    BY <1>6 DEF SendMaterial
  <2>2. FrozenSound' /\ CacheSound' /\ InquirySound' /\ inquiry'.pc = "idle"
    BY <2>1, LoreRests, InquiryIdles DEF CacheSound
  <2>3. WorldSound'
    BY <2>1, <2>2 DEF WorldSound, NoWorld
  <2> QED BY <2>2, <2>3
<1>7. CASE UNCHANGED retrievalVars
  <2> USE DEF RetrievalInv
  <2>1. snapshot' = snapshot /\ cached' = cached /\ inquiry' = inquiry /\ world' = world
    BY <1>7 DEF retrievalVars
  <2>2. FrozenSound' /\ Lore' = Lore
    BY <2>1, LoreRests
  <2>3. CacheSound' /\ InquirySound'
    BY <2>1, InquiryRests DEF CacheSound
  <2>4. WorldSound'
    BY <2>1, <2>2, WorldRests
  <2> QED BY <2>2, <2>3, <2>4
<1> QED BY <1>1, <1>2, <1>3, <1>4, <1>5, <1>6, <1>7 DEF NextRetrieval, LookupSteps

LEMMA RetrievalHolds ==
  ASSUME RetrievalInv
  PROVE  RetrievalIsSound
<1> USE DEF RetrievalInv
<1>1. CorpusIsItsVersion
  <2> SUFFICES ASSUME inquiry.pc = "prepared" PROVE CorpusIsItsVersion
    BY DEF CorpusIsItsVersion
  <2> DEFINE S == Permitted(VersionTexts[inquiry.version], inquiry.through)
  <2>1. inquiry.version \in BookVersions /\ inquiry.pieces = CorpusOf(S)
    BY DEF InquirySound
  <2>2. S \in SUBSET SourceTexts
    BY <2>1 DEF Permitted, SourceTexts
  <2> HIDE DEF S
  <2>3. /\ {p.digest : p \in inquiry.pieces} = {s.digest : s \in {t \in S : t.length > 0}}
        /\ \A p \in inquiry.pieces : p.text = p.digest /\ p.start < p.end /\ p.end - p.start <= Window
        /\ \A s \in S : \A place \in 0 .. s.length - 1 :
              \E p \in inquiry.pieces : p.digest = s.digest /\ p.start <= place /\ place < p.end
    BY <2>1, <2>2, CorpusIs
  <2> QED BY <2>3 DEF CorpusIsItsVersion, S
<1>2. HitsAreApart
  <2>1. Apart(inquiry.hits) /\ \A h \in inquiry.hits : PieceForm(h)
    BY DEF InquirySound
  <2>2. \A g, h \in inquiry.hits : g # h /\ g.source = h.source => g.end <= h.start \/ h.end <= g.start
    BY <2>1, ApartInText DEF Apart
  <2> QED BY <2>1, <2>2 DEF HitsAreApart, Apart
<1>3. WorldIsClosed
  <2> SUFFICES ASSUME inquiry.pc = "world" PROVE WorldIsClosed
    BY DEF WorldIsClosed
  <2>1. WorldOf(Lore, world)
    BY DEF WorldSound
  <2>2. ReferredBy(world.full \cup world.past) \subseteq world.full \cup world.past
    BY <2>1, ReferredIs DEF WorldOf
  <2> QED BY <2>1, <2>2 DEF WorldIsClosed, WorldOf, Told
<1> QED BY <1>1, <1>2, <1>3 DEF RetrievalIsSound

(* A lookup sees every text its version lets it see, as it was frozen and  *)
(* without a gap; a receipt repeats no passage; the entries of the world   *)
(* in a request are all the task names, closed under what they name, told  *)
(* once each and within the budget (RetrievalIsSound).                     *)
THEOREM RetrievalSound == RetrievalSpec => []RetrievalIsSound
<1>1. InitRetrieval => RetrievalInv
    BY RetrievalInit
<1>2. RetrievalInv /\ [NextRetrieval]_retrievalVars => RetrievalInv'
    BY RetrievalMoves
<1>3. RetrievalInv => RetrievalIsSound
    BY RetrievalHolds
<1> QED BY <1>1, <1>2, <1>3, PTL DEF RetrievalSpec

=============================================================================
