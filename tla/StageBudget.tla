------------------------------ MODULE StageBudget ------------------------------
(***************************************************************************)
(* The budget of one stage (generation/budget.py, novel.py, longform.py)   *)
(* and the four ways its author may widen it: a new input allowance, the   *)
(* completion of an exhausted memory report, the replay of a failed step   *)
(* and one amendment (input_recovery.py, memory_recovery.py,               *)
(* step_recovery.py, amendments.py).                                       *)
(*                                                                         *)
(* No claim compares a price with a budget: that the calls of a stage cost *)
(* no more than its author agreed to rests on the arithmetic of each       *)
(* preview, on one-shot slots, and on recoveries that bind what they saw.  *)
(*                                                                         *)
(* Token limits and prices are units: an input allowance is 1 or 2, so is  *)
(* an output allowance, and a call costs at most their sum.  The author    *)
(* agrees to the smallest total a preview accepts.                         *)
(***************************************************************************)
EXTENDS Integers, Sequences, FiniteSetsExt, SequencesExt

CONSTANTS
    Designs,        \* the stages an author may set up
    MaxSetbacks     \* search bound of each: failed calls, unreported prices, edits, new limits

ASSUME DesignAssumption ==
    /\ Designs \subseteq [advisory : BOOLEAN, units : Nat \ {0}, milestone : Nat,
                          checker : BOOLEAN, reader : BOOLEAN]
    /\ \A d \in Designs : d.milestone = 0 \/ d.milestone \in 2..(d.units - 1)
    /\ MaxSetbacks \in [Designs -> Nat]

VARIABLES
    design,         \* generation_batches.spec
    standing,       \* status, next_action and authorized
    progress,       \* the part of generation_batches.state a checkpoint keeps
    sent,           \* generation_calls, oldest first
    grants,         \* the receipt each kind of authorization points to
    resume,         \* resume_checkpoint of the last call, resume_state of its outcome
    setbacks

budgetVars == <<design, standing, progress, sent, grants, resume, setbacks>>

NoStep == <<"none", 0>>
Only(a) == <<a, 0>>

-----------------------------------------------------------------------------
(* Slots.                                                                  *)

UnitSlots(n) ==
    [i \in 1..(2 * n) |-> IF i % 2 = 1 THEN <<"write", (i + 1) \div 2>>
                                      ELSE <<"memory", i \div 2>>]

Checkpoints(d) ==
    IF d.units = 1 THEN <<>>
    ELSE IF d.advisory THEN IF d.milestone = 0 THEN <<>> ELSE << <<"chief", 1>> >>
    ELSE << Only("reader_early"), <<"chief", 1>>, <<"chief", 2>> >>

Wanted(d, role) == IF ~d.advisory \/ d[role] THEN << Only(role) >> ELSE <<>>

SlotsFor(d) ==
    << Only("plan") >> \o UnitSlots(d.units) \o Checkpoints(d)
        \o Wanted(d, "checker") \o Wanted(d, "reader")

Amended == progress.amendment = 2

ActiveSlots == IF Amended THEN grants.amendment[1].slots ELSE SlotsFor(design)

PlaceOf(s, a) == CHOOSE i \in DOMAIN s : s[i] = a

RoleFor(a) == CASE a[1] \in {"memory", "memory_amend"} -> "memory"
                [] a[1] \in {"write", "amend"} -> "writer"
                [] a[1] \in {"checker", "checker_amend"} -> "checker"
                [] a[1] \in {"reader", "reader_early", "reader_amend"} -> "reader"
                [] OTHER -> "chief"

AmendmentActions == {Only("amend"), Only("memory_amend"), Only("checker_amend"), Only("reader_amend")}

-----------------------------------------------------------------------------
(* Prices.                                                                 *)

Limits == [input : 1..2, memory : 1..2, others : 1..2]

WithLimits(i, o) == [input |-> i, memory |-> o, others |-> o]

OutputOf(limits, a) == IF RoleFor(a) = "memory" THEN limits.memory ELSE limits.others

(* Every action costs its input and the output of its role.                *)
EstimateCost(limits, actions) ==
    LET reports == {a \in actions : RoleFor(a) = "memory"}
    IN  limits.input * Cardinality(actions) + limits.memory * Cardinality(reports)
            + limits.others * Cardinality(actions \ reports)

Total(prices) ==
    LET sum[n \in 0..Len(prices)] == IF n = 0 THEN 0 ELSE sum[n - 1] + prices[n]
    IN  sum[Len(prices)]

Unpriced == -1
MostOf(c)  == c.input + c.output

(* Calls are named by their place in the history of the stage.             *)
AllCalls    == DOMAIN sent
ScopedCalls == {i \in AllCalls : Amended => sent[i].action \in AmendmentActions}

Paid(c)     == IF c.cost = Unpriced THEN 0 ELSE c.cost
Reserved(c) == IF c.cost = Unpriced /\ c.status # "not_dispatched" THEN MostOf(c) ELSE 0

KnownCost(calls) == Total([i \in AllCalls |-> IF i \in calls THEN Paid(sent[i]) ELSE 0])
Reserve(calls)   == Total([i \in AllCalls |-> IF i \in calls THEN Reserved(sent[i]) ELSE 0])

UsedActions(calls) == {sent[i].action : i \in calls}

(* The limits and the budget the receipts leave in force; not ok when a    *)
(* receipt no longer fits the one under it.                                *)
BaseSpec ==
    [limits |-> WithLimits(1, 1), ok |-> TRUE,
     max |-> EstimateCost(WithLimits(1, 1), ToSet(SlotsFor(design)))]

EffectiveSpec ==
    IF grants.input = <<>> THEN BaseSpec
    ELSE [limits |-> grants.input[1].limits, ok |-> TRUE, max |-> grants.input[1].max]

AmendmentSpec(s) ==
    IF Amended THEN [s EXCEPT !.limits = grants.amendment[1].limits, !.max = grants.amendment[1].max]
    ELSE s

MemorySpec(s) ==
    IF grants.memory = <<>> \/ grants.memory[1].amending # Amended THEN s
    ELSE LET g == grants.memory[1]
         IN  [limits |-> g.limits, max |-> g.max,
              ok |-> s.ok /\ g.previousMax = s.max /\ g.previousInput = s.limits.input]

StepSpec(s) ==
    IF grants.step = <<>> \/ grants.step[1].amending # Amended THEN s
    ELSE [s EXCEPT !.max = grants.step[1].max, !.ok = s.ok /\ s.max <= grants.step[1].max]

SpecInForce == StepSpec(MemorySpec(AmendmentSpec(EffectiveSpec)))

-----------------------------------------------------------------------------
(* What comes next.                                                        *)

(* A correction a memory report asks for is one more reason for the same   *)
(* checkpoints; it is left out.                                            *)
ChiefsUsed == Cardinality({a \in UsedActions(AllCalls) : a[1] = "chief"})

Reasons(w) ==
    \/ ~design.advisory /\ w.handed = 1 /\ 1 \notin w.compared
    \/ w.early /\ ~w.comparedEarly
    \/ design.milestone = w.handed /\ w.handed \notin w.compared

Finishing == Wanted(design, "checker") \o Wanted(design, "reader")

Following(w) ==
    IF w.handed < w.written THEN <<"memory", w.written>>
    ELSE IF w.handed = 0 THEN <<"write", 1>>
    ELSE IF w.handed = w.planned \/ (~design.advisory /\ w.complete)
         THEN IF Finishing = <<>> THEN NoStep ELSE Finishing[1]
    ELSE IF ~design.advisory /\ w.chapter /\ ~w.early THEN Only("reader_early")
    ELSE IF Reasons(w) THEN <<"chief", ChiefsUsed + 1>>
    ELSE <<"write", w.handed + 1>>

Stage(status, next, authorized) == [status |-> status, next |-> next, authorized |-> authorized]

ChooseNext(w) ==
    LET a == Following(w)
    IN  Stage(IF a = NoStep THEN "needs_attention" ELSE "queued", a, standing.authorized)

NextAction(slots, a) ==
    IF PlaceOf(slots, a) = Len(slots) THEN NoStep ELSE slots[PlaceOf(slots, a) + 1]

Then(a) == Stage(IF a = NoStep THEN "needs_attention" ELSE "queued", a, standing.authorized)

-----------------------------------------------------------------------------
(* The executor.                                                           *)

LastCall == sent[Len(sent)]

LocalFailure(w) == standing' = Stage("needs_attention", NoStep, standing.authorized) /\ progress' = w

(* memory_recovery.bindings: what the receipt of a memory report names.    *)
Bindings(w) == <<w.plan, w.written, w.handed, w.input, w.amendment, w.text>>

ReplayPending ==
    grants.step # <<>> /\ grants.step[1].action = standing.next /\ grants.step[1].amending = Amended

Taken(slot) == \E i \in DOMAIN sent : sent[i].slot = slot

Push(c) ==
    /\ sent' = Append(sent, c)
    /\ standing' = [standing EXCEPT !.status = "running"]
    /\ resume' = [before |-> progress, after |-> progress]
    /\ UNCHANGED <<progress, setbacks>>

ReplayFits == ~Taken(grants.step[1].slot) /\ progress = grants.step[1].restore

Replay ==
    Push([sent[grants.step[1].failed] EXCEPT !.slot = grants.step[1].slot, !.status = "executing",
             !.cost = Unpriced, !.replaces = grants.step[1].failed, !.by = "step"])

RecoverySlot == grants.memory # <<>> /\ grants.memory[1].action = standing.next

SlotOf(a) ==
    IF RecoverySlot THEN grants.memory[1].slot
    ELSE PlaceOf(ActiveSlots, a) - 1 + (IF Amended THEN 100 ELSE 0)

Send(a) ==
    Push([action |-> a, slot |-> SlotOf(a), status |-> "executing", cost |-> Unpriced,
          input |-> SpecInForce.limits.input, output |-> OutputOf(SpecInForce.limits, a),
          amending |-> Amended,
          replaces |-> IF RecoverySlot THEN grants.memory[1].failed ELSE 0,
          by |-> IF RecoverySlot THEN "memory" ELSE "slot"])

ClaimFits ==
    /\ SpecInForce.ok
    /\ standing.next \in ToSet(ActiveSlots)
    /\ IF ReplayPending THEN ReplayFits
       ELSE /\ RecoverySlot => grants.memory[1].bindings = Bindings(progress)
            /\ ~Taken(SlotOf(standing.next))

ClaimSlot ==
    /\ standing.status = "queued" /\ standing.authorized /\ standing.next # NoStep
    /\ IF ~ClaimFits THEN LocalFailure(progress) /\ UNCHANGED <<sent, resume, setbacks>>
       ELSE IF ReplayPending THEN Replay
       ELSE Send(standing.next)
    /\ UNCHANGED <<design, grants>>

(* The request was longer than its allowance: nothing was claimed.         *)
InputTooLong ==
    /\ standing.status = "queued" /\ standing.authorized /\ standing.next # NoStep
    /\ ClaimFits /\ ~ReplayPending /\ setbacks < MaxSetbacks[design]
    /\ standing' = [standing EXCEPT !.status = "needs_attention"]
    /\ progress' = [progress EXCEPT !.others = 1]
    /\ setbacks' = setbacks + 1
    /\ UNCHANGED <<design, sent, grants, resume>>

-----------------------------------------------------------------------------
(* Answers.                                                                *)

Running == standing.status = "running"

Settle(status, cost) ==
    sent' = [sent EXCEPT ![Len(sent)].status = status, ![Len(sent)].cost = cost]

Outcome(w, s) == progress' = w /\ standing' = s

PlanDone ==
    /\ LastCall.action = Only("plan")
    /\ \E n \in {design.units - 1, design.units} \ {0} :
         LET w == [progress EXCEPT !.plan = @ + 1, !.planned = n]
         IN  \/ Outcome([w EXCEPT !.asked = TRUE], Stage("awaiting_plan", NoStep, standing.authorized))
             \/ Outcome(w, Stage("awaiting_plan", <<"write", 1>>, standing.authorized))
             \/ Outcome(w, ChooseNext(w))

ChiefDone ==
    /\ LastCall.action[1] = "chief"
    /\ LET w == [progress EXCEPT !.compared = @ \cup {progress.handed}, !.comparedEarly = progress.early]
           v == [w EXCEPT !.plan = @ + 1]
       IN  \/ Outcome([w EXCEPT !.held = TRUE], Stage("awaiting_plan", NoStep, standing.authorized))
           \/ Outcome(v, ChooseNext(v))

WriterDone ==
    /\ LastCall.action[1] = "write"
    /\ LET n == progress.written + 1
       IN  Outcome([progress EXCEPT !.written = n, !.text = @ + 1], Then(<<"memory", n>>))

MemoryDone ==
    /\ LastCall.action[1] = "memory"
    /\ \E complete, chapter \in BOOLEAN :
         LET w == [progress EXCEPT !.handed = progress.written, !.complete = complete, !.chapter = @ \/ chapter]
         IN  /\ design.advisory => ~complete /\ ~chapter
             /\ Outcome(w, ChooseNext(w))

(* An amended text is one unit, and its memory is rebuilt from the whole.  *)
Rebuilt ==
    /\ LastCall.action = Only("memory_amend")
    /\ Outcome([progress EXCEPT !.written = 1, !.handed = 1, !.complete = TRUE],
               Then(NextAction(ActiveSlots, LastCall.action)))

EarlyReadDone ==
    /\ LastCall.action = Only("reader_early")
    /\ LET w == [progress EXCEPT !.early = TRUE] IN Outcome(w, ChooseNext(w))

ReportDone ==
    /\ LastCall.action[1] \in {"checker", "reader", "checker_amend", "reader_amend"}
    /\ Outcome(progress, Then(NextAction(ActiveSlots, LastCall.action)))

Rewritten == [progress EXCEPT !.written = 0, !.handed = 0, !.early = FALSE, !.text = @ + 1]

AmendDone ==
    /\ LastCall.action = Only("amend")
    /\ \E w \in {progress, Rewritten} : Outcome(w, Then(Only("memory_amend")))

(* Only the checkpoint of a failed call is read again.                     *)
Complete(cost) ==
    /\ \/ PlanDone \/ ChiefDone \/ WriterDone \/ MemoryDone
       \/ Rebuilt \/ EarlyReadDone \/ ReportDone \/ AmendDone
    /\ Settle("completed", cost)
    /\ resume' = <<>>

(* stage.continue_independent_reader                                       *)
Reader == IF Amended THEN Only("reader_amend") ELSE Only("reader")

ReaderContinues(c) ==
    /\ RoleFor(c.action) \in {"memory", "checker"} /\ c.by = "slot"
    /\ ~progress.partial /\ progress.text > 0
    /\ c.amending = Amended /\ c.action \in ToSet(ActiveSlots)
    /\ Reader \in ToSet(ActiveSlots) /\ PlaceOf(ActiveSlots, c.action) < PlaceOf(ActiveSlots, Reader)
    /\ ~Taken(PlaceOf(ActiveSlots, Reader) - 1 + (IF Amended THEN 100 ELSE 0))

(* A complete answer that does not pass: the cold read may still go on.    *)
Invalid(cost) ==
    /\ Settle("local_failure", cost)
    /\ IF ReaderContinues(LastCall) THEN Outcome([progress EXCEPT !.others = @ + 1], Then(Reader))
       ELSE LocalFailure(progress)
    /\ resume' = [resume EXCEPT !.after = progress']

Partial == [progress EXCEPT !.written = @ + 1, !.text = @ + 1, !.partial = TRUE]

(* An answer cut off by its allowance, or by a lost connection: the text   *)
(* of a unit that arrived is kept.                                         *)
Exhaust(cost) ==
    /\ Settle("exhausted", cost)
    /\ LocalFailure(IF LastCall.action[1] = "write" THEN Partial ELSE progress)
    /\ resume' = [resume EXCEPT !.after = progress']

LoseAnswer ==
    /\ Settle("outcome_uncertain", Unpriced)
    /\ progress' \in (IF LastCall.action[1] = "write" THEN {progress, Partial} ELSE {progress})
    /\ standing' = Stage("outcome_uncertain", NoStep, standing.authorized)
    /\ resume' = [resume EXCEPT !.after = progress']

FinishError ==
    /\ \E status \in {"failed", "not_dispatched"} : Settle(status, Unpriced)
    /\ Outcome(progress, Stage("failed", NoStep, standing.authorized))
    /\ UNCHANGED resume

Answer ==
    /\ Running
    /\ \E cost \in {MostOf(LastCall), Unpriced} :
         /\ setbacks + (IF cost = Unpriced THEN 1 ELSE 0) <= MaxSetbacks[design]
         /\ Complete(cost)
         /\ setbacks' = setbacks + (IF cost = Unpriced THEN 1 ELSE 0)
    /\ UNCHANGED <<design, grants>>

CallFails ==
    /\ Running
    /\ setbacks < MaxSetbacks[design]
    /\ \/ \E cost \in {MostOf(LastCall), Unpriced} : Invalid(cost) \/ Exhaust(cost)
       \/ LoseAnswer \/ FinishError
    /\ setbacks' = setbacks + 1
    /\ UNCHANGED <<design, grants>>

-----------------------------------------------------------------------------
(* The author.                                                             *)

Unsettled == \E i \in DOMAIN sent : sent[i].status \in {"executing", "outcome_uncertain"}

Start(a) == standing' = Stage("queued", a, TRUE)

AuthorizeStage ==
    /\ standing.status \in {"draft", "paused", "awaiting_plan"} /\ standing.next # NoStep
    /\ ~Unsettled
    /\ Start(standing.next)
    /\ UNCHANGED <<design, progress, sent, grants, resume, setbacks>>

Pause ==
    /\ standing.status = "queued"
    /\ standing' = [standing EXCEPT !.status = "paused"]
    /\ UNCHANGED <<design, progress, sent, grants, resume, setbacks>>

ResolveUnknown ==
    /\ standing.status = "outcome_uncertain"
    /\ sent' = [i \in DOMAIN sent |-> IF sent[i].status = "outcome_uncertain"
                                      THEN [sent[i] EXCEPT !.status = "uncertain_closed"] ELSE sent[i]]
    /\ standing' = Stage("needs_attention", NoStep, FALSE)
    /\ UNCHANGED <<design, progress, grants, resume, setbacks>>

EditStagePlan ==
    /\ standing.status \in {"awaiting_plan", "paused", "needs_attention"}
    /\ progress.plan > 0 /\ progress.handed = progress.written
    /\ <<"write", progress.written + 1>> \notin UsedActions(AllCalls)
    /\ progress.asked \/ progress.held \/ setbacks < MaxSetbacks[design]
    /\ LET w == [progress EXCEPT !.plan = @ + 1, !.planned = design.units, !.asked = FALSE, !.held = FALSE]
           v == IF standing.status = "needs_attention" \/ progress.held
                THEN [w EXCEPT !.compared = @ \cup {w.written}, !.comparedEarly = w.early] ELSE w
       IN  /\ progress' = v
           /\ standing' = [ChooseNext(v) EXCEPT !.status = "awaiting_plan"]
    /\ setbacks' = IF progress.asked \/ progress.held THEN setbacks ELSE setbacks + 1
    /\ UNCHANGED <<design, sent, grants, resume>>

EditCandidate ==
    /\ standing.status \notin {"queued", "running", "outcome_uncertain"} /\ progress.text > 0
    /\ setbacks < MaxSetbacks[design]
    /\ Outcome([Rewritten EXCEPT !.partial = FALSE], Stage("needs_attention", NoStep, standing.authorized))
    /\ setbacks' = setbacks + 1
    /\ UNCHANGED <<design, sent, grants, resume>>

(* input_recovery                                                          *)
InputEligible ==
    /\ standing.status \in {"needs_attention", "awaiting_plan", "paused"} /\ standing.authorized
    /\ progress.plan > 0 /\ ~Amended /\ progress.memory = 0
    /\ sent # <<>> /\ \A i \in DOMAIN sent : sent[i].status = "completed"
    /\ progress.text = 0 \/ standing.next # NoStep

AuthorizeInput(allRoles) ==
    LET s         == EffectiveSpec
        proposed  == IF allRoles THEN WithLimits(2, 2) ELSE [s.limits EXCEPT !.input = 2]
        effective == IF allRoles THEN proposed ELSE [WithLimits(1, 1) EXCEPT !.input = 2]
        action    == IF standing.next = NoStep THEN <<"write", 1>> ELSE standing.next
        remaining == ToSet(SlotsFor(design)) \ UsedActions(AllCalls)
        total     == KnownCost(AllCalls) + EstimateCost(proposed, remaining)
    IN  /\ InputEligible /\ action \in remaining
        /\ proposed # s.limits
        /\ ~progress.asked /\ \A i \in DOMAIN sent : sent[i].cost # Unpriced
        /\ grants' = [grants EXCEPT !.input = <<[limits |-> effective, max |-> Max({s.max, total})]>>]
        /\ progress' = [progress EXCEPT !.input = @ + 1]
        /\ setbacks < MaxSetbacks[design] /\ setbacks' = setbacks + 1
        /\ Start(action)
        /\ UNCHANGED <<design, sent, resume>>

(* memory_recovery                                                         *)
MemoryEligible ==
    /\ standing.status \in {"needs_attention", "paused"} /\ standing.authorized
    /\ progress.memory = 0 /\ ~Unsettled
    /\ Cardinality({i \in ScopedCalls : sent[i].status # "completed"}) = 1
    /\ sent # <<>> /\ LastCall.status = "exhausted" /\ LastCall.output < 2
    /\ LastCall.action[1] = (IF Amended THEN "memory_amend" ELSE "memory")

MemoryBound ==
    /\ ~progress.partial /\ progress.plan > 0 /\ progress.written > 0
    /\ Amended \/ (progress.handed = progress.written - 1 /\ LastCall.action = <<"memory", progress.written>>)
    /\ Bindings(progress) = Bindings(resume.before)

AuthorizeMemory(allRoles) ==
    LET s         == AmendmentSpec(EffectiveSpec)
        limits    == IF allRoles THEN WithLimits(2, 2) ELSE [s.limits EXCEPT !.memory = 2]
        remaining == {LastCall.action} \cup (ToSet(ActiveSlots) \ UsedActions(ScopedCalls))
        total     == KnownCost(ScopedCalls) + EstimateCost(limits, remaining)
    IN  /\ MemoryEligible /\ MemoryBound
        /\ s.limits.memory < 2
        /\ ~progress.asked /\ \A i \in DOMAIN sent : sent[i].cost # Unpriced
        /\ grants' = [grants EXCEPT !.memory =
             <<[action |-> LastCall.action, amending |-> Amended, failed |-> Len(sent),
                slot |-> (IF Amended THEN 300 ELSE 200) + PlaceOf(ActiveSlots, LastCall.action) - 1,
                limits |-> limits, max |-> Max({s.max, total}),
                previousMax |-> s.max, previousInput |-> s.limits.input,
                bindings |-> Bindings(progress)]>>]
        /\ progress' = [progress EXCEPT !.memory = 1]
        /\ Start(LastCall.action)
        /\ UNCHANGED <<design, sent, resume, setbacks>>

(* step_recovery                                                           *)
Failures == {"local_failure", "exhausted", "outcome_uncertain", "uncertain_closed", "failed",
             "not_dispatched"}

StepEligible ==
    /\ standing.status \in {"needs_attention", "failed", "outcome_uncertain", "paused"}
    /\ sent # <<>> /\ LastCall.status \in Failures

Ancestors ==
    LET above[i \in 0..Len(sent)] ==
            IF i = 0 THEN {}
            ELSE IF sent[i].by # "step" THEN {}
            ELSE {sent[i].replaces} \cup above[sent[i].replaces]
    IN  above

Resolved ==
    LET replayed == UNION {Ancestors[i] : i \in {j \in DOMAIN sent : sent[j].status = "completed"}}
        served   == \E i \in DOMAIN sent : sent[i].by = "memory"
                                           /\ (sent[i].status = "completed" \/ i \in replayed)
    IN  replayed \cup (IF served THEN {grants.memory[1].failed} ELSE {})

OthersResolved ==
    \A i \in ScopedCalls \ {Len(sent)} :
        sent[i].status # "completed" => i \in Resolved \cup Ancestors[Len(sent)]

(* The slots a replay still pays for: those listed after the failed one.   *)
UnusedAfter(slots, a) ==
    {slots[i] : i \in (PlaceOf(slots, a) + 1)..Len(slots)} \ UsedActions(AllCalls)

(* What the stage has already cost, or may have.                           *)
CommittedKnown == KnownCost(AllCalls)
Committed      == KnownCost(AllCalls) + Reserve(AllCalls)

AuthorizeStep ==
    LET s     == SpecInForce
        upper == s.limits.input + LastCall.output
                   + EstimateCost(s.limits, UnusedAfter(ActiveSlots, LastCall.action))
        total == Committed + upper
    IN  /\ StepEligible /\ s.ok
        /\ ~(grants.step # <<>> /\ grants.step[1].failed = Len(sent))
        /\ OthersResolved
        /\ progress = resume.after
        /\ LastCall.amending = Amended /\ LastCall.action \in ToSet(ActiveSlots)
        /\ ~progress.asked
        /\ sent' = [sent EXCEPT ![Len(sent)].status = IF @ = "outcome_uncertain" THEN "uncertain_closed" ELSE @]
        /\ grants' = [grants EXCEPT !.step =
             <<[action |-> LastCall.action, amending |-> Amended, failed |-> Len(sent),
                slot |-> Max({400} \cup {sent[i].slot + 1 : i \in DOMAIN sent}),
                restore |-> resume.before, max |-> Max({s.max, total})]>>]
        /\ progress' = resume.before
        /\ Start(LastCall.action)
        /\ UNCHANGED <<design, resume, setbacks>>

(* amendments                                                              *)
PreviewAmendment(edits) ==
    LET limits == WithLimits(1, 1)
        slots  == edits \o << Only("memory_amend") >>
                    \o (IF Wanted(design, "checker") = <<>> THEN <<>> ELSE << Only("checker_amend") >>)
                    \o (IF Wanted(design, "reader") = <<>> THEN <<>> ELSE << Only("reader_amend") >>)
    IN  /\ standing.status \in {"needs_attention", "paused"} /\ progress.amendment = 0
        /\ progress.text > 0 /\ ~progress.partial
        /\ grants' = [grants EXCEPT !.amendment =
             <<[slots |-> slots, limits |-> limits, max |-> EstimateCost(limits, ToSet(slots)),
                text |-> progress.text]>>]
        /\ progress' = [progress EXCEPT !.amendment = 1]
        /\ setbacks < MaxSetbacks[design] /\ setbacks' = setbacks + 1
        /\ UNCHANGED <<design, standing, sent, resume>>

AuthorizeAmendment ==
    /\ progress.amendment = 1 /\ standing.status \in {"needs_attention", "paused"}
    /\ grants.amendment[1].text = progress.text /\ ~Unsettled
    /\ progress' = [progress EXCEPT !.amendment = 2]
    /\ Start(grants.amendment[1].slots[1])
    /\ UNCHANGED <<design, sent, grants, resume, setbacks>>

-----------------------------------------------------------------------------
InitBudget ==
    /\ design \in Designs
    /\ standing = Stage("draft", Only("plan"), FALSE)
    /\ progress = [plan |-> 0, planned |-> 1, written |-> 0, handed |-> 0, text |-> 0, partial |-> FALSE,
               complete |-> FALSE, chapter |-> FALSE, early |-> FALSE, compared |-> {},
               comparedEarly |-> FALSE, asked |-> FALSE, held |-> FALSE,
               input |-> 0, memory |-> 0, amendment |-> 0, others |-> 0]
    /\ sent = <<>>
    /\ grants = [input |-> <<>>, memory |-> <<>>, step |-> <<>>, amendment |-> <<>>]
    /\ resume = <<>>
    /\ setbacks = 0

NextBudget ==
    \/ ClaimSlot \/ InputTooLong \/ Answer \/ CallFails
    \/ AuthorizeStage \/ Pause \/ ResolveUnknown \/ EditStagePlan \/ EditCandidate
    \/ \E allRoles \in BOOLEAN : AuthorizeInput(allRoles) \/ AuthorizeMemory(allRoles)
    \/ AuthorizeStep
    \/ \E edits \in { <<>>, << Only("amend") >> } : PreviewAmendment(edits)
    \/ AuthorizeAmendment

BudgetSpec == InitBudget /\ [][NextBudget]_budgetVars

-----------------------------------------------------------------------------
(* The rows of a stage and of its calls are of their type; only the last   *)
(* call can be in flight.                                                  *)
BudgetTypeOK ==
    /\ design \in Designs
    /\ standing.status \in {"draft", "queued", "running", "paused", "awaiting_plan", "needs_attention",
                         "failed", "outcome_uncertain"}
    /\ standing.next \in {NoStep, <<"chief", 2>>} \cup ToSet(SlotsFor(design)) \cup AmendmentActions
    /\ \A i \in DOMAIN sent :
         /\ sent[i].slot \in Nat /\ sent[i].replaces \in 0..(i - 1)
         /\ sent[i].cost \in {Unpriced, MostOf(sent[i])}
         /\ sent[i].status = "executing" => i = Len(sent) /\ Running
    /\ setbacks \in 0..MaxSetbacks[design]

(* What the calls of the stage, or of its amendment, may have cost.        *)
Exposure == KnownCost(ScopedCalls) + Reserve(ScopedCalls)

(* A step was replayed while a slot listed before it was still unused.     *)
ReplayedEarly ==
    \E i \in DOMAIN sent :
        /\ sent[i].by = "step" /\ ~sent[i].amending
        /\ \E j \in 1..PlaceOf(SlotsFor(design), sent[i].action) :
              SlotsFor(design)[j] \notin UsedActions(1..(i - 1))

Covered == SpecInForce.ok => Exposure <= SpecInForce.max

(* No call is replaced twice, and no action is completed twice.            *)
ReplacedOnce == \A i, j \in DOMAIN sent : i # j /\ sent[i].replaces = sent[j].replaces => sent[i].replaces = 0
CompletedOnce ==
    \A i, j \in DOMAIN sent :
        sent[i].status = "completed" /\ sent[j].status = "completed" /\ sent[i].action = sent[j].action => i = j

(* What a stage or its amendment has cost, and may still be charged for,   *)
(* stays within the budget its author last agreed to, over failures,       *)
(* unreported prices, edits and every combination of the four grants, as   *)
(* long as no step was replayed ahead of its turn; and the grants are used *)
(* once: no call is replaced twice and no action is completed twice        *)
(* (budget.py, input_recovery.py, memory_recovery.py, step_recovery.py,    *)
(* amendments.py).                                                         *)
BudgetHolds == (ReplayedEarly \/ Covered) /\ ReplacedOnce /\ CompletedOnce

(* What the author agreed to covers what a stage may have cost, a replayed *)
(* step included (frontend/src/StepRecovery.tsx, step_recovery.py).        *)
ReplayCovered == Covered
=============================================================================
