---------------------------- MODULE ProviderCall ----------------------------
(***************************************************************************)
(* One paid request: the hooks of the executor around it (generation/      *)
(* runtime.py dispatch), the body that arrives piece by piece while a      *)
(* deadline runs (providers/transport.py), and how each of the three       *)
(* adapters reads it (providers/openai_compatible.py, openai.py,           *)
(* deepseek.py), down to the status and the cost its call is given.        *)
(*                                                                         *)
(* The endpoint is anything that speaks HTTP: it may refuse, stop in the   *)
(* middle of a body, repeat itself or leave out what it should have said.  *)
(* A body is a sequence of events; text is counted, not spelled.           *)
(***************************************************************************)
EXTENDS Naturals, FiniteSets, Sequences, SequencesExt

CONSTANTS
    MaxEvents       \* search bound: events of a body

ASSUME EventsAssumption == MaxEvents \in Nat \ {0}

VARIABLES
    wire,           \* adapter, progress of the request, and what heads the answer
    spoken,         \* the pieces of the body that reached this process
    captured,       \* the pieces in the evidence buffer of the adapter
    raw,            \* response_payload, once there is one
    settled         \* status of the call

callVars == <<wire, spoken, captured, raw, settled>>

Adapters == {"chat", "responses", "deepseek"}

(* What a body can hold: lines of a stream, or pieces of one document.     *)
ChatEvents == {"delta", "stop", "length", "filter", "usage", "refusal", "error", "garbage", "done"}
ResponsesEvents ==
    {"delta", "completed", "completed silent", "refused", "failed", "cut short", "error", "garbage",
     "done"}

Finishes  == {"stop", "length", "filter"}
Documents == [text : BOOLEAN, finish : Finishes \cup {"none"}, usage : BOOLEAN, refusal : BOOLEAN]

Events(w) ==
    IF w.form = "document" \/ w.status # "2xx" THEN {"part"}
    ELSE IF w.adapter = "responses" THEN ResponsesEvents ELSE ChatEvents

-----------------------------------------------------------------------------
(* Receipts.                                                               *)

NoUsage == "none"
Receipt(text, usage, code, seen, finish, status) ==
    [text |-> text, usage |-> usage, code |-> code, seen |-> seen, finish |-> finish, status |-> status]

Raised(text, code)  == Receipt(text, NoUsage, code, FALSE, "none", "none")
Unreadable          == Raised(0, "response_schema_invalid")
Interruption(text, usage) == Receipt(text, usage, "outcome_uncertain", FALSE, "none", "none")

(* An absent usage is read as no tokens.                                   *)
UsageOf(reported) == IF reported THEN "reported" ELSE "zero"

HttpError(status) ==
    Receipt(0, NoUsage, IF status = "5xx" THEN "outcome_uncertain" ELSE "provider_terminal_failure",
            TRUE, "none", status)

(* _model_response of chat completions, and the same of DeepSeek.          *)
ChatAnswer(text, said, finish, usage) ==
    Receipt(text, UsageOf(usage),
            CASE ~said \/ finish = "none" -> "protocol_incomplete"
              [] said /\ finish = "length" -> "token_limit_exceeded"
              [] said /\ finish = "filter" -> "provider_terminal_failure"
              [] OTHER -> "none",
            finish \in Finishes, finish, "none")

-----------------------------------------------------------------------------
(* Streams: the events are read in order until one of them raises.         *)

Reading == [text |-> 0, finish |-> "none", usage |-> FALSE, done |-> FALSE, error |-> "none"]

ReadChat(r, e) ==
    IF r.error # "none" THEN r
    ELSE CASE e = "delta"   -> [r EXCEPT !.text = @ + 1]
           [] e \in Finishes -> [r EXCEPT !.finish = e]
           [] e = "usage"   -> [r EXCEPT !.usage = TRUE]
           [] e = "done"    -> [r EXCEPT !.done = TRUE]
           [] e = "refusal" -> [r EXCEPT !.error = "provider_refusal"]
           [] e = "error"   -> [r EXCEPT !.error = "provider_terminal_failure"]
           [] OTHER         -> [r EXCEPT !.error = "response_schema_invalid"]

Successes == {"completed", "completed silent", "refused"}
BadEnds  == {"failed", "cut short", "error"}

ReadResponses(r, e) ==
    IF r.error # "none" THEN r
    ELSE CASE e = "done" /\ r.finish \in Successes -> [r EXCEPT !.done = TRUE]
           [] e = "delta" /\ ~r.done     -> [r EXCEPT !.text = @ + 1]
           [] e \in Successes /\ ~r.done -> [r EXCEPT !.finish = e, !.usage = e # "completed silent"]
           [] e \in BadEnds /\ ~r.done  ->
                [r EXCEPT !.finish = e, !.error = IF e = "cut short" THEN "token_limit_exceeded"
                                                  ELSE "provider_terminal_failure"]
           [] OTHER -> [r EXCEPT !.error = "response_schema_invalid"]

ReadEvent(adapter, r, e) ==
    IF adapter = "responses" THEN ReadResponses(r, e) ELSE ReadChat(r, e)

ReadStream(adapter, events) ==
    FoldLeft(LAMBDA r, e : ReadEvent(adapter, r, e), Reading, events)

ChatReading(events) == ReadStream("chat", events)

TakenAtItsWord(r) == r.finish # "none"
EndsProperly(r)   == r.finish # "none" /\ r.done

ConsumeChat(events) ==
    LET r == ChatReading(events)
    IN  IF r.error # "none" THEN Raised(r.text, r.error)
        ELSE IF ~EndsProperly(r)
             THEN Receipt(r.text, UsageOf(r.usage), "protocol_incomplete", r.finish # "none", r.finish, "none")
        ELSE ChatAnswer(r.text, TRUE, r.finish, r.usage)

(* Only a usage that was sent counts when the stream was cut off.          *)
InterruptedChat(events) ==
    Interruption(ChatReading(events).text,
                 IF "usage" \in ToSet(events) THEN "reported" ELSE NoUsage)

ConsumeResponses(events) ==
    LET r == ReadStream("responses", events)
        StatusOf == IF r.finish = "cut short" THEN "incomplete"
                    ELSE IF r.finish \in BadEnds THEN r.finish ELSE "completed"
    IN  IF r.finish \in BadEnds
        THEN Receipt(r.text, IF r.finish = "error" THEN NoUsage ELSE "zero", r.error, TRUE, "none", StatusOf)
        ELSE IF r.error # "none" THEN Raised(r.text, r.error)
        ELSE IF ~EndsProperly(r)
             THEN Receipt(r.text, NoUsage, "protocol_incomplete", r.finish # "none", "none", "none")
        ELSE Receipt(r.text, UsageOf(r.usage),
                     IF r.finish = "refused" THEN "provider_refusal"
                     ELSE IF r.text = 0 THEN "protocol_incomplete" ELSE "none",
                     TRUE, "none", StatusOf)

(* One document instead of a stream.                                       *)
ResponsesAnswer(d) ==
    Receipt(IF d.text THEN 1 ELSE 0, UsageOf(d.usage),
            CASE d.finish = "none"   -> "protocol_incomplete"
              [] d.finish = "length" -> "token_limit_exceeded"
              [] d.finish = "filter" -> "provider_terminal_failure"
              [] OTHER -> IF d.refusal THEN "provider_refusal"
                          ELSE IF d.text THEN "none" ELSE "protocol_incomplete",
            d.finish # "none", "none",
            CASE d.finish = "stop" -> "completed" [] d.finish = "length" -> "incomplete"
              [] d.finish = "filter" -> "failed" [] OTHER -> "none")

ReadDocument(adapter, d) ==
    IF adapter = "responses" THEN ResponsesAnswer(d)
    ELSE ChatAnswer(IF d.text THEN 1 ELSE 0, d.text, d.finish, d.usage)

-----------------------------------------------------------------------------
(* The request.                                                            *)

NoRaw == Raised(0, "not saved")

InitCall ==
    /\ wire \in [adapter : Adapters, streams : BOOLEAN, at : {"claimed"}, status : {"none"},
                 form : {"stream", "document"}, received : {FALSE}, document : {"none"}]
    /\ wire.adapter = "responses" => wire.streams
    /\ wire.adapter = "deepseek" => ~wire.streams
    /\ ~wire.streams => wire.form = "document"
    /\ spoken = <<>> /\ captured = <<>> /\ raw = NoRaw /\ settled = "executing"

EndWithout(status) ==
    /\ settled' = status
    /\ wire' = [wire EXCEPT !.at = "over"]
    /\ UNCHANGED <<spoken, captured, raw>>

(* No credential, the process is draining, the profile lost a capability,  *)
(* the request outgrew its capacity or differs from the one it repeats.    *)
NotSent == wire.at = "claimed" /\ EndWithout("not_dispatched")

(* before_send froze the mapped request; then the bytes leave.             *)
FreezeWire ==
    /\ wire.at = "claimed"
    /\ wire' = [wire EXCEPT !.at = "frozen"]
    /\ UNCHANGED <<spoken, captured, raw, settled>>

Transmit ==
    /\ wire.at = "frozen"
    /\ wire' = [wire EXCEPT !.at = "waiting", !.received = TRUE]
    /\ UNCHANGED <<spoken, captured, raw, settled>>

(* The database, the connection, the deadline or the process gives up      *)
(* before the headers are in: nothing can be told apart.                   *)
NoAnswer == wire.at \in {"claimed", "frozen", "waiting"} /\ EndWithout("outcome_uncertain")

Headers(status) ==
    /\ wire.at = "waiting"
    /\ wire' = [wire EXCEPT !.at = "body", !.status = status]
    /\ UNCHANGED <<spoken, captured, raw, settled>>

-----------------------------------------------------------------------------
(* The body.                                                               *)

(* ProgressStream hands a piece on before it writes the progress down, and *)
(* waits for others only while it does that or reads on.                   *)
ReportFirst == <<"reporting", "handing">>
PieceSteps  == <<"handing", "reporting">>
StepAfter(step) == IF step = PieceSteps[1] THEN PieceSteps[2] ELSE "body"

Arrive(e) ==
    /\ wire.at = "body" /\ Len(spoken) < MaxEvents
    /\ e \in Events(wire)
    /\ spoken' = Append(spoken, e)
    /\ wire' = [wire EXCEPT !.at = PieceSteps[1]]
    /\ UNCHANGED <<captured, raw, settled>>

HandOn ==
    /\ wire.at = "handing"
    /\ captured' = Append(captured, Last(spoken))
    /\ wire' = [wire EXCEPT !.at = StepAfter("handing")]
    /\ UNCHANGED <<spoken, raw, settled>>

(* The progress write may fail; it is advisory.                            *)
Reported ==
    /\ wire.at = "reporting"
    /\ wire' = [wire EXCEPT !.at = StepAfter("reporting")]
    /\ UNCHANGED <<spoken, captured, raw, settled>>

Keep(receipt) ==
    /\ raw' = receipt
    /\ wire' = [wire EXCEPT !.at = "answered"]
    /\ UNCHANGED <<spoken, captured, settled>>

InterruptedAnswer ==
    IF wire.adapter = "responses" THEN Interruption(0, NoUsage) ELSE InterruptedChat(captured)

(* The deadline, a shutdown or the network ends the reading half way.      *)
Interrupt ==
    /\ wire.at \in {"body", "reporting"}
    /\ IF wire.streams THEN Keep(InterruptedAnswer) ELSE EndWithout("outcome_uncertain")

(* raise_for_status: DeepSeek keeps nothing of an answer that is an error. *)
EndOfError ==
    /\ wire.at = "body" /\ wire.status # "2xx"
    /\ IF wire.adapter = "deepseek" THEN EndWithout("outcome_uncertain")
       ELSE Keep(HttpError(wire.status))

EndOfStream ==
    /\ wire.at = "body" /\ wire.status = "2xx" /\ wire.form = "stream"
    /\ Keep(IF wire.adapter = "responses" THEN ConsumeResponses(captured) ELSE ConsumeChat(captured))

EndOfDocument(d) ==
    /\ wire.at = "body" /\ wire.status = "2xx" /\ wire.form = "document"
    /\ raw' = ReadDocument(wire.adapter, d)
    /\ wire' = [wire EXCEPT !.at = "answered", !.document = d.finish]
    /\ UNCHANGED <<spoken, captured, settled>>

(* Not UTF-8, not JSON, not an object.                                     *)
EndOfNonsense ==
    /\ wire.at = "body" /\ wire.status = "2xx" /\ wire.form = "document"
    /\ Keep(Unreadable)

-----------------------------------------------------------------------------
(* compile_response: what the saved answer makes of the call. "valid" is   *)
(* the judgement of the parser and of the refusal rules on the text.       *)

IsComplete(r) ==
    /\ r.seen /\ r.code = "none" /\ r.finish # "length"
    /\ r.status \notin {"failed", "incomplete"}

IsUncertain(r) == ~IsComplete(r) /\ (~r.seen \/ r.code = "outcome_uncertain")

Judge(valid) ==
    /\ wire.at = "answered"
    /\ settled' = IF IsComplete(raw) /\ valid THEN "completed"
                  ELSE IF IsUncertain(raw) THEN "outcome_uncertain" ELSE "local_failure"
    /\ wire' = [wire EXCEPT !.at = "over"]
    /\ UNCHANGED <<spoken, captured, raw>>

JudgeEither == \E valid \in BOOLEAN : Judge(valid)

StopCall == wire.at = "over" /\ UNCHANGED callVars

NextCall ==
    \/ NotSent \/ FreezeWire \/ Transmit \/ NoAnswer
    \/ \E status \in {"2xx", "4xx", "5xx"} : Headers(status)
    \/ \E e \in ChatEvents \cup ResponsesEvents \cup {"part"} : Arrive(e)
    \/ HandOn \/ Reported \/ Interrupt \/ EndOfError \/ EndOfStream
    \/ \E d \in Documents : EndOfDocument(d)
    \/ EndOfNonsense \/ JudgeEither \/ StopCall

CallSpec == InitCall /\ [][NextCall]_callVars

-----------------------------------------------------------------------------
(* Types: the body is bounded and a call that is over has its status.      *)
CallTypeOK ==
    /\ Len(spoken) \in 0..MaxEvents /\ Len(captured) <= Len(spoken)
    /\ settled \in {"executing", "not_dispatched", "outcome_uncertain", "local_failure", "completed"}
    /\ (wire.at = "over") <=> (settled # "executing")

Count(e) == Cardinality({i \in DOMAIN spoken : spoken[i] = e})
Said(e)  == \E i \in DOMAIN spoken : spoken[i] = e

SaidSuccess ==
    IF wire.form = "document" THEN wire.document = "stop"
    ELSE /\ Said("done")
         /\ \E e \in (IF wire.adapter = "responses" THEN Successes ELSE {"stop"}) : Said(e)

SaidHowItEnded ==
    \/ wire.status \in {"4xx", "5xx"}
    \/ wire.document \in Finishes
    \/ \E e \in Finishes \cup Successes \cup BadEnds : Said(e)

(* What becomes of the call is what the endpoint said. A call counts as    *)
(* completed only when the endpoint finished its answer and said that it   *)
(* had, and then the text is the whole of it; as failed here, with no      *)
(* doubt left about the money, only when the endpoint said how it ended;   *)
(* as not sent only when the endpoint has received nothing. A saved answer *)
(* was read from every piece that arrived, and one that was cut off by the *)
(* deadline has a price only if the endpoint sent one.                     *)
AnswersAreTrue ==
    /\ settled = "completed" =>
         /\ wire.status = "2xx" /\ SaidSuccess
         /\ wire.form = "stream" => raw.text = Count("delta")
    /\ settled = "local_failure" => SaidHowItEnded
    /\ settled = "not_dispatched" => ~wire.received
    /\ raw # NoRaw =>
         /\ captured = spoken
         /\ (raw.code = "outcome_uncertain" /\ raw.usage # NoUsage) => Said("usage")
=============================================================================
