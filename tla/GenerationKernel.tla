-------------------------- MODULE GenerationKernel --------------------------
(***************************************************************************)
(* The execution kernel of staged generation: GenerationRuntime            *)
(* (generation/runtime.py) together with the commands of GenerationService *)
(* and of the generation routes that share its rows.                       *)
(*                                                                         *)
(* A batch is a creation stage of the one project; it performs the actions *)
(* 1 (the Chief plan), 2, 3, ... Steps in order, each by one paid model    *)
(* call.  A call is a row keyed by <<batch, slot>>: slot k <= Steps is the *)
(* ordinary slot of action k, a slot above Steps replays a failed call.    *)
(* Actions 2, 4, ... write a unit and 3, 5, ... hand it over; in an        *)
(* instance with two steps, action 2 stands for both.                      *)
(*                                                                         *)
(* Database rows live under READ COMMITTED.  A transaction that locks its  *)
(* batch before reading it is one action.  One that reads the row first,   *)
(* unlocked, is two: the read remembers the row in "seen", the commit acts *)
(* on "seen" even when the row has changed, because the session's identity *)
(* map does not refresh a loaded object, and then writes back exactly the  *)
(* columns it changed.                                                     *)
(***************************************************************************)
EXTENDS Naturals, FiniteSets

CONSTANTS
  Batches,    \* stages of the project
  Procs,      \* application processes that may run the kernel
  Requests,   \* revalidation requests one process may serve at a time
  Steps,      \* ordinary actions of a stage
  Slots,      \* ordinary slots plus replacement slots
  Reader,     \* TRUE iff action Steps is an independent cold read
  NoProc,     \* nobody holds the advisory lock
  Faults,     \* kinds of failure that may happen
  MaxFaults,  \* how many failures one behaviour may contain
  MaxEdits    \* how many author edits one stage may receive

FaultKinds == {"crash", "owner", "disk", "db", "drain", "cancel"}

ASSUME ConstantsAssumption ==
  /\ Steps \in Nat /\ Steps >= 2
  /\ Slots \in Nat /\ Slots >= Steps
  /\ Reader \in BOOLEAN
  /\ NoProc \notin Procs
  /\ Faults \subseteq FaultKinds
  /\ MaxFaults \in Nat /\ MaxEdits \in Nat

Actions == 1 .. Steps
SlotIds == 1 .. Slots
Calls   == Batches \X SlotIds

VARIABLES
  batch,             \* generation_batches rows
  call,              \* generation_calls rows
  version,           \* the project's current formal version
  holder,            \* the session that holds the advisory lock
  mode,              \* life of each process
  acquiring,         \* processes inside _acquire_owner, which hold owner_check
  available,         \* GenerationRuntime.available
  tasks,             \* GenerationRuntime.tasks: the run() of each batch
  starts,            \* routes between the commit of an authorization and start()
  pending_starts,    \* GenerationRuntime.pending_starts
  pending_responses, \* in-memory receipts
  journal,           \* durable receipts on the shared response buffer
  requests,          \* revalidation requests being served
  faults,            \* failures so far (bounds the model)
  sent,              \* how often the request of a call went on the wire
  got,               \* the answer a process received for a call
  lost,              \* receipts that died with the only process that had them
  handoffs           \* how often the answer of a call was compiled into its stage

dbVars    == <<batch, call, version>>
procVars  == <<holder, mode, acquiring, available>>
startVars == <<starts, pending_starts>>
memVars   == <<pending_responses, journal>>
ghostVars == <<sent, got, lost, handoffs>>
vars == <<dbVars, procVars, tasks, startVars, memVars, requests, faults, ghostVars>>

-----------------------------------------------------------------------------
(* Rows.                                                                   *)

BatchStatus == {"none", "draft", "queued", "running", "paused", "awaiting_plan",
                "needs_attention", "outcome_uncertain", "failed", "adopted", "archived"}
Terminal == {"adopted", "archived"}

CallStatus == {"none", "executing", "response_saved", "completed", "local_failure",
               "outcome_uncertain", "uncertain_closed", "not_dispatched"}
Failures   == {"local_failure", "outcome_uncertain", "uncertain_closed", "not_dispatched"}

\* What the provider delivered: a usable answer, a complete but unusable one,
\* or a stream that stopped before its terminal event.
Replies == {"good", "bad", "cut"}

\* The candidate: no text yet, one that was cut off, a unit not handed over yet, or a text
\* whose chapters are frozen (freeze_segments), which can be adopted.
Texts == {"none", "partial", "written", "frozen"}

\* The JSON column batch.state, read and written as a whole: the last action whose
\* artifacts it points at, the candidate, the calls already compiled, the superseded
\* receipt, whether the author rewrote the body (which drops the units), the author's
\* edits, and the step-recovery receipt (0 = none).
State == [done : 0 .. Steps, text : Texts, compiled : SUBSET SlotIds, superseded : BOOLEAN,
          rewritten : BOOLEAN, rev : 0 .. MaxEdits,
          failed : 0 .. Slots, replacement : 0 .. Slots]

BatchRow == [status : BatchStatus, authorized : BOOLEAN, pause : BOOLEAN,
             next : 0 .. Steps, base : Nat, state : State]

\* A call keeps its order in the stage ("at") and the checkpoint it was claimed at
\* (resume_checkpoint: the author's edits and the candidate).
CallRow == [status : CallStatus, action : 0 .. Steps, at : 0 .. Slots, rev : 0 .. MaxEdits,
            text : Texts, interrupted : BOOLEAN, response : Replies \cup {"none"}]

NoState == [done |-> 0, text |-> "none", compiled |-> {}, superseded |-> FALSE,
            rewritten |-> FALSE, rev |-> 0, failed |-> 0, replacement |-> 0]
NoBatch == [status |-> "none", authorized |-> FALSE, pause |-> FALSE, next |-> 0,
            base |-> 0, state |-> NoState]
NoCall  == [status |-> "none", action |-> 0, at |-> 0, rev |-> 0, text |-> "none",
            interrupted |-> FALSE, response |-> "none"]

\* Where a run() task stands, the slot it works on, and the row it read unlocked.
TaskPc == {"idle", "loop", "claim", "send", "flight", "journal", "store", "forget", "check",
           "compile", "fail", "fail_write", "refused", "refused_write",
           "unknown", "unknown_write"}
TaskRow == [pc : TaskPc, slot : 0 .. Slots, seen : BatchRow, callStatus : CallStatus]
Idle    == [pc |-> "idle", slot |-> 0, seen |-> NoBatch, callStatus |-> "none"]

RequestRow == [pc : {"idle", "asked", "read"}, target : Calls \cup {<<>>},
               seen : BatchRow, callStatus : CallStatus]
NoRequest  == [pc |-> "idle", target |-> <<>>, seen |-> NoBatch, callStatus |-> "none"]

\* The flush of a row that was read as "seen" and assigned to become "new": only the
\* columns whose value changed are written; "state" is always assigned anew.
Column(stored, seen, new) == IF new # seen THEN new ELSE stored

FlushAllColumns(stored, seen, new) == [new EXCEPT !.base = stored.base]

Flush(stored, seen, new) ==
  [status     |-> Column(stored.status, seen.status, new.status),
   authorized |-> Column(stored.authorized, seen.authorized, new.authorized),
   pause      |-> Column(stored.pause, seen.pause, new.pause),
   next       |-> Column(stored.next, seen.next, new.next),
   base       |-> stored.base,
   state      |-> new.state]

ClaimedSlots(b)   == {k \in SlotIds : call[<<b, k>>].status # "none"}
HasCall(b, S)     == \E k \in SlotIds : call[<<b, k>>].status \in S
ProjectHas(S)     == \E b \in Batches : HasCall(b, S)
Fault(kind)       == kind \in Faults /\ faults < MaxFaults /\ faults' = faults + 1
Serving(p)        == mode[p] = "up"
CheckOwner(p)     == available[p] /\ holder = p
LiveTask(p, b)    == tasks[p][b].pc # "idle"
At(p, b, pc)      == tasks[p][b].pc = pc
Goto(p, b, pc)    == tasks' = [tasks EXCEPT ![p][b].pc = pc]
CallOf(p, b)      == <<b, tasks[p][b].slot>>
LiveTasks(p)      == \E b \in Batches : LiveTask(p, b)
CurrentUnchecked(row) == TRUE
Current(row)      == row.base = version

-----------------------------------------------------------------------------
(* The commands of the author.  Each is one transaction under the locks of *)
(* the project row and then the batch row.  A request is admitted while    *)
(* the executor is available, and may commit after it no longer is.        *)

\* GenerationRuntime.start, once the route's commit has returned: a task for the batch, or
\* a remembered request for one; nothing while the process drains.
StartRunForgetsRequest(p, b) ==
  /\ tasks' = [tasks EXCEPT ![p][b] = IF LiveTask(p, b) THEN @ ELSE [Idle EXCEPT !.pc = "loop"]]
  /\ UNCHANGED pending_starts

StartRun(p, b) ==
  IF mode[p] # "up" THEN UNCHANGED <<tasks, pending_starts>>
  ELSE IF LiveTask(p, b)
  THEN /\ pending_starts' = [pending_starts EXCEPT ![p] = @ \cup {b}]
       /\ UNCHANGED tasks
  ELSE /\ tasks' = [tasks EXCEPT ![p][b] = [Idle EXCEPT !.pc = "loop"]]
       /\ UNCHANGED pending_starts

Start(p, b) ==
  /\ b \in starts[p]
  /\ starts' = [starts EXCEPT ![p] = @ \ {b}]
  /\ \/ StartRun(p, b) /\ UNCHANGED faults
     \/ \* the commit succeeded but its acknowledgement is lost: the route fails
        Fault("db") /\ UNCHANGED <<tasks, pending_starts>>
  /\ UNCHANGED <<dbVars, procVars, memVars, requests, ghostVars>>

\* require_idle: no call of the project is executing, nor saved and waiting to be compiled
\* in a stage that is still open.
RequireIdle ==
  /\ ~ProjectHas({"executing"})
  /\ \A b \in Batches : HasCall(b, {"response_saved"}) => batch[b].status \in Terminal

Superseded(row) ==
  [row EXCEPT !.status = "archived", !.next = 0, !.authorized = FALSE, !.pause = TRUE,
              !.state.superseded = TRUE]

NewBatch == [NoBatch EXCEPT !.status = "draft", !.next = 1, !.base = version]

\* create, with or without replace_previous.
Create(p, b, replace) ==
  /\ Serving(p)
  /\ batch[b].status = "none"
  /\ replace => RequireIdle
  /\ batch' = [x \in Batches |->
                 IF x = b THEN NewBatch
                 ELSE IF replace /\ batch[x].status \notin Terminal \cup {"none"}
                      THEN Superseded(batch[x]) ELSE batch[x]]
  /\ UNCHANGED <<call, version, procVars, tasks, startVars, memVars, requests, faults,
                 ghostVars>>

\* dispatch_blockers: an executing call anywhere in the project, or an unknown one outside
\* a superseded stage.
DispatchBlocked(calls) ==
  \E b \in Batches, k \in SlotIds :
    \/ calls[<<b, k>>].status = "executing"
    \/ /\ calls[<<b, k>>].status = "outcome_uncertain"
       /\ ~(batch[b].status = "archived" /\ batch[b].state.superseded)

\* GenerationService.authorize, given the rows its caller has prepared in the transaction.
Authorized(p, b, row, calls) ==
  /\ Current(row)
  /\ row.status \in {"draft", "paused", "awaiting_plan"}
  /\ row.next # 0
  /\ ~DispatchBlocked(calls)
  /\ \A x \in Batches \ {b} : batch[x].status \notin {"queued", "running"}
  /\ batch' = [batch EXCEPT ![b] =
                 [row EXCEPT !.authorized = TRUE, !.pause = FALSE, !.status = "queued"]]
  /\ call' = calls
  /\ starts' = [starts EXCEPT ![p] = @ \cup {b}]
  /\ UNCHANGED <<tasks, pending_starts>>

\* The authorize and continue-stage routes.
Authorize(p, b) ==
  /\ Serving(p)
  /\ Authorized(p, b, batch[b], call)
  /\ UNCHANGED <<version, procVars, memVars, requests, faults, ghostVars>>

\* Pause asks for a stop after the step in flight; a stage still queued stops at once.
Pause(p, b) ==
  /\ Serving(p)
  /\ batch[b].status \in {"queued", "running"}
  /\ batch' = [batch EXCEPT ![b].pause = TRUE,
                            ![b].status = IF @ = "queued" THEN "paused" ELSE @]
  /\ UNCHANGED <<call, version, procVars, tasks, startVars, memVars, requests, faults,
                 ghostVars>>

\* input_recovery: after a refused input every call so far is complete, so the unused
\* action may be authorized again with larger limits.
AuthorizeInput(p, b) ==
  LET row == batch[b] IN
  /\ Serving(p)
  /\ row.status \in {"needs_attention", "awaiting_plan", "paused"}
  /\ row.authorized
  /\ row.state.done >= 1
  /\ HasCall(b, {"completed"})
  /\ ~HasCall(b, CallStatus \ {"none", "completed"})
  /\ row.state.text # "none" => row.next # 0
  /\ LET action == IF row.next = 0 THEN 2 ELSE row.next IN
     /\ \A k \in SlotIds : call[<<b, k>>].action # action
     /\ Authorized(p, b, [row EXCEPT !.status = "awaiting_plan", !.next = action], call)
  /\ UNCHANGED <<version, procVars, memVars, requests, faults, ghostVars>>

IsOldestFailure(b, k) ==
  /\ call[<<b, k>>].status \in Failures
  /\ \A j \in ClaimedSlots(b) : call[<<b, j>>].status \in Failures =>
                                 call[<<b, k>>].at <= call[<<b, j>>].at

IsLast(b, k) == \A j \in ClaimedSlots(b) : call[<<b, j>>].at <= call[<<b, k>>].at

\* Calls that a later call of the same action retried (the ancestors of its chain).
Resolved(b, j) ==
  \E k \in ClaimedSlots(b) :
    /\ call[<<b, k>>].action = call[<<b, j>>].action
    /\ call[<<b, k>>].at > call[<<b, j>>].at
    /\ IsLast(b, k) \/ call[<<b, k>>].status = "completed"

FreeReplacement(b) ==
  {k \in Steps + 1 .. Slots : \A j \in ClaimedSlots(b) : j < k}

\* step_recovery.authorize_step: the last call failed; its author closes it, restores the
\* checkpoint it was claimed at and authorizes exactly one replay in a new slot.
AuthorizeStep(p, b) ==
  /\ Serving(p)
  /\ batch[b].status \in {"needs_attention", "failed", "outcome_uncertain", "paused"}
  /\ ~HasCall(b, {"executing", "response_saved"})
  /\ \E f \in ClaimedSlots(b), k \in FreeReplacement(b) :
       /\ IsLast(b, f)
       /\ call[<<b, f>>].status \in Failures
       /\ batch[b].state.failed # f
       /\ \A j \in ClaimedSlots(b) \ {f} : call[<<b, j>>].status = "completed" \/ Resolved(b, j)
       /\ batch[b].state.rev = call[<<b, f>>].rev
       /\ \A j \in FreeReplacement(b) : k <= j
       /\ Authorized(p, b,
            [batch[b] EXCEPT !.status = "awaiting_plan", !.next = call[<<b, f>>].action,
                             !.state.text = call[<<b, f>>].text,
                             !.state.failed = f, !.state.replacement = k],
            IF call[<<b, f>>].status = "outcome_uncertain"
            THEN [call EXCEPT ![<<b, f>>].status = "uncertain_closed"] ELSE call)
  /\ UNCHANGED <<version, procVars, memVars, requests, faults, ghostVars>>

\* resolve_unknown: the author closes every unknown call of a stage that waits for it.
ResolveUnknown(p, b) ==
  /\ Serving(p)
  /\ batch[b].status = "outcome_uncertain"
  /\ ~HasCall(b, {"executing"})
  /\ call' = [c \in Calls |->
                IF c[1] = b /\ call[c].status = "outcome_uncertain"
                THEN [call[c] EXCEPT !.status = "uncertain_closed"] ELSE call[c]]
  /\ batch' = [batch EXCEPT ![b].status = "needs_attention", ![b].next = 0,
                            ![b].authorized = FALSE]
  /\ UNCHANGED <<version, procVars, tasks, startVars, memVars, requests, faults,
                 ghostVars>>

\* choose_next: the action that follows a finished one, none after the last.
NextActionUnbounded(a) == a + 1

NextAction(a) == IF a < Steps THEN a + 1 ELSE 0

\* ... after an edit: the one that follows the finished ones.
FollowingSkipsOne(row) == NextAction(row.state.done + 1)

Following(row) == NextAction(row.state.done)

\* edit_stage_plan: a new plan before the next unit is claimed.  Every written
\* unit must have its handoff.
EditPlan(p, b) ==
  LET row == batch[b]
      following == Following(row)
  IN
  /\ Serving(p)
  /\ Current(row)
  /\ row.status \in {"awaiting_plan", "paused", "needs_attention"}
  /\ row.state.done % 2 = 1 /\ ~row.state.rewritten
  /\ \A k \in ClaimedSlots(b) : call[<<b, k>>].action # following
  /\ \A k \in ClaimedSlots(b) : call[<<b, k>>].status = "completed" \/ Resolved(b, k)
  /\ row.state.rev < MaxEdits
  /\ batch' = [batch EXCEPT ![b] =
                 [row EXCEPT !.status = "awaiting_plan", !.next = following,
                             !.state.rev = @ + 1]]
  /\ UNCHANGED <<call, version, procVars, tasks, startVars, memVars, requests, faults,
                 ghostVars>>

\* edit_candidate: the author rewrites the body of a stage at rest, or completes one that
\* was cut off.
EditCandidate(p, b) ==
  /\ Serving(p)
  /\ batch[b].status \notin Terminal \cup {"none", "queued", "running", "outcome_uncertain"}
  /\ batch[b].state.text # "none"
  /\ batch[b].state.rev < MaxEdits
  /\ batch' = [batch EXCEPT ![b].status = "needs_attention", ![b].next = 0,
                            ![b].state.text = "frozen",
                            ![b].state.rewritten = TRUE, ![b].state.rev = @ + 1]
  /\ UNCHANGED <<call, version, procVars, tasks, startVars, memVars, requests, faults,
                 ghostVars>>

\* invalidate_generation refuses while the project has a call in flight or unknown, in
\* whatever stage it is.
FormalChangeBlockedByUnknown == ProjectHas({"outcome_uncertain"})
FormalChangeBlocked == ProjectHas({"executing", "outcome_uncertain"})

\* adopt: the stage's chapters become the formal version, every other open stage archived.
Adopt(p, b) ==
  /\ Serving(p)
  /\ Current(batch[b])
  /\ batch[b].status \in {"needs_attention", "paused", "failed"}
  /\ batch[b].state.text = "frozen"
  /\ ~FormalChangeBlocked
  /\ version' = version + 1
  /\ batch' = [x \in Batches |->
                 IF x = b THEN [batch[x] EXCEPT !.status = "adopted", !.next = 0]
                 ELSE IF batch[x].status \in Terminal \cup {"none"} THEN batch[x]
                 ELSE [batch[x] EXCEPT !.status = "archived", !.authorized = FALSE,
                                       !.next = 0]]
  /\ UNCHANGED <<call, procVars, tasks, startVars, memVars, requests, faults, ghostVars>>

-----------------------------------------------------------------------------
(* The advisory lock, start-up, shutdown and reconciliation.               *)

\* reconcile: every call still executing is unknown, every active stage waits paused.
ReconciledIfExecuting(b) ==
  IF batch[b].status \in Terminal \/ ~HasCall(b, {"executing"}) THEN batch[b]
  ELSE [batch[b] EXCEPT !.status = "outcome_uncertain", !.pause = TRUE]

Reconciled(b) ==
  LET row == batch[b] IN
  IF \/ row.status \in Terminal
     \/ row.status \notin {"queued", "running"} /\ ~HasCall(b, {"executing"})
  THEN row
  ELSE [row EXCEPT !.status = IF HasCall(b, {"executing"}) THEN "outcome_uncertain"
                              ELSE "paused",
                   !.pause = TRUE]

ReconcileStagesOnly ==
  /\ batch' = [b \in Batches |-> Reconciled(b)]
  /\ UNCHANGED call

Reconcile ==
  /\ batch' = [b \in Batches |-> Reconciled(b)]
  /\ call' = [c \in Calls |->
                IF call[c].status = "executing"
                THEN [call[c] EXCEPT !.status = "outcome_uncertain", !.interrupted = TRUE]
                ELSE call[c]]

Boot(p) ==
  /\ mode[p] = "down"
  /\ mode' = [mode EXCEPT ![p] = "starting"]
  /\ UNCHANGED <<dbVars, holder, acquiring, available, tasks, startVars, memVars, requests,
                 faults, ghostVars>>

\* maintain_once without ownership: once no task of this process is running, drop the old
\* connection and take the lock if it is free.
AcquireOwner(p) ==
  /\ mode[p] \in {"starting", "up"} /\ ~acquiring[p] /\ ~CheckOwner(p) /\ ~LiveTasks(p)
  /\ holder \in {NoProc, p}
  /\ holder' = p
  /\ acquiring' = [acquiring EXCEPT ![p] = TRUE]
  /\ available' = [available EXCEPT ![p] = FALSE]
  /\ UNCHANGED <<dbVars, mode, tasks, startVars, memVars, requests, faults, ghostVars>>

\* ... then reconcile in a session of its own, and open for service.  The lock is not asked
\* for again: its connection may have broken meanwhile.
OpenService(p) ==
  /\ acquiring[p]
  /\ acquiring' = [acquiring EXCEPT ![p] = FALSE]
  /\ \/ /\ Reconcile
        /\ available' = [available EXCEPT ![p] = TRUE]
        /\ mode' = [mode EXCEPT ![p] = "up"]
        /\ UNCHANGED <<holder, faults>>
     \/ /\ Fault("db")
        /\ holder' = IF holder = p THEN NoProc ELSE holder
        /\ UNCHANGED <<batch, call, available, mode>>
  /\ UNCHANGED <<version, tasks, startVars, memVars, requests, ghostVars>>

\* check_owner, from a readiness probe or the maintenance tick, finds the lock gone.
DiscardOwner(p) ==
  /\ available[p] /\ holder # p
  /\ available' = [available EXCEPT ![p] = FALSE]
  /\ UNCHANGED <<dbVars, holder, mode, acquiring, tasks, startVars, memVars, requests, faults,
                 ghostVars>>

\* The connection that holds the session-level lock breaks.
LoseOwner(p) ==
  /\ holder = p
  /\ Fault("owner")
  /\ holder' = NoProc
  /\ UNCHANGED <<dbVars, mode, acquiring, available, tasks, startVars, memVars, requests,
                 ghostVars>>

\* What ends with a process: its tasks, its requests and the receipts it only remembers.
Gone(p) ==
  /\ mode' = [mode EXCEPT ![p] = "down"]
  /\ acquiring' = [acquiring EXCEPT ![p] = FALSE]
  /\ available' = [available EXCEPT ![p] = FALSE]
  /\ holder' = IF holder = p THEN NoProc ELSE holder
  /\ tasks' = [tasks EXCEPT ![p] = [b \in Batches |-> Idle]]
  /\ starts' = [starts EXCEPT ![p] = {}]
  /\ pending_starts' = [pending_starts EXCEPT ![p] = {}]
  /\ requests' = [requests EXCEPT ![p] = [r \in Requests |-> NoRequest]]
  /\ pending_responses' = [pending_responses EXCEPT ![p] = {}]
  /\ lost' = lost \cup {c \in pending_responses[p] : c \notin journal}
  /\ UNCHANGED <<journal, version, sent, got, handoffs>>

Crash(p) ==
  /\ mode[p] # "down"
  /\ Fault("crash")
  /\ Gone(p)
  /\ UNCHANGED <<batch, call>>

\* close: stop claiming, forget requested starts, cancel the maintenance loop, let the tasks
\* finish what they hold.
Drain(p) ==
  /\ mode[p] \in {"starting", "up"}
  /\ Fault("drain")
  /\ mode' = [mode EXCEPT ![p] = "draining"]
  /\ pending_starts' = [pending_starts EXCEPT ![p] = {}]
  /\ acquiring' = [acquiring EXCEPT ![p] = FALSE]
  /\ UNCHANGED <<dbVars, holder, available, starts, tasks, memVars, requests, ghostVars>>

\* The grace period ends first: the remaining tasks are cancelled where they stand.
CancelPcFailsLocally(pc) == IF pc \in {"fail", "fail_write"} THEN "idle" ELSE "fail"

CancelPc(pc) ==
  CASE pc \in {"send", "flight"}                          -> "unknown"
    [] pc \in {"fail", "fail_write"}                      -> "idle"
    [] OTHER                                              -> "fail"

Cancel(p, b) ==
  LET pc == CancelPc(tasks[p][b].pc) IN
  /\ mode[p] = "draining" /\ LiveTask(p, b)
  /\ Fault("cancel")
  /\ IF pc = "idle" THEN tasks' = [tasks EXCEPT ![p][b] = Idle] ELSE Goto(p, b, pc)
  /\ \* a journal write already handed to a thread still completes
     \/ UNCHANGED journal
     \/ tasks[p][b].pc = "journal" /\ journal' = journal \cup {<<b, tasks[p][b].slot>>}
  /\ UNCHANGED <<dbVars, procVars, startVars, pending_responses, requests, ghostVars>>

\* close, once the tasks are done: reconcile while still the owner, then exit.
Close(p) ==
  /\ mode[p] = "draining" /\ ~LiveTasks(p)
  /\ IF CheckOwner(p) THEN Reconcile ELSE UNCHANGED <<batch, call>>
  /\ Gone(p)
  /\ UNCHANGED faults

-----------------------------------------------------------------------------
(* One run() task: claim, dispatch, receive, store, compile, and again.    *)

\* The task ends; a start requested meanwhile begins a new one.
EndTask(p, b) ==
  /\ tasks' = [tasks EXCEPT ![p][b] =
                 IF b \in pending_starts[p] THEN [Idle EXCEPT !.pc = "loop"] ELSE Idle]
  /\ pending_starts' = [pending_starts EXCEPT ![p] = @ \ {b}]

\* The head of the loop: leave when draining, and claim only as the owner.  The claim's
\* first query reads the batch row without a lock.
ClaimRead(p, b) ==
  /\ At(p, b, "loop") /\ ~acquiring[p]
  /\ IF mode[p] = "draining"
     THEN EndTask(p, b) /\ UNCHANGED available
     ELSE IF CheckOwner(p)
     THEN /\ tasks' = [tasks EXCEPT ![p][b].pc = "claim", ![p][b].seen = batch[b]]
          /\ UNCHANGED <<startVars, available>>
     ELSE /\ Goto(p, b, "fail")
          /\ available' = [available EXCEPT ![p] = FALSE]
          /\ UNCHANGED pending_starts
  /\ UNCHANGED <<dbVars, holder, mode, acquiring, starts, memVars, requests, faults, ghostVars>>

\* Whether the row allows a dispatch (the guards after the lock, which see the old row).
MayClaim(row) == row.status \in {"queued", "running"} /\ row.authorized /\ row.next # 0

\* pending_replay: the claimed action is the one a step recovery restored.
Replays(b, row) == row.state.failed # 0 /\ call[<<b, row.state.failed>>].action = row.next
NextFreeSlot(b, row) == CHOOSE k \in SlotIds \cup {Slots + 1} :
                          /\ k \notin ClaimedSlots(b)
                          /\ \A j \in SlotIds \ ClaimedSlots(b) : k <= j
SlotFor(b, row) == IF Replays(b, row) THEN row.state.replacement ELSE row.next

\* The one-time slot is unused and a replay still finds its checkpoint.
SlotOpen(b, row) ==
  /\ call[<<b, SlotFor(b, row)>>].status = "none"
  /\ Replays(b, row) => call[<<b, row.state.failed>>].rev = row.state.rev

\* claim returns nothing: the stage does not run any more, or was asked to pause.
ClaimNothing(p, b) ==
  LET seen == tasks[p][b].seen IN
  /\ At(p, b, "claim")
  /\ \/ /\ mode[p] = "draining" \/ ~MayClaim(seen)
        /\ UNCHANGED batch
     \/ /\ mode[p] # "draining" /\ MayClaim(seen) /\ seen.pause
        /\ batch' = [batch EXCEPT ![b].status = Column(@, seen.status, "paused")]
  /\ EndTask(p, b)
  /\ UNCHANGED <<call, version, procVars, starts, memVars, requests, faults, ghostVars>>

Claiming(p, b) ==
  LET seen == tasks[p][b].seen IN
  /\ At(p, b, "claim") /\ mode[p] # "draining"
  /\ MayClaim(seen) /\ ~seen.pause

\* claim raises and rolls back: another formal version, a slot already used, a changed
\* checkpoint, or any other refusal of the data (profile, contract, artifacts).
ClaimRefused(p, b) ==
  /\ Claiming(p, b)
  /\ Goto(p, b, "fail")
  /\ UNCHANGED <<dbVars, procVars, startVars, memVars, requests, faults, ghostVars>>

\* claim finds the input too large: nothing is claimed, the unused action stays next.
ClaimTooLarge(p, b) ==
  LET seen == tasks[p][b].seen IN
  /\ Claiming(p, b) /\ Current(seen) /\ SlotOpen(b, seen) /\ ~Replays(b, seen)
  /\ batch' = [batch EXCEPT ![b] =
                 Flush(@, seen, [seen EXCEPT !.status = "needs_attention"])]
  /\ EndTask(p, b)
  /\ UNCHANGED <<call, version, procVars, starts, memVars, requests, faults, ghostVars>>

\* claim commits: the call row exists, executing, before anything is sent.
Claim(p, b) ==
  LET seen == tasks[p][b].seen
      slot == SlotFor(b, seen)
  IN
  /\ Claiming(p, b) /\ Current(seen) /\ SlotOpen(b, seen)
  /\ call' = [call EXCEPT ![<<b, slot>>] =
                [NoCall EXCEPT !.status = "executing", !.action = seen.next,
                               !.at = Cardinality(ClaimedSlots(b)) + 1, !.rev = seen.state.rev,
                               !.text = seen.state.text]]
  /\ batch' = [batch EXCEPT ![b] = Flush(@, seen, [seen EXCEPT !.status = "running"])]
  /\ tasks' = [tasks EXCEPT ![p][b] = [Idle EXCEPT !.pc = "send", !.slot = slot]]
  /\ UNCHANGED <<version, procVars, startVars, memVars, requests, faults, ghostVars>>

\* Nothing is sent: draining, no credential, or before_send refuses capacity or replay.
SendRefused(p, b) ==
  /\ At(p, b, "send")
  /\ Goto(p, b, "refused")
  /\ UNCHANGED <<dbVars, procVars, startVars, memVars, requests, faults, ghostVars>>

\* before_send freezes the wire body and the paid request leaves.
Send(p, b) ==
  /\ At(p, b, "send") /\ mode[p] = "up"
  /\ sent' = [sent EXCEPT ![CallOf(p, b)] = @ + 1]
  /\ Goto(p, b, "flight")
  /\ UNCHANGED <<dbVars, procVars, startVars, memVars, requests, faults, got, lost,
                 handoffs>>

\* The provider answered, or failed in a way that is itself a response.
Receive(p, b, reply) ==
  /\ At(p, b, "flight")
  /\ got' = [got EXCEPT ![CallOf(p, b)] = reply]
  /\ pending_responses' = [pending_responses EXCEPT ![p] = @ \cup {CallOf(p, b)}]
  /\ Goto(p, b, "journal")
  /\ UNCHANGED <<dbVars, procVars, startVars, journal, requests, faults, sent, lost,
                 handoffs>>

\* The deadline passes or the transport breaks: the outcome is unknown.
NoAnswerRetries(p, b) ==
  /\ At(p, b, "flight")
  /\ Goto(p, b, IF mode[p] = "up" THEN "send" ELSE "unknown")
  /\ UNCHANGED <<dbVars, procVars, startVars, memVars, requests, faults, ghostVars>>

NoAnswer(p, b) ==
  /\ At(p, b, "flight")
  /\ Goto(p, b, "unknown")
  /\ UNCHANGED <<dbVars, procVars, startVars, memVars, requests, faults, ghostVars>>

\* ResponseJournal.save, whose failure is tolerated while the database still works.
SaveJournal(p, b) ==
  /\ At(p, b, "journal")
  /\ \/ journal' = journal \cup {CallOf(p, b)} /\ UNCHANGED faults
     \/ Fault("disk") /\ UNCHANGED journal
  /\ Goto(p, b, "store")
  /\ UNCHANGED <<dbVars, procVars, startVars, pending_responses, requests, ghostVars>>

\* validate_response_binding: the same response is already there, or the call still waits
\* for one (executing, or unknown only because a process was interrupted).
BindsClosedCall(c) ==
  \/ call[c].response # "none" /\ call[c].response = got[c]
  \/ call[c].response = "none" /\ call[c].status \in {"executing", "uncertain_closed"}

BindsExecutingOnly(c) == call[c].status = "executing"

Bindable(c) ==
  \/ call[c].response # "none" /\ call[c].response = got[c]
  \/ /\ call[c].response = "none"
     /\ \/ call[c].status = "executing"
        \/ call[c].status = "outcome_uncertain" /\ call[c].interrupted

\* persist_response, under the batch row's lock; idempotent.
PersistUnlessUnknown(c) ==
  call' = IF call[c].response # "none" \/ call[c].status = "outcome_uncertain" THEN call
          ELSE [call EXCEPT ![c].response = got[c], ![c].status = "response_saved"]

Persist(c) ==
  call' = IF call[c].response # "none" THEN call
          ELSE [call EXCEPT ![c].response = got[c], ![c].status = "response_saved"]

\* The task stores its receipt.  A rejected binding or a database that stays away for all
\* three attempts ends the task; so does one that committed but never acknowledged.
Store(p, b) ==
  LET c == CallOf(p, b) IN
  /\ At(p, b, "store")
  /\ \/ Bindable(c) /\ Persist(c) /\ Goto(p, b, "forget") /\ UNCHANGED faults
     \/ ~Bindable(c) /\ Goto(p, b, "fail") /\ UNCHANGED <<call, faults>>
     \/ Fault("db") /\ Goto(p, b, "fail") /\ UNCHANGED call
     \/ Fault("db") /\ Bindable(c) /\ Persist(c) /\ Goto(p, b, "fail")
  /\ UNCHANGED <<batch, version, procVars, startVars, memVars, requests, ghostVars>>

\* forget_response drops both copies; a file that cannot be removed stays.
ForgetResponse(p, c) ==
  /\ pending_responses' = [pending_responses EXCEPT ![p] = @ \ {c}]
  /\ \/ journal' = journal \ {c} /\ UNCHANGED faults
     \/ c \in journal /\ Fault("disk") /\ UNCHANGED journal

Forget(p, b) ==
  /\ At(p, b, "forget")
  /\ ForgetResponse(p, CallOf(p, b))
  /\ Goto(p, b, "check")
  /\ UNCHANGED <<dbVars, procVars, startVars, requests, ghostVars>>

\* Only the owner compiles; compile_response first reads call and batch without a lock.
CompileRead(p, b) ==
  /\ At(p, b, "check") /\ ~acquiring[p]
  /\ IF CheckOwner(p)
     THEN /\ tasks' = [tasks EXCEPT ![p][b].pc = "compile", ![p][b].seen = batch[b],
                                    ![p][b].callStatus = call[CallOf(p, b)].status]
          /\ UNCHANGED available
     ELSE /\ Goto(p, b, "fail")
          /\ available' = [available EXCEPT ![p] = FALSE]
  /\ UNCHANGED <<dbVars, holder, mode, acquiring, startVars, memVars, requests, faults,
                 ghostVars>>

\* compile_response has nothing to do, judged by the rows it read.
NothingToCompile(c, seen, callStatus) ==
  seen.status \in Terminal \/ c[2] \in seen.state.compiled \/ callStatus = "completed"

\* What the interpretation of call c's answer makes of its stage's row and of its own
\* status: the stage advances (a plan may wait for its author), it needs attention, the
\* failed report is skipped for the independent cold read, or the result stays unknown.
After(a) == CASE a = Steps -> {"needs_attention"}
              [] a = 1 /\ a # Steps -> {"queued", "awaiting_plan"}
              [] OTHER -> {"queued"}

UsableIfComplete(c, row) == got[c] # "cut"
Usable(c, row)   == got[c] = "good" /\ call[c].rev = row.state.rev
Skippable(c, row) ==
  LET a == call[c].action IN
  /\ Reader /\ row.authorized /\ 2 < a /\ a < Steps /\ c[2] <= Steps
  /\ call[c].rev = row.state.rev
  /\ call[<<c[1], Steps>>].status = "none"

\* The candidate after a usable answer, and after one that was cut off or is otherwise
\* unusable: a writer's visible text is kept, unless its sources changed meanwhile.
Writes(a) == a % 2 = 0 /\ ~(Reader /\ a = Steps)

TextAfter(a, text) == IF a = 1 THEN text
                      ELSE IF Writes(a) /\ a < Steps THEN "written" ELSE "frozen"

Remains(c, row) ==
  {row} \cup IF Writes(call[c].action) /\ call[c].rev = row.state.rev
             THEN {[row EXCEPT !.state.text = "partial"]} ELSE {}

Outcomes(c, row) ==
  LET a == call[c].action IN
  IF got[c] = "cut"
  THEN {[status |-> "outcome_uncertain",
         row |-> [left EXCEPT !.status = "outcome_uncertain", !.next = 0]] :
         left \in Remains(c, row)}
  ELSE IF Usable(c, row)
  THEN {[status |-> "completed",
         row |-> [row EXCEPT !.status = st, !.next = NextAction(a),
                             !.state.done = a, !.state.text = TextAfter(a, @)]] : st \in After(a)}
  ELSE {[status |-> "local_failure", row |-> new] :
         new \in {[left EXCEPT !.status = "needs_attention", !.next = 0] :
                    left \in Remains(c, row)}
                 \cup (IF Skippable(c, row)
                       THEN {[row EXCEPT !.status = "queued", !.next = Steps]} ELSE {})}

Honoured(row) ==
  IF row.pause /\ row.status = "queued" THEN [row EXCEPT !.status = "paused"] ELSE row

\* The commit of compile_response: interpret by the rows read, honour a requested pause,
\* flush the changed columns.
CompileResponse(c, seen, callStatus) ==
  IF NothingToCompile(c, seen, callStatus)
  THEN UNCHANGED <<batch, call, handoffs>>
  ELSE \E o \in Outcomes(c, [seen EXCEPT !.state.compiled = @ \cup {c[2]}]) :
         /\ batch' = [batch EXCEPT ![c[1]] = Flush(@, seen, Honoured(o.row))]
         /\ call' = [call EXCEPT ![c].status = Column(@, callStatus, o.status),
                                 ![c].interrupted = FALSE]
         /\ handoffs' = [handoffs EXCEPT ![c] = IF o.status = "completed" THEN @ + 1 ELSE @]

Compile(p, b) ==
  LET t == tasks[p][b] IN
  /\ At(p, b, "compile")
  /\ CompileResponse(CallOf(p, b), t.seen, t.callStatus)
  /\ tasks' = [tasks EXCEPT ![p][b] = [Idle EXCEPT !.pc = "loop"]]
  /\ UNCHANGED <<version, procVars, startVars, memVars, requests, faults, sent, got, lost>>

\* An unexpected exception rolls the compilation back; the response stays saved.
CompileRaises(p, b) ==
  /\ At(p, b, "compile")
  /\ Fault("db")
  /\ Goto(p, b, "fail")
  /\ UNCHANGED <<dbVars, procVars, startVars, memVars, requests, ghostVars>>

\* local_failure reads and then writes the row, without any lock; when even that fails the
\* executor withdraws.
FailRead(p, b) ==
  /\ At(p, b, "fail")
  /\ tasks' = [tasks EXCEPT ![p][b] = [Idle EXCEPT !.pc = "fail_write", !.seen = batch[b]]]
  /\ UNCHANGED <<dbVars, procVars, startVars, memVars, requests, faults, ghostVars>>

NeedsAttentionResetsState(stored, seen) ==
  IF seen.status \in Terminal THEN stored
  ELSE Flush(stored, seen, [seen EXCEPT !.status = "needs_attention", !.next = 0,
                                        !.state = NoState])

NeedsAttention(stored, seen) ==
  IF seen.status \in Terminal THEN stored
  ELSE Flush(stored, seen, [seen EXCEPT !.status = "needs_attention", !.next = 0])

FailWrite(p, b) ==
  /\ At(p, b, "fail_write")
  /\ \/ /\ batch' = [batch EXCEPT ![b] = NeedsAttention(@, tasks[p][b].seen)]
        /\ UNCHANGED <<available, faults>>
     \/ /\ Fault("db")
        /\ available' = [available EXCEPT ![p] = FALSE]
        /\ UNCHANGED batch
  /\ EndTask(p, b)
  /\ UNCHANGED <<call, version, holder, mode, acquiring, starts, memVars, requests, ghostVars>>

\* finish_error likewise, for a call that was not dispatched or whose outcome is unknown.
ErrorRead(p, b, from, to) ==
  /\ At(p, b, from)
  /\ tasks' = [tasks EXCEPT ![p][b].pc = to, ![p][b].seen = batch[b],
                            ![p][b].callStatus = call[CallOf(p, b)].status]
  /\ UNCHANGED <<dbVars, procVars, startVars, memVars, requests, faults, ghostVars>>

Errored(stored, seen, status) ==
  IF seen.status \in Terminal THEN stored
  ELSE Flush(stored, seen, [seen EXCEPT !.status = status, !.next = 0])

ErrorWrite(p, b, pc, callStatus, batchStatus) ==
  LET t == tasks[p][b] IN
  /\ At(p, b, pc)
  /\ call' = [call EXCEPT ![CallOf(p, b)].status = Column(@, t.callStatus, callStatus),
                          ![CallOf(p, b)].interrupted = FALSE]
  /\ batch' = [batch EXCEPT ![b] = Errored(@, t.seen, batchStatus)]
  /\ EndTask(p, b)
  /\ UNCHANGED <<version, procVars, starts, memVars, requests, faults, ghostVars>>

FinishErrorRead(p, b) ==
  \/ ErrorRead(p, b, "refused", "refused_write")
  \/ ErrorRead(p, b, "unknown", "unknown_write")

FinishError(p, b) ==
  \/ ErrorWrite(p, b, "refused_write", "not_dispatched", "failed")
  \/ ErrorWrite(p, b, "unknown_write", "outcome_uncertain", "outcome_uncertain")

\* finish_error itself fails: run() falls back to local_failure, the call is left as it is.
FinishErrorFails(p, b) ==
  /\ tasks[p][b].pc \in {"refused_write", "unknown_write"}
  /\ Fault("db")
  /\ Goto(p, b, "fail")
  /\ UNCHANGED <<dbVars, procVars, startVars, memVars, requests, ghostVars>>

-----------------------------------------------------------------------------
(* Local recovery: receipts of the maintenance tick, and revalidation.     *)

\* recover_responses: a receipt without a live task is persisted, its stage paused for the
\* author, and the receipt forgotten.  A rejected receipt is kept.
Recover(p, c) ==
  /\ mode[p] = "up" /\ available[p] /\ ~acquiring[p]
  /\ c \in pending_responses[p] \cup journal
  /\ ~LiveTask(p, c[1])
  /\ Bindable(c)
  /\ Persist(c)
  /\ batch' = IF call[c].response # "none" \/ batch[c[1]].status \in Terminal THEN batch
              ELSE [batch EXCEPT ![c[1]].pause = TRUE, ![c[1]].status = "needs_attention",
                                 ![c[1]].next = 0]
  /\ ForgetResponse(p, c)
  /\ UNCHANGED <<version, procVars, tasks, startVars, requests, ghostVars>>

\* The revalidate route: check under the lock, request a pause, commit, and then compile
\* in a second transaction.
Revalidate(p, r, c) ==
  LET row == batch[c[1]] IN
  /\ Serving(p)
  /\ requests[p][r].pc = "idle"
  /\ call[c].status \in {"response_saved", "local_failure"}
  /\ call[c].response \in {"good", "bad"}
  /\ row.status \notin Terminal \cup {"running", "queued", "outcome_uncertain"}
  /\ c[2] \notin row.state.compiled
  /\ row.state.rev = 0
  /\ batch' = [batch EXCEPT ![c[1]].pause = TRUE]
  /\ requests' = [requests EXCEPT ![p][r] = [NoRequest EXCEPT !.pc = "asked", !.target = c]]
  /\ UNCHANGED <<call, version, procVars, tasks, startVars, memVars, faults, ghostVars>>

RevalidateRead(p, r) ==
  LET c == requests[p][r].target IN
  /\ requests[p][r].pc = "asked"
  /\ requests' = [requests EXCEPT ![p][r].pc = "read", ![p][r].seen = batch[c[1]],
                                  ![p][r].callStatus = call[c].status]
  /\ UNCHANGED <<dbVars, procVars, tasks, startVars, memVars, faults, ghostVars>>

RevalidateCompile(p, r) ==
  LET q == requests[p][r] IN
  /\ q.pc = "read"
  /\ CompileResponse(q.target, q.seen, q.callStatus)
  /\ requests' = [requests EXCEPT ![p][r] = NoRequest]
  /\ UNCHANGED <<version, procVars, tasks, startVars, memVars, faults, sent, got, lost>>

-----------------------------------------------------------------------------
Init ==
  /\ batch = [b \in Batches |-> NoBatch]
  /\ call = [c \in Calls |-> NoCall]
  /\ version = 0
  /\ holder = NoProc
  /\ mode = [p \in Procs |-> "down"]
  /\ acquiring = [p \in Procs |-> FALSE]
  /\ available = [p \in Procs |-> FALSE]
  /\ tasks = [p \in Procs |-> [b \in Batches |-> Idle]]
  /\ starts = [p \in Procs |-> {}]
  /\ pending_starts = [p \in Procs |-> {}]
  /\ pending_responses = [p \in Procs |-> {}]
  /\ journal = {}
  /\ requests = [p \in Procs |-> [r \in Requests |-> NoRequest]]
  /\ faults = 0
  /\ sent = [c \in Calls |-> 0]
  /\ got = [c \in Calls |-> "none"]
  /\ lost = {}
  /\ handoffs = [c \in Calls |-> 0]

Command(p, b) ==
  \/ \E replace \in BOOLEAN : Create(p, b, replace)
  \/ Authorize(p, b) \/ Pause(p, b) \/ AuthorizeInput(p, b) \/ AuthorizeStep(p, b)
  \/ ResolveUnknown(p, b) \/ EditPlan(p, b) \/ EditCandidate(p, b) \/ Adopt(p, b)

Run(p, b) ==
  \/ ClaimRead(p, b) \/ ClaimNothing(p, b) \/ ClaimRefused(p, b) \/ ClaimTooLarge(p, b)
  \/ Claim(p, b) \/ SendRefused(p, b) \/ Send(p, b)
  \/ \E reply \in Replies : Receive(p, b, reply)
  \/ NoAnswer(p, b) \/ SaveJournal(p, b) \/ Store(p, b) \/ Forget(p, b)
  \/ CompileRead(p, b) \/ Compile(p, b) \/ CompileRaises(p, b)
  \/ FailRead(p, b) \/ FailWrite(p, b)
  \/ FinishErrorRead(p, b) \/ FinishError(p, b) \/ FinishErrorFails(p, b)

Process(p) ==
  \/ Boot(p) \/ AcquireOwner(p) \/ OpenService(p) \/ DiscardOwner(p) \/ LoseOwner(p)
  \/ Crash(p) \/ Drain(p) \/ Close(p)
  \/ \E b \in Batches : Start(p, b) \/ Cancel(p, b)
  \/ \E c \in Calls : Recover(p, c)

Revalidation(p, r) ==
  \/ \E c \in Calls : Revalidate(p, r, c)
  \/ RevalidateRead(p, r) \/ RevalidateCompile(p, r)

Next ==
  \E p \in Procs :
    \/ Process(p)
    \/ \E b \in Batches : Command(p, b) \/ Run(p, b)
    \/ \E r \in Requests : Revalidation(p, r)

Spec == Init /\ [][Next]_vars

-----------------------------------------------------------------------------
(* Fairness: a process that is not running is started again (compose restarts the        *)
(* container), its maintenance loop ticks, a task that can move does move (every await   *)
(* in it has a deadline), and shutdown completes.  Authors promise nothing.              *)

Fairness ==
  \A p \in Procs :
    /\ WF_vars(Boot(p)) /\ WF_vars(AcquireOwner(p)) /\ WF_vars(OpenService(p))
    /\ WF_vars(DiscardOwner(p)) /\ WF_vars(Close(p))
    /\ \A b \in Batches : WF_vars(Run(p, b)) /\ WF_vars(Start(p, b))
    /\ \A c \in Calls : WF_vars(Recover(p, c))

FairSpec == Spec /\ Fairness

-----------------------------------------------------------------------------
(* What the paid calls promise, whoever runs them: PaidCallLedger.         *)

Ledger == INSTANCE PaidCallLedger WITH
  claimed   <- {c \in Calls : call[c].status # "none"},
  answer    <- got,
  stored    <- [c \in Calls |-> call[c].response],
  delivered <- {c \in Calls : handoffs[c] > 0}

\* Every behaviour of the kernel, with its stale reads, lost locks and crashes, is one of
\* the ledger: claim before send, one send, one answer, stored unchanged, then compiled.
LedgerSpec == Ledger!Spec

-----------------------------------------------------------------------------
(* Type correctness and safety.                                            *)

\* Every variable keeps its shape.
TypeOK ==
  /\ batch \in [Batches -> BatchRow]
  /\ call \in [Calls -> CallRow]
  /\ version \in Nat
  /\ holder \in Procs \cup {NoProc}
  /\ mode \in [Procs -> {"down", "starting", "up", "draining"}]
  /\ acquiring \in [Procs -> BOOLEAN]
  /\ available \in [Procs -> BOOLEAN]
  /\ tasks \in [Procs -> [Batches -> TaskRow]]
  /\ starts \in [Procs -> SUBSET Batches]
  /\ pending_starts \in [Procs -> SUBSET Batches]
  /\ pending_responses \in [Procs -> SUBSET Calls]
  /\ journal \subseteq Calls
  /\ requests \in [Procs -> [Requests -> RequestRow]]
  /\ faults \in 0 .. MaxFaults
  /\ sent \in [Calls -> Nat]
  /\ got \in [Calls -> Replies \cup {"none"}]
  /\ lost \subseteq Calls
  /\ handoffs \in [Calls -> Nat]

\* A received answer is in its row, in the journal or in the memory of a process, until
\* the only process that had it dies: no rejected binding, failed write, cancelled task or
\* cleanup loses a paid answer (runtime.py persist_response, forget_response).
ReceiptKept ==
  \A c \in Calls : got[c] # "none" =>
    \/ call[c].response = got[c]
    \/ c \in journal \cup lost
    \/ \E p \in Procs : c \in pending_responses[p]

\* A claimed slot goes on the wire at most once: no retry after a timeout, no second task,
\* no second process sends what may already have been paid (runtime.py claim, dispatch).
SentAtMostOnce == \A c \in Calls : sent[c] <= 1

\* An action is claimed again only after its earlier call was closed as a failure, so a
\* call whose outcome is unknown is never silently repeated (step_recovery.py).
NoSilentResend ==
  \A b \in Batches : \A j, k \in ClaimedSlots(b) :
    /\ call[<<b, j>>].action = call[<<b, k>>].action
    /\ call[<<b, j>>].at < call[<<b, k>>].at
    => call[<<b, j>>].status \in Failures \ {"outcome_uncertain"}

\* A stage has one executing call at a time, also when a process that lost the lock still
\* runs a task of it, in stages without a cold read (runtime.py claim, reconcile).
OneExecuting == \A b \in Batches : \A j, k \in SlotIds :
  call[<<b, j>>].status = "executing" /\ call[<<b, k>>].status = "executing" => j = k

\* A stage the database calls queued or running has a task that drives it while its owner
\* serves: no start is dropped and no failed task leaves it active (runtime.py start, run).
ActiveStageHasTask ==
  \A p \in Procs, b \in Batches :
    CheckOwner(p) /\ mode[p] = "up" /\ batch[b].status \in {"queued", "running"}
      => \E q \in Procs : LiveTask(q, b) \/ b \in starts[q]

\* A call that is executing while an owner serves has a task or a receipt that will end it
\* (runtime.py run, finish_error, reconcile).
ExecutingIsAttended ==
  \A p \in Procs, c \in Calls :
    CheckOwner(p) /\ mode[p] = "up" /\ call[c].status = "executing"
      => \/ \E q \in Procs : LiveTask(q, c[1])
         \/ c \in journal \/ \E q \in Procs : c \in pending_responses[q]

\* An action is claimed only after the one before it completed, also across replays, edits
\* and skipped reports; the independent cold read is the exception (longform.py choose_next).
StepsInOrder ==
  \A b \in Batches : \A k \in ClaimedSlots(b) :
    LET a == call[<<b, k>>].action IN
    a > 1 /\ ~(Reader /\ a = Steps) =>
      \E j \in ClaimedSlots(b) : /\ call[<<b, j>>].action = a - 1
                                 /\ call[<<b, j>>].status = "completed"
                                 /\ call[<<b, j>>].at < call[<<b, k>>].at

\* Nothing follows the last action of a stage but replays of it: a report that was skipped
\* for the independent cold read is never taken up again (stage.py
\* continue_independent_reader, step_recovery.py authorize_step).
LastStepIsLast ==
  \A b \in Batches : \A j, k \in ClaimedSlots(b) :
    call[<<b, j>>].action = Steps /\ call[<<b, j>>].at < call[<<b, k>>].at
      => call[<<b, k>>].action = Steps

\* The actions of a stage are claimed in their order, each after the one before it completed,
\* and nothing but its own replays follows the last (runtime.py claim, longform.py choose_next).
StepsAreSound == StepsInOrder /\ LastStepIsLast

\* The stage's state never forgets a completed call: its receipt stays in "compiled" and its
\* artifacts stay the stage's, whatever rewrites the JSON column (runtime.py local_failure,
\* step_recovery.py authorize_step).
CompletedIsRemembered ==
  \A b \in Batches : \A k \in ClaimedSlots(b) :
    call[<<b, k>>].status = "completed" =>
      /\ k \in batch[b].state.compiled
      /\ call[<<b, k>>].action <= batch[b].state.done

\* The answer of a call is compiled into its stage at most once, also when the author
\* revalidates it while a task compiles (runtime.py compile_response, lines 845-846).
NeverRecompiled == \A c \in Calls : handoffs[c] <= 1

\* An unknown call leaves the project able to adopt: it belongs to a stage whose author can
\* still close it (formal_version_sync.py invalidate_generation, service.py resolve_unknown).
UnknownCanBeClosed ==
  \A b \in Batches : HasCall(b, {"outcome_uncertain"}) => batch[b].status \notin Terminal

\* A call executes only in a stage that continues the current formal version: adoption in
\* one stage and a stale claim in another never overlap (service.py adopt, assert_current).
ExecutingIsCurrent ==
  \A b \in Batches : HasCall(b, {"executing"}) => batch[b].base = version

\* A formal version is continued by one adopted stage, even if a stale flush brings an
\* archived stage back (service.py adopt).
AdoptedOnce ==
  \A a, b \in Batches :
    batch[a].status = "adopted" /\ batch[b].status = "adopted" /\ batch[a].base = batch[b].base
      => a = b

\* The stages of a project follow its formal versions: what executes continues the current
\* one, and what was adopted continued one each (runtime.py claim, service.py adopt).
VersionsAreFollowed == ExecutingIsCurrent /\ AdoptedOnce

\* A requested pause is only taken back by a new authorization of a stage at rest: the
\* flush of a row that was read before the request does not erase it.
PauseNotLost ==
  [][\A b \in Batches : batch[b].pause /\ ~batch'[b].pause =>
       /\ batch[b].status \notin {"queued", "running"}
       /\ batch'[b].status = "queued" /\ batch'[b].authorized]_batch

\* A superseded stage stays archived, whatever late task or callback still holds its row
\* (stage_replacement.py replace_previous).
SupersededStaysArchived ==
  [][\A b \in Batches : batch[b].status = "archived" /\ batch[b].state.superseded =>
       batch'[b].status = "archived"]_batch

-----------------------------------------------------------------------------
(* Liveness.                                                               *)

\* A received answer is stored in its row, unless its only holder dies or its author closes
\* the call first: recovery always gets to it (runtime.py recover_responses).
ReceiptSettles ==
  \A c \in Calls :
    got[c] # "none" ~> \/ call[c].response = got[c]
                       \/ c \in lost \/ call[c].status = "uncertain_closed"

\* No call executes for ever: an answer, an error, or reconciliation after a restart ends it.
ExecutingEnds ==
  \A c \in Calls : call[c].status = "executing" ~> call[c].status # "executing"

\* A pause asked for is obeyed: the stage comes to rest.
PauseObeyed ==
  \A b \in Batches :
    batch[b].pause /\ batch[b].status \in {"queued", "running"}
      ~> batch[b].status \notin {"queued", "running"}
=============================================================================
