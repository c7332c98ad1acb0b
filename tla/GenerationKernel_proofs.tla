----------------------- MODULE GenerationKernel_proofs -----------------------
(***************************************************************************)
(* Theorems about GenerationKernel, for any number of stages, processes,   *)
(* requests, steps, slots, faults and edits.                               *)
(***************************************************************************)
EXTENDS GenerationKernel, FiniteSetTheorems, TLAPS

-----------------------------------------------------------------------------
(* Type correctness.  TypeOK is not inductive: a replay claims the slot    *)
(* its receipt names, and a task writes the row it remembers, so receipts, *)
(* remembered rows and the slots of tasks need a little more than a type.  *)

\* Rows whose step-recovery receipt names a slot.
Rows == {row \in BatchRow : row.state.failed # 0 => row.state.replacement # 0}

\* Places of a task that works on a claimed slot.
Slotted == {"send", "flight", "journal", "store", "forget", "check", "compile",
            "refused", "refused_write", "unknown", "unknown_write"}

TaskRows == {t \in TaskRow : t.seen \in Rows /\ (t.pc \in Slotted => t.slot \in SlotIds)}

RequestRows == {q \in RequestRow : q.seen \in Rows /\ (q.pc # "idle" => q.target \in Calls)}

ControlTypes ==
  /\ version \in Nat
  /\ holder \in Procs \cup {NoProc}
  /\ mode \in [Procs -> {"down", "starting", "up", "draining"}]
  /\ acquiring \in [Procs -> BOOLEAN]
  /\ available \in [Procs -> BOOLEAN]
  /\ starts \in [Procs -> SUBSET Batches]
  /\ pending_starts \in [Procs -> SUBSET Batches]
  /\ faults \in 0 .. MaxFaults

ReceiptTypes ==
  /\ pending_responses \in [Procs -> SUBSET Calls]
  /\ journal \subseteq Calls
  /\ sent \in [Calls -> Nat]
  /\ got \in [Calls -> Replies \cup {"none"}]
  /\ lost \subseteq Calls
  /\ handoffs \in [Calls -> Nat]

BatchTypes   == batch \in [Batches -> Rows]
CallTypes    == call \in [Calls -> CallRow]
TaskTypes    == tasks \in [Procs -> [Batches -> TaskRows]]
RequestTypes == requests \in [Procs -> [Requests -> RequestRows]]

TypeInv ==
  BatchTypes /\ CallTypes /\ TaskTypes /\ RequestTypes /\ ControlTypes /\ ReceiptTypes

LEMMA TypeInvImpliesTypeOK == TypeInv => TypeOK
BY DEF TypeInv, BatchTypes, CallTypes, TaskTypes, RequestTypes, ControlTypes, ReceiptTypes,
       TypeOK, Rows, TaskRows, RequestRows

LEMMA FlushType ==
  ASSUME NEW stored \in Rows, NEW seen \in Rows, NEW new \in Rows
  PROVE  Flush(stored, seen, new) \in Rows
BY DEF Flush, Column, Rows, BatchRow, State

LEMMA NextType ==
  ASSUME NEW row \in Rows, NEW s \in BatchStatus, NEW n \in 0 .. Steps
  PROVE  /\ [row EXCEPT !.status = s] \in Rows
         /\ [row EXCEPT !.status = s, !.next = n] \in Rows
         /\ row.status \in BatchStatus /\ row.next \in 0 .. Steps /\ row.state \in State
BY ConstantsAssumption DEF Rows, BatchRow, State, NoState, Texts

LEMMA NextActionType == \A a \in 0 .. Steps : NextAction(a) \in 0 .. Steps
BY ConstantsAssumption DEF NextAction

LEMMA EmptyRows ==
  /\ NoBatch \in Rows
  /\ NoCall \in CallRow
  /\ Idle \in TaskRows
  /\ NoRequest \in RequestRows
<1>0. NoState \in State
  BY ConstantsAssumption DEF NoState, State, Texts
<1>1. NoBatch \in BatchRow
  BY <1>0, ConstantsAssumption DEF NoBatch, BatchRow, BatchStatus
<1>2. NoBatch \in Rows
  BY <1>1 DEF Rows, NoBatch, NoState
<1>3. NoCall \in CallRow
  BY ConstantsAssumption DEF NoCall, CallRow, CallStatus, Texts
<1>4. Idle \in TaskRows
  BY <1>1, <1>2, ConstantsAssumption DEF Idle, TaskRows, TaskRow, TaskPc, CallStatus, Slotted
<1>5. NoRequest \in RequestRows
  BY <1>1, <1>2 DEF NoRequest, RequestRows, RequestRow, CallStatus
<1>6. QED
  BY <1>2, <1>3, <1>4, <1>5

LEMMA TypeInit == Init => TypeInv
BY EmptyRows, ConstantsAssumption
   DEF Init, TypeInv, BatchTypes, CallTypes, TaskTypes, RequestTypes, ControlTypes, ReceiptTypes

-----------------------------------------------------------------------------
(* What the steps of a task do to the tasks, whatever the action.          *)

LEMMA FreshTask ==
  \A pc \in TaskPc \ Slotted, row \in Rows :
    [Idle EXCEPT !.pc = pc] \in TaskRows /\ [Idle EXCEPT !.pc = pc, !.seen = row] \in TaskRows
BY EmptyRows DEF TaskRows, TaskRow, Rows, Idle

LEMMA NewTask ==
  ASSUME TaskTypes, NEW p \in Procs, NEW b \in Batches, NEW t \in TaskRows,
         tasks' = [tasks EXCEPT ![p][b] = t]
  PROVE  TaskTypes'
BY DEF TaskTypes

\* A task that works on a slot works on a slot of its batch.
LEMMA SlottedTask ==
  ASSUME TaskTypes, NEW p \in Procs, NEW b \in Batches
  PROVE  /\ tasks[p][b] \in TaskRows
         /\ tasks[p][b].seen \in Rows /\ tasks[p][b].callStatus \in CallStatus
         /\ tasks[p][b].pc \in Slotted => tasks[p][b].slot \in SlotIds /\ CallOf(p, b) \in Calls
BY DEF TaskTypes, TaskRows, TaskRow, CallOf, Calls

LEMMA GotoType ==
  ASSUME TaskTypes, NEW p \in Procs, NEW b \in Batches, NEW pc \in TaskPc, Goto(p, b, pc),
         pc \in Slotted => tasks[p][b].pc \in Slotted
  PROVE  TaskTypes'
<1>1. [tasks[p][b] EXCEPT !.pc = pc] \in TaskRows
  BY SlottedTask DEF TaskRows, TaskRow
<1>2. tasks' = [tasks EXCEPT ![p][b] = [tasks[p][b] EXCEPT !.pc = pc]]
  BY DEF Goto, TaskTypes
<1>3. QED
  BY <1>1, <1>2, NewTask

LEMMA EndTaskType ==
  ASSUME TaskTypes, ControlTypes, NEW p \in Procs, NEW b \in Batches, EndTask(p, b)
  PROVE  TaskTypes' /\ pending_starts' \in [Procs -> SUBSET Batches]
<1>1. TaskTypes'
  BY EmptyRows, FreshTask, NewTask DEF EndTask, TaskPc, Slotted
<1>2. pending_starts' \in [Procs -> SUBSET Batches]
  BY DEF EndTask, ControlTypes
<1>3. QED
  BY <1>1, <1>2

LEMMA NewRow ==
  ASSUME BatchTypes, NEW b \in Batches, NEW row \in Rows, batch' = [batch EXCEPT ![b] = row]
  PROVE  BatchTypes'
BY DEF BatchTypes
-----------------------------------------------------------------------------
(* Commands.                                                               *)

LEMMA CreateType ==
  ASSUME TypeInv, NEW p \in Procs, NEW b \in Batches, NEW replace \in BOOLEAN,
         Create(p, b, replace)
  PROVE  TypeInv'
<1>1. NewBatch \in Rows
  <2>1. NoBatch \in Rows /\ version \in Nat /\ 1 \in 0 .. Steps
    BY EmptyRows, ConstantsAssumption DEF TypeInv, ControlTypes
  <2>2. QED
    BY <2>1 DEF NewBatch, Rows, BatchRow, BatchStatus
<1>2. ASSUME NEW row \in Rows PROVE Superseded(row) \in Rows
  <2> DEFINE state == [row.state EXCEPT !.superseded = TRUE]
  <2>1. state \in State /\ (state.failed # 0 => state.replacement # 0)
    BY DEF Rows, BatchRow, State
  <2>2. Superseded(row) = [row EXCEPT !.status = "archived", !.next = 0,
                                      !.authorized = FALSE, !.pause = TRUE, !.state = state]
    BY DEF Superseded, Rows, BatchRow
  <2>3. "archived" \in BatchStatus /\ 0 \in 0 .. Steps
    BY ConstantsAssumption DEF BatchStatus
  <2> HIDE DEF state
  <2>4. QED
    BY <2>1, <2>2, <2>3 DEF Rows, BatchRow
<1>3. BatchTypes'
  BY <1>1, <1>2 DEF Create, TypeInv, BatchTypes
<1>4. QED
  BY <1>3 DEF Create, TypeInv, CallTypes, TaskTypes, RequestTypes, ControlTypes, ReceiptTypes,
              procVars, startVars, memVars, ghostVars

LEMMA AuthorizedType ==
  ASSUME BatchTypes, TaskTypes, ControlTypes, NEW p \in Procs, NEW b \in Batches,
         NEW row \in Rows, NEW calls \in [Calls -> CallRow], Authorized(p, b, row, calls)
  PROVE  /\ BatchTypes' /\ CallTypes' /\ TaskTypes'
         /\ starts' \in [Procs -> SUBSET Batches]
         /\ UNCHANGED pending_starts
<1>1. [row EXCEPT !.authorized = TRUE, !.pause = FALSE, !.status = "queued"] \in Rows
  BY DEF Rows, BatchRow, BatchStatus
<1>2. QED
  BY <1>1, NewRow DEF Authorized, BatchTypes, CallTypes, TaskTypes, ControlTypes

LEMMA AuthorizeType ==
  ASSUME TypeInv, NEW p \in Procs, NEW b \in Batches, Authorize(p, b)
  PROVE  TypeInv'
<1>1. batch[b] \in Rows /\ call \in [Calls -> CallRow]
  BY DEF TypeInv, BatchTypes, CallTypes
<1>2. /\ BatchTypes' /\ CallTypes' /\ TaskTypes'
      /\ starts' \in [Procs -> SUBSET Batches]
      /\ UNCHANGED pending_starts
  BY <1>1, AuthorizedType DEF Authorize, TypeInv
<1>3. QED
  BY <1>2 DEF Authorize, TypeInv, RequestTypes, ControlTypes, ReceiptTypes, procVars, memVars,
              ghostVars

LEMMA PauseType ==
  ASSUME TypeInv, NEW p \in Procs, NEW b \in Batches, Pause(p, b)
  PROVE  TypeInv'
<1> DEFINE row == [batch[b] EXCEPT !.pause = TRUE,
                                   !.status = IF @ = "queued" THEN "paused" ELSE @]
<1>1. BatchTypes'
  <2>1. batch[b] \in Rows
    BY DEF TypeInv, BatchTypes
  <2>2. row \in Rows
    BY <2>1 DEF Rows, BatchRow, BatchStatus
  <2>3. batch' = [batch EXCEPT ![b] = row]
    BY <2>1 DEF Pause, TypeInv, BatchTypes, Rows, BatchRow
  <2>4. QED
    BY <2>2, <2>3, NewRow DEF TypeInv
<1>2. QED
  BY <1>1 DEF Pause, TypeInv, CallTypes, TaskTypes, RequestTypes, ControlTypes, ReceiptTypes,
              procVars, startVars, memVars, ghostVars

LEMMA AuthorizeInputType ==
  ASSUME TypeInv, NEW p \in Procs, NEW b \in Batches, AuthorizeInput(p, b)
  PROVE  TypeInv'
<1> DEFINE action == IF batch[b].next = 0 THEN 2 ELSE batch[b].next
           row == [batch[b] EXCEPT !.status = "awaiting_plan", !.next = action]
<1>1. batch[b] \in Rows /\ call \in [Calls -> CallRow]
  BY DEF TypeInv, BatchTypes, CallTypes
<1>2. action \in 0 .. Steps
  BY <1>1, ConstantsAssumption DEF Rows, BatchRow
<1>3. row \in Rows
  BY <1>1, <1>2, NextType DEF BatchStatus
<1>4. Authorized(p, b, row, call)
  BY DEF AuthorizeInput
<1>5. /\ BatchTypes' /\ CallTypes' /\ TaskTypes'
      /\ starts' \in [Procs -> SUBSET Batches]
      /\ UNCHANGED pending_starts
  BY <1>1, <1>3, <1>4, AuthorizedType DEF TypeInv
<1>6. QED
  BY <1>5 DEF AuthorizeInput, TypeInv, RequestTypes, ControlTypes, ReceiptTypes, procVars,
              memVars, ghostVars

LEMMA AuthorizeStepType ==
  ASSUME TypeInv, NEW p \in Procs, NEW b \in Batches, AuthorizeStep(p, b)
  PROVE  TypeInv'
<1>1. PICK f \in ClaimedSlots(b), k \in FreeReplacement(b) :
        Authorized(p, b,
          [batch[b] EXCEPT !.status = "awaiting_plan", !.next = call[<<b, f>>].action,
                           !.state.text = call[<<b, f>>].text,
                           !.state.failed = f, !.state.replacement = k],
          IF call[<<b, f>>].status = "outcome_uncertain"
          THEN [call EXCEPT ![<<b, f>>].status = "uncertain_closed"] ELSE call)
  BY DEF AuthorizeStep
<1> DEFINE row == [batch[b] EXCEPT !.status = "awaiting_plan", !.next = call[<<b, f>>].action,
                                   !.state.text = call[<<b, f>>].text,
                                   !.state.failed = f, !.state.replacement = k]
           calls == IF call[<<b, f>>].status = "outcome_uncertain"
                    THEN [call EXCEPT ![<<b, f>>].status = "uncertain_closed"] ELSE call
<1>2. f \in SlotIds /\ k \in SlotIds /\ k # 0
  BY ConstantsAssumption DEF ClaimedSlots, FreeReplacement, SlotIds
<1>3. <<b, f>> \in Calls /\ batch[b] \in Rows /\ call[<<b, f>>] \in CallRow
  BY <1>2 DEF Calls, TypeInv, BatchTypes, CallTypes
<1>4. row \in Rows
  <2> DEFINE state == [batch[b].state EXCEPT !.text = call[<<b, f>>].text,
                                             !.failed = f, !.replacement = k]
  <2>1. /\ f \in 0 .. Slots /\ k \in 0 .. Slots
        /\ call[<<b, f>>].text \in Texts /\ call[<<b, f>>].action \in 0 .. Steps
        /\ batch[b].state \in State
    BY <1>2, <1>3 DEF Rows, BatchRow, CallRow, SlotIds
  <2>2. state \in State /\ state.replacement # 0
    BY <1>2, <2>1 DEF State
  <2>3. row = [batch[b] EXCEPT !.status = "awaiting_plan", !.next = call[<<b, f>>].action,
                               !.state = state]
    BY <1>3 DEF Rows, BatchRow, State
  <2>4. "awaiting_plan" \in BatchStatus
    BY DEF BatchStatus
  <2> HIDE DEF state
  <2>5. QED
    BY <1>3, <2>1, <2>2, <2>3, <2>4 DEF Rows, BatchRow
<1>5. calls \in [Calls -> CallRow]
  BY <1>3 DEF TypeInv, CallTypes, CallRow, CallStatus
<1>6. /\ BatchTypes' /\ CallTypes' /\ TaskTypes'
      /\ starts' \in [Procs -> SUBSET Batches]
      /\ UNCHANGED pending_starts
  BY <1>1, <1>4, <1>5, AuthorizedType DEF TypeInv
<1>7. QED
  BY <1>6 DEF AuthorizeStep, TypeInv, RequestTypes, ControlTypes, ReceiptTypes, procVars,
              memVars, ghostVars
LEMMA ResolveUnknownType ==
  ASSUME TypeInv, NEW p \in Procs, NEW b \in Batches, ResolveUnknown(p, b)
  PROVE  TypeInv'
<1>1. BatchTypes'
  <2>1. batch[b] \in Rows /\ 0 \in 0 .. Steps /\ "needs_attention" \in BatchStatus
    BY ConstantsAssumption DEF TypeInv, BatchTypes, BatchStatus
  <2>2. [batch[b] EXCEPT !.status = "needs_attention", !.next = 0, !.authorized = FALSE] \in Rows
    BY <2>1 DEF Rows, BatchRow
  <2>3. batch' = [batch EXCEPT ![b] = [batch[b] EXCEPT !.status = "needs_attention",
                                                       !.next = 0, !.authorized = FALSE]]
    BY <2>1 DEF ResolveUnknown, TypeInv, BatchTypes, Rows, BatchRow
  <2>4. QED
    BY <2>2, <2>3, NewRow DEF TypeInv
<1>2. CallTypes'
  BY DEF ResolveUnknown, TypeInv, CallTypes, CallRow, CallStatus
<1>3. QED
  BY <1>1, <1>2 DEF ResolveUnknown, TypeInv, TaskTypes, RequestTypes, ControlTypes,
                    ReceiptTypes, procVars, startVars, memVars, ghostVars

LEMMA EditPlanType ==
  ASSUME TypeInv, NEW p \in Procs, NEW b \in Batches, EditPlan(p, b)
  PROVE  TypeInv'
<1> DEFINE row == batch[b]
           state == [row.state EXCEPT !.rev = @ + 1]
<1>1. row \in Rows /\ row.state \in State /\ row.state.done \in 0 .. Steps
  BY DEF TypeInv, BatchTypes, Rows, BatchRow, State
<1>2. state \in State /\ (state.failed # 0 => state.replacement # 0)
  BY <1>1, ConstantsAssumption DEF EditPlan, Rows, State
<1>3. Following(row) \in 0 .. Steps
  BY <1>1, NextActionType DEF Following
<1>4. batch' = [batch EXCEPT ![b] = [row EXCEPT !.status = "awaiting_plan",
                                                !.next = Following(row), !.state = state]]
  BY <1>1 DEF EditPlan, Rows, BatchRow, State
<1>5. BatchTypes'
  <2>1. "awaiting_plan" \in BatchStatus
    BY DEF BatchStatus
  <2> HIDE DEF state
  <2>2. [row EXCEPT !.status = "awaiting_plan", !.next = Following(row), !.state = state] \in Rows
    BY <1>1, <1>2, <1>3, <2>1 DEF Rows, BatchRow
  <2>3. QED
    BY <1>4, <2>2, NewRow DEF TypeInv
<1>6. QED
  BY <1>5 DEF EditPlan, TypeInv, CallTypes, TaskTypes, RequestTypes, ControlTypes, ReceiptTypes,
              procVars, startVars, memVars, ghostVars

LEMMA EditCandidateType ==
  ASSUME TypeInv, NEW p \in Procs, NEW b \in Batches, EditCandidate(p, b)
  PROVE  TypeInv'
<1> DEFINE row == batch[b]
           state == [row.state EXCEPT !.text = "frozen", !.rewritten = TRUE, !.rev = @ + 1]
<1>1. row \in Rows /\ row.state \in State
  BY DEF TypeInv, BatchTypes, Rows, BatchRow
<1>2. state \in State /\ (state.failed # 0 => state.replacement # 0)
  <2>1. row.state.rev \in 0 .. MaxEdits /\ row.state.rev < MaxEdits /\ "frozen" \in Texts
    BY <1>1 DEF EditCandidate, State, Texts
  <2>2. row.state.rev + 1 \in 0 .. MaxEdits
    BY <2>1, ConstantsAssumption
  <2>3. QED
    BY <1>1, <2>1, <2>2 DEF Rows, State
<1>3. batch' = [batch EXCEPT ![b] = [row EXCEPT !.status = "needs_attention", !.next = 0,
                                                !.state = state]]
  BY <1>1 DEF EditCandidate, TypeInv, BatchTypes, Rows, BatchRow, State
<1>4. BatchTypes'
  <2>1. "needs_attention" \in BatchStatus /\ 0 \in 0 .. Steps
    BY ConstantsAssumption DEF BatchStatus
  <2> HIDE DEF state
  <2>2. [row EXCEPT !.status = "needs_attention", !.next = 0, !.state = state] \in Rows
    BY <1>1, <1>2, <2>1 DEF Rows, BatchRow
  <2>3. QED
    BY <1>3, <2>2, NewRow DEF TypeInv
<1>5. QED
  BY <1>4 DEF EditCandidate, TypeInv, CallTypes, TaskTypes, RequestTypes, ControlTypes,
              ReceiptTypes, procVars, startVars, memVars, ghostVars

LEMMA AdoptType ==
  ASSUME TypeInv, NEW p \in Procs, NEW b \in Batches, Adopt(p, b)
  PROVE  TypeInv'
<1>1. ASSUME NEW row \in Rows
      PROVE  /\ [row EXCEPT !.status = "adopted", !.next = 0] \in Rows
             /\ [row EXCEPT !.status = "archived", !.authorized = FALSE, !.next = 0] \in Rows
  <2>1. "adopted" \in BatchStatus /\ "archived" \in BatchStatus /\ 0 \in 0 .. Steps
    BY ConstantsAssumption DEF BatchStatus
  <2>2. QED
    BY <2>1 DEF Rows, BatchRow
<1>2. BatchTypes'
  BY <1>1 DEF Adopt, TypeInv, BatchTypes
<1>3. ControlTypes'
  <2>1. version' = version + 1 /\ UNCHANGED <<procVars, startVars, faults>>
    BY DEF Adopt
  <2>2. QED
    BY <2>1 DEF TypeInv, ControlTypes, procVars, startVars
<1>4. QED
  BY <1>2, <1>3 DEF Adopt, TypeInv, CallTypes, TaskTypes, RequestTypes, ReceiptTypes, memVars,
                    ghostVars

-----------------------------------------------------------------------------
(* Processes.                                                              *)

LEMMA StartType ==
  ASSUME TypeInv, NEW p \in Procs, NEW b \in Batches, Start(p, b)
  PROVE  TypeInv'
<1>1. TaskTypes'
  BY FreshTask, EmptyRows, NewTask DEF Start, StartRun, TypeInv, TaskTypes, TaskPc, Slotted
<1>2. ControlTypes'
  BY ConstantsAssumption
     DEF Start, StartRun, Fault, TypeInv, ControlTypes, dbVars, procVars
<1>3. QED
  BY <1>1, <1>2 DEF Start, TypeInv, BatchTypes, CallTypes, RequestTypes, ReceiptTypes, dbVars,
                    memVars, ghostVars

LEMMA ReconcileType ==
  ASSUME BatchTypes, CallTypes, Reconcile
  PROVE  BatchTypes' /\ CallTypes'
<1>1. ASSUME NEW b \in Batches PROVE Reconciled(b) \in Rows
  BY DEF Reconciled, BatchTypes, Rows, BatchRow, BatchStatus
<1>2. BatchTypes'
  BY <1>1 DEF Reconcile, BatchTypes
<1>3. CallTypes'
  BY ZenonT(60) DEF Reconcile, CallTypes, CallRow, CallStatus
<1>4. QED
  BY <1>2, <1>3

LEMMA BootType ==
  ASSUME TypeInv, NEW p \in Procs, Boot(p)
  PROVE  TypeInv'
BY DEF Boot, TypeInv, BatchTypes, CallTypes, TaskTypes, RequestTypes, ControlTypes,
       ReceiptTypes, dbVars, startVars, memVars, ghostVars

LEMMA AcquireOwnerType ==
  ASSUME TypeInv, NEW p \in Procs, AcquireOwner(p)
  PROVE  TypeInv'
BY DEF AcquireOwner, TypeInv, BatchTypes, CallTypes, TaskTypes, RequestTypes, ControlTypes,
       ReceiptTypes, dbVars, startVars, memVars, ghostVars

LEMMA OpenServiceType ==
  ASSUME TypeInv, NEW p \in Procs, OpenService(p)
  PROVE  TypeInv'
<1>1. BatchTypes' /\ CallTypes'
  BY ReconcileType DEF OpenService, TypeInv, BatchTypes, CallTypes
<1>2. UNCHANGED <<version, starts, pending_starts>> /\ acquiring' = [acquiring EXCEPT ![p] = FALSE]
  BY DEF OpenService, startVars
<1>3. \/ /\ available' = [available EXCEPT ![p] = TRUE] /\ mode' = [mode EXCEPT ![p] = "up"]
         /\ UNCHANGED <<holder, faults>>
      \/ /\ faults' = faults + 1 /\ faults < MaxFaults /\ holder' \in {NoProc, holder}
         /\ UNCHANGED <<available, mode>>
  BY DEF OpenService, Fault
<1>4. ControlTypes'
  <2>1. available' \in [Procs -> BOOLEAN] /\ mode' \in [Procs -> {"down", "starting", "up", "draining"}]
    BY <1>3 DEF TypeInv, ControlTypes
  <2>2. holder' \in Procs \cup {NoProc} /\ faults' \in 0 .. MaxFaults
    BY <1>3, ConstantsAssumption DEF TypeInv, ControlTypes
  <2>3. QED
    BY <1>2, <2>1, <2>2 DEF TypeInv, ControlTypes
<1>5. QED
  BY <1>1, <1>4 DEF OpenService, TypeInv, TaskTypes, RequestTypes, ReceiptTypes, memVars,
                    ghostVars

LEMMA DiscardOwnerType ==
  ASSUME TypeInv, NEW p \in Procs, DiscardOwner(p)
  PROVE  TypeInv'
BY DEF DiscardOwner, TypeInv, BatchTypes, CallTypes, TaskTypes, RequestTypes, ControlTypes,
       ReceiptTypes, dbVars, startVars, memVars, ghostVars

LEMMA LoseOwnerType ==
  ASSUME TypeInv, NEW p \in Procs, LoseOwner(p)
  PROVE  TypeInv'
<1>1. ControlTypes'
  BY ConstantsAssumption DEF LoseOwner, Fault, TypeInv, ControlTypes, dbVars, startVars
<1>2. QED
  BY <1>1 DEF LoseOwner, TypeInv, BatchTypes, CallTypes, TaskTypes, RequestTypes,
              ReceiptTypes, dbVars, memVars, ghostVars

\* What a process that ends leaves behind is well-typed.
LEMMA GoneType ==
  ASSUME TypeInv, NEW p \in Procs, Gone(p), faults' \in 0 .. MaxFaults
  PROVE  TaskTypes' /\ RequestTypes' /\ ControlTypes' /\ ReceiptTypes'
<1>1. TaskTypes' /\ RequestTypes'
  BY EmptyRows DEF Gone, TypeInv, TaskTypes, RequestTypes
<1>2. ControlTypes'
  BY DEF Gone, TypeInv, ControlTypes
<1>3. ReceiptTypes'
  BY DEF Gone, TypeInv, ReceiptTypes
<1>4. QED
  BY <1>1, <1>2, <1>3

LEMMA CrashType ==
  ASSUME TypeInv, NEW p \in Procs, Crash(p)
  PROVE  TypeInv'
<1>1. faults' \in 0 .. MaxFaults
  BY ConstantsAssumption DEF Crash, Fault, TypeInv, ControlTypes
<1>2. QED
  BY <1>1, GoneType DEF Crash, TypeInv, BatchTypes, CallTypes

LEMMA DrainType ==
  ASSUME TypeInv, NEW p \in Procs, Drain(p)
  PROVE  TypeInv'
<1>1. ControlTypes'
  BY ConstantsAssumption DEF Drain, Fault, TypeInv, ControlTypes, dbVars
<1>2. QED
  BY <1>1 DEF Drain, TypeInv, BatchTypes, CallTypes, TaskTypes, RequestTypes, ReceiptTypes,
              dbVars, memVars, ghostVars

LEMMA CloseType ==
  ASSUME TypeInv, NEW p \in Procs, Close(p)
  PROVE  TypeInv'
<1>1. BatchTypes' /\ CallTypes'
  BY ReconcileType DEF Close, TypeInv, BatchTypes, CallTypes
<1>2. faults' \in 0 .. MaxFaults
  BY DEF Close, TypeInv, ControlTypes
<1>3. QED
  BY <1>1, <1>2, GoneType DEF Close, TypeInv

LEMMA CancelType ==
  ASSUME TypeInv, NEW p \in Procs, NEW b \in Batches, Cancel(p, b)
  PROVE  TypeInv'
<1> DEFINE t == tasks[p][b]
<1>1. /\ t \in TaskRows
      /\ t.pc \in Slotted => CallOf(p, b) \in Calls
  BY SlottedTask DEF TypeInv
<1>2. CancelPc(t.pc) \in {"idle", "fail", "unknown"}
      /\ (CancelPc(t.pc) = "unknown" => t.pc \in Slotted)
  BY DEF CancelPc, Slotted
<1>3. TaskTypes'
  <2>1. CASE CancelPc(t.pc) = "idle"
    BY <2>1, EmptyRows, NewTask DEF Cancel, TypeInv
  <2>2. CASE CancelPc(t.pc) # "idle"
    <3>1. Goto(p, b, CancelPc(t.pc))
      BY <2>2 DEF Cancel
    <3>2. CancelPc(t.pc) \in TaskPc /\ (CancelPc(t.pc) \in Slotted => t.pc \in Slotted)
      BY <1>2, <2>2 DEF TaskPc, Slotted
    <3>3. QED
      BY <3>1, <3>2, GotoType DEF TypeInv
  <2>3. QED
    BY <2>1, <2>2
<1>4. ControlTypes'
  BY ConstantsAssumption DEF Cancel, Fault, TypeInv, ControlTypes, dbVars, procVars, startVars
<1>5. ReceiptTypes'
  BY <1>1 DEF Cancel, TypeInv, ReceiptTypes, CallOf, Slotted, ghostVars
<1>6. QED
  BY <1>3, <1>4, <1>5 DEF Cancel, TypeInv, BatchTypes, CallTypes, RequestTypes, dbVars
-----------------------------------------------------------------------------
(* A task up to its receipt.                                               *)

LEMMA ClaimReadType ==
  ASSUME TypeInv, NEW p \in Procs, NEW b \in Batches, ClaimRead(p, b)
  PROVE  TypeInv'
<1>1. /\ UNCHANGED <<dbVars, holder, mode, acquiring, starts, memVars, requests, faults, ghostVars>>
      /\ \/ EndTask(p, b) /\ UNCHANGED available
         \/ /\ tasks' = [tasks EXCEPT ![p][b].pc = "claim", ![p][b].seen = batch[b]]
            /\ UNCHANGED <<pending_starts, available>>
         \/ /\ Goto(p, b, "fail") /\ available' = [available EXCEPT ![p] = FALSE]
            /\ UNCHANGED pending_starts
  BY DEF ClaimRead, startVars
<1>2. CASE EndTask(p, b) /\ UNCHANGED available
  BY <1>1, <1>2, EndTaskType
     DEF TypeInv, BatchTypes, CallTypes, RequestTypes, ControlTypes, ReceiptTypes, dbVars,
         memVars, ghostVars
<1>3. CASE /\ tasks' = [tasks EXCEPT ![p][b].pc = "claim", ![p][b].seen = batch[b]]
           /\ UNCHANGED <<pending_starts, available>>
  <2>1. [tasks[p][b] EXCEPT !.pc = "claim", !.seen = batch[b]] \in TaskRows
    BY SlottedTask DEF TypeInv, BatchTypes, TaskRows, TaskRow, TaskPc, Slotted, Rows
  <2>2. tasks' = [tasks EXCEPT ![p][b] = [tasks[p][b] EXCEPT !.pc = "claim", !.seen = batch[b]]]
    BY <1>3 DEF TypeInv, TaskTypes
  <2>3. TaskTypes'
    BY <2>1, <2>2, NewTask DEF TypeInv
  <2>4. QED
    BY <1>1, <1>3, <2>3
       DEF TypeInv, BatchTypes, CallTypes, RequestTypes, ControlTypes, ReceiptTypes, dbVars,
           memVars, ghostVars
<1>4. CASE /\ Goto(p, b, "fail") /\ available' = [available EXCEPT ![p] = FALSE]
           /\ UNCHANGED pending_starts
  <2>1. TaskTypes'
    BY <1>4, GotoType DEF TypeInv, TaskPc, Slotted
  <2>2. QED
    BY <1>1, <1>4, <2>1
       DEF TypeInv, BatchTypes, CallTypes, RequestTypes, ControlTypes, ReceiptTypes, dbVars,
           memVars, ghostVars
<1>5. QED
  BY <1>1, <1>2, <1>3, <1>4

LEMMA ClaimNothingType ==
  ASSUME TypeInv, NEW p \in Procs, NEW b \in Batches, ClaimNothing(p, b)
  PROVE  TypeInv'
<1>1. BatchTypes'
  BY SlottedTask
     DEF ClaimNothing, TypeInv, BatchTypes, Column, Rows, BatchRow, BatchStatus
<1>2. TaskTypes' /\ pending_starts' \in [Procs -> SUBSET Batches]
  BY EndTaskType DEF ClaimNothing, TypeInv
<1>3. QED
  BY <1>1, <1>2
     DEF ClaimNothing, TypeInv, CallTypes, RequestTypes, ControlTypes, ReceiptTypes, procVars,
         memVars, ghostVars

LEMMA ClaimRefusedType ==
  ASSUME TypeInv, NEW p \in Procs, NEW b \in Batches, ClaimRefused(p, b)
  PROVE  TypeInv'
<1>1. TaskTypes'
  BY GotoType DEF ClaimRefused, TypeInv, TaskPc, Slotted
<1>2. QED
  BY <1>1
     DEF ClaimRefused, TypeInv, BatchTypes, CallTypes, RequestTypes, ControlTypes, ReceiptTypes,
         dbVars, procVars, startVars, memVars, ghostVars

LEMMA ClaimTooLargeType ==
  ASSUME TypeInv, NEW p \in Procs, NEW b \in Batches, ClaimTooLarge(p, b)
  PROVE  TypeInv'
<1> DEFINE seen == tasks[p][b].seen
           new == [seen EXCEPT !.status = "needs_attention"]
<1>1. seen \in Rows /\ batch[b] \in Rows
  BY SlottedTask DEF TypeInv, BatchTypes
<1>2. new \in Rows
  BY <1>1 DEF Rows, BatchRow, BatchStatus
<1>3. batch' = [batch EXCEPT ![b] = Flush(batch[b], seen, new)]
  BY DEF ClaimTooLarge
<1>4. BatchTypes'
  BY <1>1, <1>2, <1>3, FlushType, NewRow DEF TypeInv
<1>5. TaskTypes' /\ pending_starts' \in [Procs -> SUBSET Batches]
  BY EndTaskType DEF ClaimTooLarge, TypeInv
<1>6. QED
  BY <1>4, <1>5
     DEF ClaimTooLarge, TypeInv, CallTypes, RequestTypes, ControlTypes, ReceiptTypes, procVars,
         memVars, ghostVars

\* A free slot is left for the call that is claimed, so its order stays within Slots.
LEMMA NextOrder ==
  ASSUME NEW b \in Batches, NEW k \in SlotIds \ ClaimedSlots(b)
  PROVE  Cardinality(ClaimedSlots(b)) + 1 \in 0 .. Slots
<1>1. IsFiniteSet(SlotIds) /\ Cardinality(SlotIds) = Slots
  BY FS_Interval, ConstantsAssumption DEF SlotIds
<1>2. ClaimedSlots(b) \subseteq SlotIds
  BY DEF ClaimedSlots
<1>3. IsFiniteSet(ClaimedSlots(b)) /\ Cardinality(ClaimedSlots(b)) \in Nat
  BY <1>1, <1>2, FS_Subset, FS_CardinalityType
<1>4. Cardinality(ClaimedSlots(b) \cup {k}) = Cardinality(ClaimedSlots(b)) + 1
  BY <1>3, FS_AddElement
<1>5. ClaimedSlots(b) \cup {k} \subseteq SlotIds
  BY <1>2
<1>6. Cardinality(ClaimedSlots(b) \cup {k}) <= Slots
  BY <1>1, <1>5, FS_Subset
<1>7. QED
  BY <1>3, <1>4, <1>6, ConstantsAssumption

LEMMA ClaimType ==
  ASSUME TypeInv, NEW p \in Procs, NEW b \in Batches, Claim(p, b)
  PROVE  TypeInv'
<1> DEFINE seen == tasks[p][b].seen
           slot == SlotFor(b, seen)
           at   == Cardinality(ClaimedSlots(b)) + 1
           new  == [NoCall EXCEPT !.status = "executing", !.action = seen.next, !.at = at,
                                  !.rev = seen.state.rev, !.text = seen.state.text]
           row  == [seen EXCEPT !.status = "running"]
<1>1. seen \in Rows /\ batch[b] \in Rows
  BY SlottedTask DEF TypeInv, BatchTypes
<1>2. slot \in SlotIds
  <2>1. seen.next \in SlotIds
    BY <1>1, ConstantsAssumption DEF Claim, Claiming, MayClaim, Rows, BatchRow, SlotIds
  <2>2. Replays(b, seen) => seen.state.replacement \in SlotIds
    BY <1>1, ConstantsAssumption DEF Replays, Rows, BatchRow, State, SlotIds
  <2>3. QED
    BY <2>1, <2>2 DEF SlotFor
<1>3. at \in 0 .. Slots
  <2>1. slot \notin ClaimedSlots(b)
    BY DEF Claim, SlotOpen, ClaimedSlots
  <2>2. QED
    BY <1>2, <2>1, NextOrder
<1>4. CallTypes'
  <2>1. /\ seen.next \in 0 .. Steps /\ seen.state.rev \in 0 .. MaxEdits
        /\ seen.state.text \in Texts /\ NoCall \in CallRow
    BY <1>1, EmptyRows DEF Rows, BatchRow, State
  <2> HIDE DEF seen, at
  <2>2. new \in CallRow
    BY <1>3, <2>1 DEF CallRow, CallStatus
  <2> HIDE DEF new, slot
  <2>3. call' = [call EXCEPT ![<<b, slot>>] = new]
    BY DEF Claim, new, at, seen, slot
  <2>4. QED
    BY <2>2, <2>3 DEF TypeInv, CallTypes
<1>5. BatchTypes'
  <2>1. row \in Rows
    BY <1>1 DEF Rows, BatchRow, BatchStatus
  <2>2. batch' = [batch EXCEPT ![b] = Flush(batch[b], seen, row)]
    BY DEF Claim
  <2>3. QED
    BY <1>1, <2>1, <2>2, FlushType, NewRow DEF TypeInv
<1>6. TaskTypes'
  <2>1. [Idle EXCEPT !.pc = "send", !.slot = slot] \in TaskRows
    <3>1. slot \in 0 .. Slots /\ "send" \in TaskPc /\ Idle \in TaskRows
      BY <1>2, EmptyRows DEF SlotIds, TaskPc
    <3> HIDE DEF slot
    <3>2. QED
      BY <1>2, <3>1 DEF TaskRows, TaskRow
  <2>2. QED
    BY <2>1, NewTask DEF Claim, TypeInv
<1>7. QED
  BY <1>4, <1>5, <1>6
     DEF Claim, TypeInv, RequestTypes, ControlTypes, ReceiptTypes, procVars, startVars, memVars,
         ghostVars

LEMMA SendRefusedType ==
  ASSUME TypeInv, NEW p \in Procs, NEW b \in Batches, SendRefused(p, b)
  PROVE  TypeInv'
<1>1. TaskTypes'
  BY GotoType DEF SendRefused, At, TypeInv, TaskPc, Slotted
<1>2. QED
  BY <1>1
     DEF SendRefused, TypeInv, BatchTypes, CallTypes, RequestTypes, ControlTypes, ReceiptTypes,
         dbVars, procVars, startVars, memVars, ghostVars

LEMMA SendType ==
  ASSUME TypeInv, NEW p \in Procs, NEW b \in Batches, Send(p, b)
  PROVE  TypeInv'
<1>1. TaskTypes'
  BY GotoType DEF Send, At, TypeInv, TaskPc, Slotted
<1>2. ReceiptTypes'
  BY SlottedTask DEF Send, At, TypeInv, ReceiptTypes, Slotted, memVars
<1>3. QED
  BY <1>1, <1>2
     DEF Send, TypeInv, BatchTypes, CallTypes, RequestTypes, ControlTypes, dbVars, procVars,
         startVars

LEMMA ReceiveType ==
  ASSUME TypeInv, NEW p \in Procs, NEW b \in Batches, NEW reply \in Replies,
         Receive(p, b, reply)
  PROVE  TypeInv'
<1>1. TaskTypes'
  BY GotoType DEF Receive, At, TypeInv, TaskPc, Slotted
<1>2. ReceiptTypes'
  BY SlottedTask DEF Receive, At, TypeInv, ReceiptTypes, Slotted
<1>3. QED
  BY <1>1, <1>2
     DEF Receive, TypeInv, BatchTypes, CallTypes, RequestTypes, ControlTypes, dbVars, procVars,
         startVars

LEMMA NoAnswerType ==
  ASSUME TypeInv, NEW p \in Procs, NEW b \in Batches, NoAnswer(p, b)
  PROVE  TypeInv'
<1>1. TaskTypes'
  BY GotoType DEF NoAnswer, At, TypeInv, TaskPc, Slotted
<1>2. QED
  BY <1>1
     DEF NoAnswer, TypeInv, BatchTypes, CallTypes, RequestTypes, ControlTypes, ReceiptTypes,
         dbVars, procVars, startVars, memVars, ghostVars

LEMMA SaveJournalType ==
  ASSUME TypeInv, NEW p \in Procs, NEW b \in Batches, SaveJournal(p, b)
  PROVE  TypeInv'
<1>1. TaskTypes'
  BY GotoType DEF SaveJournal, At, TypeInv, TaskPc, Slotted
<1>2. ReceiptTypes'
  BY SlottedTask DEF SaveJournal, At, TypeInv, ReceiptTypes, Slotted, ghostVars
<1>3. ControlTypes'
  BY ConstantsAssumption
     DEF SaveJournal, Fault, TypeInv, ControlTypes, dbVars, procVars, startVars
<1>4. QED
  BY <1>1, <1>2, <1>3 DEF SaveJournal, TypeInv, BatchTypes, CallTypes, RequestTypes, dbVars

LEMMA PersistType ==
  ASSUME CallTypes, ReceiptTypes, NEW c \in Calls, Persist(c)
  PROVE  CallTypes'
<1>1. [call[c] EXCEPT !.response = got[c], !.status = "response_saved"] \in CallRow
  BY DEF CallTypes, ReceiptTypes, CallRow, CallStatus
<1>2. QED
  BY <1>1 DEF Persist, CallTypes

LEMMA StoreType ==
  ASSUME TypeInv, NEW p \in Procs, NEW b \in Batches, Store(p, b)
  PROVE  TypeInv'
<1>1. CallOf(p, b) \in Calls /\ tasks[p][b].pc \in Slotted
  BY SlottedTask DEF Store, At, TypeInv, Slotted
<1>2. CallTypes'
  BY <1>1, PersistType DEF Store, TypeInv, CallTypes
<1>3. TaskTypes'
  BY <1>1, GotoType DEF Store, TypeInv, TaskPc, Slotted
<1>4. faults' \in 0 .. MaxFaults
  BY ConstantsAssumption DEF Store, Fault, TypeInv, ControlTypes
<1>5. QED
  BY <1>2, <1>3, <1>4
     DEF Store, TypeInv, BatchTypes, RequestTypes, ControlTypes, ReceiptTypes, procVars,
         startVars, memVars, ghostVars

LEMMA ForgetResponseType ==
  ASSUME ReceiptTypes, faults \in 0 .. MaxFaults, NEW p \in Procs, NEW c \in Calls,
         ForgetResponse(p, c)
  PROVE  /\ pending_responses' \in [Procs -> SUBSET Calls]
         /\ journal' \subseteq Calls
         /\ faults' \in 0 .. MaxFaults
BY ConstantsAssumption DEF ForgetResponse, Fault, ReceiptTypes

LEMMA ForgetType ==
  ASSUME TypeInv, NEW p \in Procs, NEW b \in Batches, Forget(p, b)
  PROVE  TypeInv'
<1>1. CallOf(p, b) \in Calls /\ tasks[p][b].pc \in Slotted
  BY SlottedTask DEF Forget, At, TypeInv, Slotted
<1>2. /\ pending_responses' \in [Procs -> SUBSET Calls]
      /\ journal' \subseteq Calls
      /\ faults' \in 0 .. MaxFaults
  BY <1>1, ForgetResponseType DEF Forget, TypeInv, ControlTypes
<1>3. TaskTypes'
  BY <1>1, GotoType DEF Forget, TypeInv, TaskPc, Slotted
<1>4. QED
  BY <1>2, <1>3
     DEF Forget, TypeInv, BatchTypes, CallTypes, RequestTypes, ControlTypes, ReceiptTypes,
         dbVars, procVars, startVars, ghostVars
-----------------------------------------------------------------------------
(* Compilation.                                                            *)

LEMMA CompileReadType ==
  ASSUME TypeInv, NEW p \in Procs, NEW b \in Batches, CompileRead(p, b)
  PROVE  TypeInv'
<1> DEFINE t == [tasks[p][b] EXCEPT !.pc = "compile", !.seen = batch[b],
                                    !.callStatus = call[CallOf(p, b)].status]
<1>1. /\ tasks[p][b] \in TaskRows /\ tasks[p][b].pc \in Slotted
      /\ tasks[p][b].slot \in SlotIds /\ CallOf(p, b) \in Calls
  BY SlottedTask DEF CompileRead, At, TypeInv, Slotted
<1>2. UNCHANGED <<dbVars, holder, mode, acquiring, startVars, memVars, requests, faults, ghostVars>>
  BY DEF CompileRead
<1>3. CASE CheckOwner(p)
  <2>1. batch[b] \in Rows /\ call[CallOf(p, b)].status \in CallStatus
    BY <1>1 DEF TypeInv, BatchTypes, CallTypes, CallRow
  <2>2. t \in TaskRows
    BY <1>1, <2>1 DEF TaskRows, TaskRow, TaskPc, Rows
  <2>3. tasks' = [tasks EXCEPT ![p][b] = t] /\ UNCHANGED available
    BY ZenonT(60), <1>3 DEF CompileRead, TypeInv, TaskTypes
  <2> HIDE DEF t
  <2>4. TaskTypes'
    BY <2>2, <2>3, NewTask DEF TypeInv
  <2>5. QED
    BY <1>2, <2>3, <2>4
       DEF TypeInv, BatchTypes, CallTypes, RequestTypes, ControlTypes, ReceiptTypes, dbVars,
           startVars, memVars, ghostVars
<1>4. CASE ~CheckOwner(p)
  <2>1. Goto(p, b, "fail") /\ available' = [available EXCEPT ![p] = FALSE]
    BY <1>4 DEF CompileRead
  <2>2. TaskTypes'
    BY <2>1, GotoType DEF TypeInv, TaskPc, Slotted
  <2>3. QED
    BY <1>2, <2>1, <2>2
       DEF TypeInv, BatchTypes, CallTypes, RequestTypes, ControlTypes, ReceiptTypes, dbVars,
           startVars, memVars, ghostVars
<1>5. QED
  BY <1>3, <1>4

\* Whatever the interpretation decides is a row.
LEMMA OutcomeType ==
  ASSUME CallTypes, NEW c \in Calls, NEW row \in Rows, NEW o \in Outcomes(c, row)
  PROVE  o.row \in Rows /\ o.status \in CallStatus
<1> DEFINE a == call[c].action
<1>1. a \in 0 .. Steps /\ Steps \in 0 .. Steps /\ 0 \in 0 .. Steps /\ row.state \in State
  BY ConstantsAssumption DEF CallTypes, CallRow, Rows, BatchRow
<1>2. ASSUME NEW left \in Remains(c, row) PROVE left \in Rows
  <2>1. CASE left = row
    BY <2>1
  <2>2. CASE left = [row EXCEPT !.state.text = "partial"]
    <3> DEFINE state == [row.state EXCEPT !.text = "partial"]
    <3>1. state \in State /\ (state.failed # 0 => state.replacement # 0)
      BY <1>1 DEF Rows, State, Texts
    <3>2. left = [row EXCEPT !.state = state]
      BY <2>2
    <3> HIDE DEF state
    <3>3. QED
      BY <3>1, <3>2 DEF Rows, BatchRow
  <2>3. QED
    BY <2>1, <2>2 DEF Remains
<1>3. CASE got[c] = "cut"
  <2>1. PICK left \in Remains(c, row) :
          o = [status |-> "outcome_uncertain",
               row |-> [left EXCEPT !.status = "outcome_uncertain", !.next = 0]]
    BY <1>3 DEF Outcomes
  <2>2. left \in Rows
    BY <1>2
  <2>3. [left EXCEPT !.status = "outcome_uncertain", !.next = 0] \in Rows
    BY <1>1, <2>2 DEF Rows, BatchRow, BatchStatus
  <2>4. QED
    BY <2>1, <2>3 DEF CallStatus
<1>4. CASE got[c] # "cut" /\ Usable(c, row)
  <2> DEFINE n == NextAction(a)
             text == TextAfter(a, row.state.text)
             state == [row.state EXCEPT !.done = a, !.text = text]
  <2>1. PICK st \in After(a) :
          o = [status |-> "completed",
               row |-> [row EXCEPT !.status = st, !.next = n, !.state.done = a, !.state.text = text]]
    BY <1>4 DEF Outcomes
  <2>2. st \in BatchStatus
    BY DEF After, BatchStatus
  <2>3. n \in 0 .. Steps /\ text \in Texts
    BY <1>1, NextActionType DEF TextAfter, State, Texts
  <2>4. state \in State /\ (state.failed # 0 => state.replacement # 0)
    BY <1>1, <2>3 DEF Rows, State
  <2>5. o.status = "completed" /\ o.row = [row EXCEPT !.status = st, !.next = n, !.state = state]
    BY <2>1 DEF Rows, BatchRow, State
  <2> HIDE DEF n, state
  <2>6. [row EXCEPT !.status = st, !.next = n, !.state = state] \in Rows
    BY <2>2, <2>3, <2>4 DEF Rows, BatchRow
  <2>7. QED
    BY <2>5, <2>6 DEF CallStatus
<1>5. CASE got[c] # "cut" /\ ~Usable(c, row)
  <2>1. /\ o.status = "local_failure"
        /\ \/ \E left \in Remains(c, row) :
                o.row = [left EXCEPT !.status = "needs_attention", !.next = 0]
           \/ o.row = [row EXCEPT !.status = "queued", !.next = Steps]
    <3> DEFINE New == {[left EXCEPT !.status = "needs_attention", !.next = 0] :
                         left \in Remains(c, row)}
                      \cup (IF Skippable(c, row)
                            THEN {[row EXCEPT !.status = "queued", !.next = Steps]} ELSE {})
    <3>1. PICK new \in New : o = [status |-> "local_failure", row |-> new]
      BY <1>5 DEF Outcomes
    <3>2. QED
      BY <3>1
  <2>2. CASE o.row = [row EXCEPT !.status = "queued", !.next = Steps]
    BY <1>1, <2>1, <2>2 DEF Rows, BatchRow, BatchStatus, CallStatus
  <2>3. CASE \E left \in Remains(c, row) :
               o.row = [left EXCEPT !.status = "needs_attention", !.next = 0]
    <3>1. PICK left \in Remains(c, row) :
            o.row = [left EXCEPT !.status = "needs_attention", !.next = 0]
      BY <2>3
    <3>2. left \in Rows
      BY <1>2
    <3>3. QED
      BY ZenonT(60), <1>1, <2>1, <3>1, <3>2 DEF Rows, BatchRow, BatchStatus, CallStatus
  <2>4. QED
    BY <2>1, <2>2, <2>3
<1>6. QED
  BY <1>3, <1>4, <1>5

LEMMA CompileResponseType ==
  ASSUME BatchTypes, CallTypes, ReceiptTypes, NEW c \in Calls, NEW seen \in Rows,
         NEW callStatus \in CallStatus, CompileResponse(c, seen, callStatus)
  PROVE  BatchTypes' /\ CallTypes' /\ handoffs' \in [Calls -> Nat]
<1>1. c[1] \in Batches /\ c[2] \in SlotIds
  BY DEF Calls
<1>2. CASE NothingToCompile(c, seen, callStatus)
  BY <1>2 DEF CompileResponse, BatchTypes, CallTypes, ReceiptTypes
<1>3. CASE ~NothingToCompile(c, seen, callStatus)
  <2> DEFINE state == [seen.state EXCEPT !.compiled = @ \cup {c[2]}]
             row == [seen EXCEPT !.state.compiled = @ \cup {c[2]}]
  <2>1. row \in Rows
    <3>1. state \in State /\ (state.failed # 0 => state.replacement # 0)
      BY <1>1 DEF Rows, BatchRow, State
    <3>2. row = [seen EXCEPT !.state = state]
      OBVIOUS
    <3> HIDE DEF state, row
    <3>3. QED
      BY <3>1, <3>2 DEF Rows, BatchRow
  <2>2. PICK o \in Outcomes(c, row) :
          /\ batch' = [batch EXCEPT ![c[1]] = Flush(@, seen, Honoured(o.row))]
          /\ call' = [call EXCEPT ![c].status = Column(@, callStatus, o.status),
                                  ![c].interrupted = FALSE]
          /\ handoffs' = [handoffs EXCEPT ![c] = IF o.status = "completed" THEN @ + 1 ELSE @]
    BY <1>3 DEF CompileResponse
  <2> HIDE DEF row
  <2>3. o.row \in Rows /\ o.status \in CallStatus
    BY <2>1, OutcomeType
  <2>4. Honoured(o.row) \in Rows
    BY <2>3 DEF Honoured, Rows, BatchRow, BatchStatus
  <2>5. BatchTypes'
    BY <1>1, <2>2, <2>4, FlushType, NewRow DEF BatchTypes
  <2>6. CallTypes'
    <3> DEFINE new == [call[c] EXCEPT !.status = Column(@, callStatus, o.status),
                                      !.interrupted = FALSE]
    <3>1. new \in CallRow
      BY <2>3 DEF CallTypes, CallRow, Column
    <3>2. call' = [call EXCEPT ![c] = new]
      BY <2>2 DEF CallTypes, CallRow
    <3> HIDE DEF new
    <3>3. QED
      BY <3>1, <3>2 DEF CallTypes
  <2>7. handoffs' \in [Calls -> Nat]
    BY <2>2 DEF ReceiptTypes
  <2>8. QED
    BY <2>5, <2>6, <2>7
<1>4. QED
  BY <1>2, <1>3

LEMMA CompileType ==
  ASSUME TypeInv, NEW p \in Procs, NEW b \in Batches, Compile(p, b)
  PROVE  TypeInv'
<1>1. /\ CallOf(p, b) \in Calls
      /\ tasks[p][b].seen \in Rows /\ tasks[p][b].callStatus \in CallStatus
  BY SlottedTask DEF Compile, At, TypeInv, Slotted
<1>2. BatchTypes' /\ CallTypes' /\ handoffs' \in [Calls -> Nat]
  BY <1>1, CompileResponseType DEF Compile, TypeInv
<1>3. TaskTypes'
  BY FreshTask, EmptyRows, NewTask DEF Compile, TypeInv, TaskPc, Slotted
<1>4. QED
  BY <1>2, <1>3
     DEF Compile, TypeInv, RequestTypes, ControlTypes, ReceiptTypes, procVars, startVars, memVars

LEMMA CompileRaisesType ==
  ASSUME TypeInv, NEW p \in Procs, NEW b \in Batches, CompileRaises(p, b)
  PROVE  TypeInv'
<1>1. TaskTypes'
  BY GotoType DEF CompileRaises, TypeInv, TaskPc, Slotted
<1>2. ControlTypes'
  BY ConstantsAssumption
     DEF CompileRaises, Fault, TypeInv, ControlTypes, dbVars, procVars, startVars
<1>3. QED
  BY <1>1, <1>2
     DEF CompileRaises, TypeInv, BatchTypes, CallTypes, RequestTypes, ReceiptTypes, dbVars,
         memVars, ghostVars
-----------------------------------------------------------------------------
(* Failures.                                                               *)

LEMMA FailReadType ==
  ASSUME TypeInv, NEW p \in Procs, NEW b \in Batches, FailRead(p, b)
  PROVE  TypeInv'
<1>1. batch[b] \in Rows /\ "fail_write" \in TaskPc \ Slotted
  BY DEF TypeInv, BatchTypes, TaskPc, Slotted
<1>2. TaskTypes'
  BY <1>1, FreshTask, NewTask DEF FailRead, TypeInv
<1>3. QED
  BY <1>2
     DEF FailRead, TypeInv, BatchTypes, CallTypes, RequestTypes, ControlTypes, ReceiptTypes,
         dbVars, procVars, startVars, memVars, ghostVars

\* local_failure and finish_error write rows.
LEMMA FailureRows ==
  ASSUME NEW stored \in Rows, NEW seen \in Rows, NEW status \in BatchStatus
  PROVE  NeedsAttention(stored, seen) \in Rows /\ Errored(stored, seen, status) \in Rows
<1>1. 0 \in 0 .. Steps /\ "needs_attention" \in BatchStatus
  BY ConstantsAssumption DEF BatchStatus
<1>2. /\ [seen EXCEPT !.status = "needs_attention", !.next = 0] \in Rows
      /\ [seen EXCEPT !.status = status, !.next = 0] \in Rows
  BY <1>1 DEF Rows, BatchRow
<1>3. QED
  BY <1>2, FlushType DEF NeedsAttention, Errored

LEMMA FailWriteType ==
  ASSUME TypeInv, NEW p \in Procs, NEW b \in Batches, FailWrite(p, b)
  PROVE  TypeInv'
<1>1. BatchTypes'
  <2>1. batch[b] \in Rows /\ tasks[p][b].seen \in Rows /\ "failed" \in BatchStatus
    BY SlottedTask DEF TypeInv, BatchTypes, BatchStatus
  <2>2. NeedsAttention(batch[b], tasks[p][b].seen) \in Rows
    BY <2>1, FailureRows
  <2>3. \/ batch' = [batch EXCEPT ![b] = NeedsAttention(batch[b], tasks[p][b].seen)]
        \/ UNCHANGED batch
    BY DEF FailWrite
  <2>4. QED
    BY <2>2, <2>3, NewRow DEF TypeInv, BatchTypes
<1>2. TaskTypes' /\ pending_starts' \in [Procs -> SUBSET Batches]
  BY EndTaskType DEF FailWrite, TypeInv
<1>3. available' \in [Procs -> BOOLEAN] /\ faults' \in 0 .. MaxFaults
  <2>1. \/ UNCHANGED <<available, faults>>
        \/ /\ faults < MaxFaults /\ faults' = faults + 1
           /\ available' = [available EXCEPT ![p] = FALSE]
    BY DEF FailWrite, Fault
  <2>2. faults' \in 0 .. MaxFaults
    BY <2>1, ConstantsAssumption DEF TypeInv, ControlTypes
  <2>3. available' \in [Procs -> BOOLEAN]
    BY <2>1 DEF TypeInv, ControlTypes
  <2>4. QED
    BY <2>2, <2>3
<1>4. QED
  BY <1>1, <1>2, <1>3
     DEF FailWrite, TypeInv, CallTypes, RequestTypes, ControlTypes, ReceiptTypes, memVars,
         ghostVars

LEMMA FinishErrorReadType ==
  ASSUME TypeInv, NEW p \in Procs, NEW b \in Batches, FinishErrorRead(p, b)
  PROVE  TypeInv'
<1>1. PICK to \in {"refused_write", "unknown_write"} :
        /\ tasks[p][b].pc \in Slotted
        /\ tasks' = [tasks EXCEPT ![p][b].pc = to, ![p][b].seen = batch[b],
                                  ![p][b].callStatus = call[CallOf(p, b)].status]
        /\ UNCHANGED <<dbVars, procVars, startVars, memVars, requests, faults, ghostVars>>
  BY DEF FinishErrorRead, ErrorRead, At, Slotted
<1> DEFINE t == [tasks[p][b] EXCEPT !.pc = to, !.seen = batch[b],
                                    !.callStatus = call[CallOf(p, b)].status]
<1>2. tasks[p][b] \in TaskRows /\ tasks[p][b].slot \in SlotIds /\ CallOf(p, b) \in Calls
  BY <1>1, SlottedTask DEF TypeInv
<1>3. batch[b] \in Rows /\ call[CallOf(p, b)].status \in CallStatus
  BY <1>2 DEF TypeInv, BatchTypes, CallTypes, CallRow
<1>4. t \in TaskRows
  BY <1>2, <1>3 DEF TaskRows, TaskRow, TaskPc, Rows
<1>5. tasks' = [tasks EXCEPT ![p][b] = t]
  BY <1>1 DEF TypeInv, TaskTypes
<1> HIDE DEF t
<1>6. TaskTypes'
  BY <1>4, <1>5, NewTask DEF TypeInv
<1>7. QED
  BY <1>1, <1>6
     DEF TypeInv, BatchTypes, CallTypes, RequestTypes, ControlTypes, ReceiptTypes, dbVars,
         procVars, startVars, memVars, ghostVars

LEMMA FinishErrorType ==
  ASSUME TypeInv, NEW p \in Procs, NEW b \in Batches, FinishError(p, b)
  PROVE  TypeInv'
<1>1. PICK callStatus \in {"not_dispatched", "outcome_uncertain"},
           batchStatus \in {"failed", "outcome_uncertain"} :
        /\ tasks[p][b].pc \in Slotted
        /\ call' = [call EXCEPT ![CallOf(p, b)].status =
                                  Column(@, tasks[p][b].callStatus, callStatus),
                                ![CallOf(p, b)].interrupted = FALSE]
        /\ batch' = [batch EXCEPT ![b] = Errored(@, tasks[p][b].seen, batchStatus)]
        /\ EndTask(p, b)
        /\ UNCHANGED <<version, procVars, starts, memVars, requests, faults, ghostVars>>
  BY DEF FinishError, ErrorWrite, At, Slotted
<1> DEFINE c == CallOf(p, b)
           new == [call[c] EXCEPT !.status = Column(@, tasks[p][b].callStatus, callStatus),
                                  !.interrupted = FALSE]
<1>2. c \in Calls /\ tasks[p][b].seen \in Rows /\ batch[b] \in Rows
  BY <1>1, SlottedTask DEF TypeInv, BatchTypes
<1>3. BatchTypes'
  BY <1>1, <1>2, FailureRows, NewRow DEF TypeInv, BatchStatus
<1>4. CallTypes'
  <2>1. new \in CallRow
    BY <1>2 DEF TypeInv, CallTypes, CallRow, CallStatus, Column
  <2>2. call' = [call EXCEPT ![c] = new]
    BY <1>1, <1>2 DEF TypeInv, CallTypes, CallRow
  <2> HIDE DEF new
  <2>3. QED
    BY <2>1, <2>2 DEF TypeInv, CallTypes
<1>5. TaskTypes' /\ pending_starts' \in [Procs -> SUBSET Batches]
  BY <1>1, EndTaskType DEF TypeInv
<1>6. QED
  BY <1>1, <1>3, <1>4, <1>5
     DEF TypeInv, RequestTypes, ControlTypes, ReceiptTypes, procVars, memVars, ghostVars

LEMMA FinishErrorFailsType ==
  ASSUME TypeInv, NEW p \in Procs, NEW b \in Batches, FinishErrorFails(p, b)
  PROVE  TypeInv'
<1>1. TaskTypes'
  BY GotoType DEF FinishErrorFails, TypeInv, TaskPc, Slotted
<1>2. ControlTypes'
  BY ConstantsAssumption
     DEF FinishErrorFails, Fault, TypeInv, ControlTypes, dbVars, procVars, startVars
<1>3. QED
  BY <1>1, <1>2
     DEF FinishErrorFails, TypeInv, BatchTypes, CallTypes, RequestTypes, ReceiptTypes, dbVars,
         memVars, ghostVars

-----------------------------------------------------------------------------
(* Local recovery.                                                         *)

LEMMA RecoverType ==
  ASSUME TypeInv, NEW p \in Procs, NEW c \in Calls, Recover(p, c)
  PROVE  TypeInv'
<1>1. c[1] \in Batches
  BY DEF Calls
<1>2. BatchTypes'
  <2>1. batch[c[1]] \in Rows /\ 0 \in 0 .. Steps /\ "needs_attention" \in BatchStatus
    BY <1>1, ConstantsAssumption DEF TypeInv, BatchTypes, BatchStatus
  <2>2. [batch[c[1]] EXCEPT !.pause = TRUE, !.status = "needs_attention", !.next = 0] \in Rows
    BY <2>1 DEF Rows, BatchRow
  <2>3. \/ UNCHANGED batch
        \/ batch' = [batch EXCEPT ![c[1]] = [batch[c[1]] EXCEPT !.pause = TRUE,
                                               !.status = "needs_attention", !.next = 0]]
    BY <1>1 DEF Recover, TypeInv, BatchTypes, Rows, BatchRow
  <2>4. QED
    BY <1>1, <2>2, <2>3, NewRow DEF TypeInv, BatchTypes
<1>3. CallTypes'
  BY PersistType DEF Recover, TypeInv
<1>4. /\ pending_responses' \in [Procs -> SUBSET Calls]
      /\ journal' \subseteq Calls
      /\ faults' \in 0 .. MaxFaults
  BY ForgetResponseType DEF Recover, TypeInv, ControlTypes
<1>5. QED
  BY <1>2, <1>3, <1>4
     DEF Recover, TypeInv, TaskTypes, RequestTypes, ControlTypes, ReceiptTypes, procVars,
         startVars, ghostVars

LEMMA NewRequest ==
  ASSUME RequestTypes, NEW p \in Procs, NEW r \in Requests, NEW q \in RequestRows,
         requests' = [requests EXCEPT ![p][r] = q]
  PROVE  RequestTypes'
BY DEF RequestTypes

LEMMA RevalidateType ==
  ASSUME TypeInv, NEW p \in Procs, NEW r \in Requests, NEW c \in Calls, Revalidate(p, r, c)
  PROVE  TypeInv'
<1>1. BatchTypes'
  <2>1. c[1] \in Batches /\ batch[c[1]] \in Rows
    BY DEF Calls, TypeInv, BatchTypes
  <2>2. [batch[c[1]] EXCEPT !.pause = TRUE] \in Rows
    BY <2>1 DEF Rows, BatchRow
  <2>3. batch' = [batch EXCEPT ![c[1]] = [batch[c[1]] EXCEPT !.pause = TRUE]]
    BY DEF Revalidate
  <2>4. QED
    BY <2>1, <2>2, <2>3, NewRow DEF TypeInv
<1>2. RequestTypes'
  <2>1. [NoRequest EXCEPT !.pc = "asked", !.target = c] \in RequestRows
    BY EmptyRows DEF RequestRows, RequestRow, NoRequest
  <2>2. QED
    BY <2>1, NewRequest DEF Revalidate, TypeInv
<1>3. QED
  BY <1>1, <1>2
     DEF Revalidate, TypeInv, CallTypes, TaskTypes, ControlTypes, ReceiptTypes, procVars,
         startVars, memVars, ghostVars

LEMMA RevalidateReadType ==
  ASSUME TypeInv, NEW p \in Procs, NEW r \in Requests, RevalidateRead(p, r)
  PROVE  TypeInv'
<1> DEFINE c == requests[p][r].target
           q == [requests[p][r] EXCEPT !.pc = "read", !.seen = batch[c[1]],
                                       !.callStatus = call[c].status]
<1>1. requests[p][r] \in RequestRows /\ c \in Calls
  BY DEF RevalidateRead, TypeInv, RequestTypes, RequestRows
<1>2. batch[c[1]] \in Rows /\ call[c].status \in CallStatus
  BY <1>1 DEF Calls, TypeInv, BatchTypes, CallTypes, CallRow
<1>3. q \in RequestRows
  BY <1>1, <1>2 DEF RequestRows, RequestRow, Rows
<1>4. requests' = [requests EXCEPT ![p][r] = q]
  BY DEF RevalidateRead, TypeInv, RequestTypes
<1> HIDE DEF q
<1>5. RequestTypes'
  BY <1>3, <1>4, NewRequest DEF TypeInv
<1>6. QED
  BY <1>5
     DEF RevalidateRead, TypeInv, BatchTypes, CallTypes, TaskTypes, ControlTypes, ReceiptTypes,
         dbVars, procVars, startVars, memVars, ghostVars

LEMMA RevalidateCompileType ==
  ASSUME TypeInv, NEW p \in Procs, NEW r \in Requests, RevalidateCompile(p, r)
  PROVE  TypeInv'
<1> DEFINE q == requests[p][r]
<1>1. q.target \in Calls /\ q.seen \in Rows /\ q.callStatus \in CallStatus
  BY DEF RevalidateCompile, TypeInv, RequestTypes, RequestRows, RequestRow
<1>2. BatchTypes' /\ CallTypes' /\ handoffs' \in [Calls -> Nat]
  BY <1>1, CompileResponseType DEF RevalidateCompile, TypeInv
<1>3. RequestTypes'
  BY EmptyRows, NewRequest DEF RevalidateCompile, TypeInv
<1>4. QED
  BY <1>2, <1>3
     DEF RevalidateCompile, TypeInv, TaskTypes, ControlTypes, ReceiptTypes, procVars, startVars,
         memVars

-----------------------------------------------------------------------------
(* Every step keeps the types.                                             *)

LEMMA TypeStep == TypeInv /\ [Next]_vars => TypeInv'
<1> SUFFICES ASSUME TypeInv, [Next]_vars PROVE TypeInv'
  OBVIOUS
<1>1. CASE UNCHANGED vars
  BY <1>1
     DEF vars, TypeInv, BatchTypes, CallTypes, TaskTypes, RequestTypes, ControlTypes,
         ReceiptTypes, dbVars, procVars, startVars, memVars, ghostVars
<1>2. ASSUME NEW p \in Procs, Process(p) PROVE TypeInv'
  BY <1>2, BootType, AcquireOwnerType, OpenServiceType, DiscardOwnerType, LoseOwnerType,
     CrashType, DrainType, CloseType, StartType, CancelType, RecoverType
     DEF Process
<1>3. ASSUME NEW p \in Procs, NEW b \in Batches, Command(p, b) PROVE TypeInv'
  BY <1>3, CreateType, AuthorizeType, PauseType, AuthorizeInputType, AuthorizeStepType,
     ResolveUnknownType, EditPlanType, EditCandidateType, AdoptType
     DEF Command
<1>4. ASSUME NEW p \in Procs, NEW b \in Batches, Run(p, b) PROVE TypeInv'
  BY <1>4, ClaimReadType, ClaimNothingType, ClaimRefusedType, ClaimTooLargeType, ClaimType,
     SendRefusedType, SendType, ReceiveType, NoAnswerType, SaveJournalType, StoreType,
     ForgetType, CompileReadType, CompileType, CompileRaisesType, FailReadType, FailWriteType,
     FinishErrorReadType, FinishErrorType, FinishErrorFailsType
     DEF Run
<1>5. ASSUME NEW p \in Procs, NEW r \in Requests, Revalidation(p, r) PROVE TypeInv'
  BY <1>5, RevalidateType, RevalidateReadType, RevalidateCompileType DEF Revalidation
<1>6. QED
  BY <1>1, <1>2, <1>3, <1>4, <1>5 DEF Next

\* Every variable keeps its shape, for any number of stages, processes and slots.
THEOREM TypeCorrect == Spec => []TypeOK
<1>1. Init => TypeInv
  BY TypeInit
<1>2. TypeInv /\ [Next]_vars => TypeInv'
  BY TypeStep
<1>3. TypeInv => TypeOK
  BY TypeInvImpliesTypeOK
<1>4. QED
  BY <1>1, <1>2, <1>3, PTL DEF Spec


-----------------------------------------------------------------------------
(* The inductive invariant.  That a call is sent once depends on where the *)
(* tasks of all processes stand, so the invariant ties the place of a task *)
(* to the ledger of the call it works on; and two tasks of one stage never *)
(* stand before the answer of the same call, because a slot is claimed     *)
(* only while its row does not exist.                                      *)

Sending == {"send", "flight"}

\* What the place of a task t of batch b says about the call it works on.
Place(b, t) ==
  LET c == <<b, t.slot>> IN
  /\ t.pc \in Slotted => call[c].status # "none"
  /\ t.pc = "send" => sent[c] = 0
  /\ t.pc = "flight" => sent[c] = 1 /\ got[c] = "none"
  /\ t.pc \in {"journal", "store"} => got[c] # "none"
  /\ t.pc \in {"forget", "check", "compile"} => call[c].response # "none"

\* A call is sent once, after its row exists; it is answered once, after it was sent; its
\* row keeps the answer.
CallLedger ==
  \A c \in Calls :
    /\ sent[c] \in {0, 1}
    /\ sent[c] = 0 => got[c] = "none"
    /\ call[c].status = "none" => sent[c] = 0
    /\ call[c].response # "none" => call[c].response = got[c]

TaskLedger == \A p \in Procs, b \in Batches : Place(b, tasks[p][b])

OneSender ==
  \A p, q \in Procs, b \in Batches :
    /\ tasks[p][b].pc \in Sending /\ tasks[q][b].pc \in Sending
    /\ tasks[p][b].slot = tasks[q][b].slot
    => p = q

\* A receipt, in memory or in the journal, is one of an answered call.
ReceiptLedger ==
  /\ \A c \in journal : got[c] # "none"
  /\ \A p \in Procs : \A c \in pending_responses[p] : got[c] # "none"

RequestLedger ==
  \A p \in Procs, r \in Requests :
    requests[p][r].pc # "idle" => call[requests[p][r].target].response # "none"

LedgerInv ==
  TypeInv /\ CallLedger /\ TaskLedger /\ OneSender /\ ReceiptLedger /\ RequestLedger

LEMMA LedgerInit == Init => LedgerInv
BY TypeInit
   DEF Init, LedgerInv, CallLedger, TaskLedger, Place, OneSender, Sending, ReceiptLedger,
       RequestLedger, Idle, NoCall, NoRequest, Slotted

-----------------------------------------------------------------------------
(* Quiet steps: those that move tasks, rows and processes without touching *)
(* the ledger.                                                             *)

QuietCalls ==
  \A c \in Calls : /\ call'[c].status = "none" <=> call[c].status = "none"
                   /\ call'[c].response = call[c].response

\* No task takes a place its call does not allow, and none begins to send.
QuietTasks ==
  \A p \in Procs, b \in Batches :
    /\ Place(b, tasks'[p][b])
    /\ tasks'[p][b].pc \in Sending =>
         tasks[p][b].pc \in Sending /\ tasks'[p][b].slot = tasks[p][b].slot

QuietReceipts ==
  /\ \A c \in journal' : got[c] # "none"
  /\ \A p \in Procs : \A c \in pending_responses'[p] : got[c] # "none"

QuietRequests ==
  \A p \in Procs, r \in Requests :
    requests'[p][r].pc # "idle" => call[requests'[p][r].target].response # "none"

Quiet == QuietCalls /\ QuietTasks /\ QuietReceipts /\ QuietRequests /\ UNCHANGED <<sent, got>>

\* The call of a task of a stage is a call, and so is the target of a request.
LEMMA CallsOfTypes ==
  ASSUME TypeInv, NEW p \in Procs
  PROVE  /\ \A b \in Batches : tasks[p][b].pc \in Slotted => <<b, tasks[p][b].slot>> \in Calls
         /\ \A r \in Requests : requests[p][r].pc # "idle" => requests[p][r].target \in Calls
BY DEF TypeInv, TaskTypes, TaskRows, TaskRow, RequestTypes, RequestRows, Calls

LEMMA QuietStep == LedgerInv /\ TypeInv' /\ Quiet => LedgerInv'
<1> SUFFICES ASSUME LedgerInv, TypeInv', Quiet PROVE LedgerInv'
  OBVIOUS
<1>1. CallLedger'
  BY DEF LedgerInv, CallLedger, Quiet, QuietCalls
<1>2. TaskLedger'
  <2> SUFFICES ASSUME NEW p \in Procs, NEW b \in Batches PROVE Place(b, tasks[p][b])'
    BY DEF TaskLedger
  <2>1. Place(b, tasks'[p][b])
    BY DEF Quiet, QuietTasks
  <2>2. tasks'[p][b].pc \in Slotted => <<b, tasks'[p][b].slot>> \in Calls
    BY DEF TypeInv, TaskTypes, TaskRows, TaskRow, Calls
  <2>3. QED
    BY <2>1, <2>2 DEF Place, Slotted, Quiet, QuietCalls
<1>3. OneSender'
  BY DEF LedgerInv, OneSender, Quiet, QuietTasks
<1>4. ReceiptLedger'
  BY DEF ReceiptLedger, Quiet, QuietReceipts
<1>5. RequestLedger'
  <2> SUFFICES ASSUME NEW p \in Procs, NEW r \in Requests, requests'[p][r].pc # "idle"
               PROVE  call'[requests'[p][r].target].response # "none"
    BY DEF RequestLedger
  <2>1. requests'[p][r].target \in Calls
    BY DEF TypeInv, RequestTypes, RequestRows
  <2>2. QED
    BY <2>1 DEF Quiet, QuietCalls, QuietRequests
<1>6. QED
  BY <1>1, <1>2, <1>3, <1>4, <1>5 DEF LedgerInv

\* What does not change is quiet.
LEMMA Still ==
  ASSUME LedgerInv
  PROVE  /\ UNCHANGED call => QuietCalls
         /\ UNCHANGED tasks => QuietTasks
         /\ UNCHANGED <<pending_responses, journal>> => QuietReceipts
         /\ UNCHANGED requests => QuietRequests
BY DEF LedgerInv, QuietCalls, QuietTasks, TaskLedger, QuietReceipts, ReceiptLedger,
       QuietRequests, RequestLedger

\* One task that takes an allowed place.
LEMMA QuietTask ==
  ASSUME LedgerInv, NEW p \in Procs, NEW b \in Batches, NEW t,
         tasks' = [tasks EXCEPT ![p][b] = t], Place(b, t), t.pc \notin Sending
  PROVE  QuietTasks
BY DEF LedgerInv, TypeInv, TaskTypes, TaskLedger, QuietTasks

\* A place that is not tied to a slot is always allowed.
LEMMA FreePlace ==
  ASSUME NEW b, NEW t, t.pc \notin Slotted
  PROVE  Place(b, t) /\ t.pc \notin Sending
BY DEF Place, Slotted, Sending

LEMMA QuietGoto ==
  ASSUME LedgerInv, NEW p \in Procs, NEW b \in Batches, NEW pc, Goto(p, b, pc),
         Place(b, [tasks[p][b] EXCEPT !.pc = pc]), pc \notin Sending
  PROVE  QuietTasks
<1> DEFINE t == [tasks[p][b] EXCEPT !.pc = pc]
<1>1. tasks[p][b] \in TaskRow
  BY DEF LedgerInv, TypeInv, TaskTypes, TaskRows
<1>2. tasks' = [tasks EXCEPT ![p][b] = t] /\ t.pc = pc
  BY <1>1 DEF Goto, LedgerInv, TypeInv, TaskTypes, TaskRow
<1> HIDE DEF t
<1>3. QED
  BY <1>2, QuietTask DEF t

LEMMA QuietFree ==
  ASSUME LedgerInv, NEW p \in Procs, NEW b \in Batches, NEW pc \in TaskPc \ Slotted,
         Goto(p, b, pc)
  PROVE  QuietTasks
<1>1. [tasks[p][b] EXCEPT !.pc = pc].pc = pc
  BY DEF LedgerInv, TypeInv, TaskTypes, TaskRows, TaskRow
<1>2. QED
  BY <1>1, FreePlace, QuietGoto

LEMMA QuietEnd ==
  ASSUME LedgerInv, NEW p \in Procs, NEW b \in Batches, EndTask(p, b)
  PROVE  QuietTasks
<1> DEFINE t == IF b \in pending_starts[p] THEN [Idle EXCEPT !.pc = "loop"] ELSE Idle
<1>1. tasks' = [tasks EXCEPT ![p][b] = t]
  BY DEF EndTask
<1>2. t.pc \notin Slotted
  BY DEF Idle, Slotted
<1> HIDE DEF t
<1>3. QED
  BY <1>1, <1>2, FreePlace, QuietTask
-----------------------------------------------------------------------------
(* What every step has to show: it keeps the invariant, and it is a step   *)
(* of the ledger or none.                                                  *)

KeepsLedger == LedgerInv' /\ [Ledger!Next]_(Ledger!ledger)

LEMMA QuietKeeps ==
  ASSUME LedgerInv, TypeInv', Quiet, UNCHANGED handoffs
  PROVE  KeepsLedger
<1>1. LedgerInv'
  BY QuietStep
<1>2. {c \in Calls : call[c].status # "none"}' = {c \in Calls : call[c].status # "none"}
  BY DEF Quiet, QuietCalls
<1>3. [c \in Calls |-> call[c].response]' = [c \in Calls |-> call[c].response]
  BY DEF Quiet, QuietCalls
<1>4. UNCHANGED Ledger!ledger
  BY <1>2, <1>3 DEF Ledger!ledger, Quiet
<1>5. QED
  BY <1>1, <1>4 DEF KeepsLedger

-----------------------------------------------------------------------------
(* Commands and processes are quiet.                                       *)

\* Commands that write stages only.
LEMMA StageCommandKeeps ==
  ASSUME LedgerInv, TypeInv', NEW p \in Procs, NEW b \in Batches,
         \/ \E replace \in BOOLEAN : Create(p, b, replace)
         \/ Pause(p, b) \/ EditPlan(p, b) \/ EditCandidate(p, b) \/ Adopt(p, b)
  PROVE  KeepsLedger
<1>1. UNCHANGED <<call, tasks, memVars, requests, ghostVars>>
  BY DEF Create, Pause, EditPlan, EditCandidate, Adopt
<1>2. QED
  BY <1>1, Still, QuietKeeps DEF Quiet, memVars, ghostVars

LEMMA AuthorizationKeeps ==
  ASSUME LedgerInv, TypeInv', NEW p \in Procs, NEW b \in Batches,
         Authorize(p, b) \/ AuthorizeInput(p, b) \/ AuthorizeStep(p, b)
  PROVE  KeepsLedger
<1>1. UNCHANGED <<tasks, memVars, requests, ghostVars>>
  BY ZenonT(60) DEF Authorize, AuthorizeInput, AuthorizeStep, Authorized
<1>2. QuietCalls
  <2>1. CASE Authorize(p, b) \/ AuthorizeInput(p, b)
    BY <2>1, Still DEF Authorize, AuthorizeInput, Authorized
  <2>2. CASE AuthorizeStep(p, b)
    <3>1. PICK f \in ClaimedSlots(b) :
            call' = IF call[<<b, f>>].status = "outcome_uncertain"
                    THEN [call EXCEPT ![<<b, f>>].status = "uncertain_closed"] ELSE call
      BY ZenonT(60), <2>2 DEF AuthorizeStep, Authorized
    <3>2. <<b, f>> \in Calls /\ call[<<b, f>>].status # "none"
      BY DEF ClaimedSlots, Calls
    <3>3. QED
      BY SMTT(30), <3>1, <3>2 DEF QuietCalls, LedgerInv, TypeInv, CallTypes, CallRow
  <2>3. QED
    BY <2>1, <2>2
<1>3. QED
  BY <1>1, <1>2, Still, QuietKeeps DEF Quiet, memVars, ghostVars

LEMMA ResolveUnknownKeeps ==
  ASSUME LedgerInv, TypeInv', NEW p \in Procs, NEW b \in Batches, ResolveUnknown(p, b)
  PROVE  KeepsLedger
<1>1. UNCHANGED <<tasks, memVars, requests, ghostVars>>
  BY DEF ResolveUnknown
<1>2. QuietCalls
  BY DEF ResolveUnknown, QuietCalls, LedgerInv, TypeInv, CallTypes, CallRow
<1>3. QED
  BY <1>1, <1>2, Still, QuietKeeps DEF Quiet, memVars, ghostVars

\* Reconciliation changes what is known of a call, not that it exists nor its answer.
LEMMA ReconcileQuiet == LedgerInv /\ Reconcile => QuietCalls
BY DEF Reconcile, QuietCalls, LedgerInv, TypeInv, CallTypes, CallRow

LEMMA OwnerKeeps ==
  ASSUME LedgerInv, TypeInv', NEW p \in Procs,
         \/ Boot(p) \/ AcquireOwner(p) \/ DiscardOwner(p) \/ LoseOwner(p) \/ Drain(p)
         \/ OpenService(p)
  PROVE  KeepsLedger
<1>1. UNCHANGED <<tasks, memVars, requests, ghostVars>>
  BY DEF Boot, AcquireOwner, DiscardOwner, LoseOwner, Drain, OpenService
<1>2. QuietCalls
  BY Still, ReconcileQuiet
     DEF Boot, AcquireOwner, DiscardOwner, LoseOwner, Drain, OpenService, dbVars
<1>3. QED
  BY <1>1, <1>2, Still, QuietKeeps DEF Quiet, memVars, ghostVars

LEMMA GoneQuiet ==
  ASSUME LedgerInv, NEW p \in Procs, Gone(p)
  PROVE  QuietTasks /\ QuietReceipts /\ QuietRequests /\ UNCHANGED <<sent, got, handoffs>>
<1>1. ASSUME NEW q \in Procs, NEW b \in Batches
      PROVE  tasks'[q][b] = tasks[q][b] \/ tasks'[q][b] = Idle
  BY DEF Gone, LedgerInv, TypeInv, TaskTypes
<1>2. \A b \in Batches : Place(b, Idle) /\ Idle.pc \notin Sending
  BY FreePlace DEF Idle, Slotted
<1>3. QuietTasks
  BY <1>1, <1>2 DEF QuietTasks, LedgerInv, TaskLedger
<1>4. QuietReceipts
  BY DEF Gone, QuietReceipts, LedgerInv, ReceiptLedger, TypeInv, ReceiptTypes
<1>5. QuietRequests
  <2>1. ASSUME NEW q \in Procs, NEW r \in Requests
        PROVE  requests'[q][r] = requests[q][r] \/ requests'[q][r].pc = "idle"
    BY DEF Gone, NoRequest, LedgerInv, TypeInv, RequestTypes
  <2>2. QED
    BY <2>1 DEF QuietRequests, LedgerInv, RequestLedger
<1>6. QED
  BY <1>3, <1>4, <1>5 DEF Gone

LEMMA ExitKeeps ==
  ASSUME LedgerInv, TypeInv', NEW p \in Procs, Crash(p) \/ Close(p)
  PROVE  KeepsLedger
<1>1. QuietCalls
  BY Still, ReconcileQuiet DEF Crash, Close
<1>2. Gone(p)
  BY DEF Crash, Close
<1>3. QED
  BY <1>1, <1>2, GoneQuiet, QuietKeeps DEF Quiet

LEMMA StartKeeps ==
  ASSUME LedgerInv, TypeInv', NEW p \in Procs, NEW b \in Batches, Start(p, b)
  PROVE  KeepsLedger
<1>1. UNCHANGED <<call, memVars, requests, ghostVars>>
  BY DEF Start, dbVars
<1>2. UNCHANGED tasks \/ tasks' = [tasks EXCEPT ![p][b] = [Idle EXCEPT !.pc = "loop"]]
  BY DEF Start, StartRun
<1>3. QuietTasks
  BY <1>2, Still, QuietTask, FreePlace DEF Idle, Slotted
<1>4. QED
  BY <1>1, <1>3, Still, QuietKeeps DEF Quiet, memVars, ghostVars

\* A cancelled task keeps its slot only to report it unknown; a journal write that was
\* under way leaves a receipt of an answered call.
LEMMA CancelKeeps ==
  ASSUME LedgerInv, TypeInv', NEW p \in Procs, NEW b \in Batches, Cancel(p, b)
  PROVE  KeepsLedger
<1> DEFINE t == tasks[p][b]
<1>1. UNCHANGED <<call, pending_responses, requests, ghostVars>>
  BY DEF Cancel, dbVars
<1>2. QuietTasks
  <2>1. CASE CancelPc(t.pc) = "idle"
    BY <2>1, QuietTask, FreePlace DEF Cancel, Idle, Slotted
  <2>2. CASE CancelPc(t.pc) = "fail"
    BY <2>2, QuietFree DEF Cancel, TaskPc, Slotted
  <2>3. CASE CancelPc(t.pc) = "unknown"
    <3>1. t.pc \in Slotted /\ Place(b, t)
      BY <2>3 DEF CancelPc, Slotted, LedgerInv, TaskLedger
    <3>2. Place(b, [t EXCEPT !.pc = "unknown"])
      BY <3>1 DEF Place, LedgerInv, TypeInv, TaskTypes, TaskRows, TaskRow
    <3>3. QED
      BY <2>3, <3>2, QuietGoto DEF Cancel, Sending
  <2>4. QED
    BY <2>1, <2>2, <2>3 DEF CancelPc
<1>3. QuietReceipts
  <2>1. t.pc = "journal" => got[<<b, t.slot>>] # "none"
    BY DEF LedgerInv, TaskLedger, Place
  <2>2. QED
    BY <1>1, <2>1 DEF Cancel, QuietReceipts, LedgerInv, ReceiptLedger
<1>4. QED
  BY <1>1, <1>2, <1>3, Still, QuietKeeps DEF Quiet, ghostVars
-----------------------------------------------------------------------------
(* Steps of a task that are quiet.                                         *)

\* A task that goes to rest or to local_failure.
LEMMA LeavingKeeps ==
  ASSUME LedgerInv, TypeInv', NEW p \in Procs, NEW b \in Batches,
         \/ ClaimNothing(p, b) \/ ClaimRefused(p, b) \/ ClaimTooLarge(p, b)
         \/ CompileRaises(p, b) \/ FailWrite(p, b) \/ FinishErrorFails(p, b)
  PROVE  KeepsLedger
<1>1. UNCHANGED <<call, memVars, requests, ghostVars>>
  BY DEF ClaimNothing, ClaimRefused, ClaimTooLarge, CompileRaises, FailWrite,
         FinishErrorFails, dbVars
<1>2. EndTask(p, b) \/ Goto(p, b, "fail")
  BY DEF ClaimNothing, ClaimRefused, ClaimTooLarge, CompileRaises, FailWrite, FinishErrorFails
<1>3. QuietTasks
  BY <1>2, QuietEnd, QuietFree DEF TaskPc, Slotted
<1>4. QED
  BY <1>1, <1>3, Still, QuietKeeps DEF Quiet, memVars, ghostVars

LEMMA ClaimReadKeeps ==
  ASSUME LedgerInv, TypeInv', NEW p \in Procs, NEW b \in Batches, ClaimRead(p, b)
  PROVE  KeepsLedger
<1>1. UNCHANGED <<call, memVars, requests, ghostVars>>
  BY DEF ClaimRead, dbVars
<1>2. \/ EndTask(p, b) \/ Goto(p, b, "fail")
      \/ tasks' = [tasks EXCEPT ![p][b].pc = "claim", ![p][b].seen = batch[b]]
  BY DEF ClaimRead
<1>3. QuietTasks
  <2>1. CASE EndTask(p, b) \/ Goto(p, b, "fail")
    BY <2>1, QuietEnd, QuietFree DEF TaskPc, Slotted
  <2>2. CASE tasks' = [tasks EXCEPT ![p][b].pc = "claim", ![p][b].seen = batch[b]]
    <3> DEFINE t == [tasks[p][b] EXCEPT !.pc = "claim", !.seen = batch[b]]
    <3>1. tasks \in [Procs -> [Batches -> TaskRows]]
      BY DEF LedgerInv, TypeInv, TaskTypes
    <3>2. tasks' = [tasks EXCEPT ![p][b] = t]
      BY <2>2, <3>1
    <3>3. t.pc = "claim"
      BY <3>1 DEF TaskRows, TaskRow
    <3> HIDE DEF t
    <3>4. QED
      BY <3>2, <3>3, FreePlace, QuietTask DEF Slotted
  <2>3. QED
    BY <1>2, <2>1, <2>2
<1>4. QED
  BY <1>1, <1>3, Still, QuietKeeps DEF Quiet, memVars, ghostVars

\* A task that keeps its slot and moves to a place that claims no more than its old one.
LEMMA MovingKeeps ==
  ASSUME LedgerInv, TypeInv', NEW p \in Procs, NEW b \in Batches,
         SendRefused(p, b) \/ NoAnswer(p, b)
  PROVE  KeepsLedger
<1>1. UNCHANGED <<call, memVars, requests, ghostVars>>
  BY DEF SendRefused, NoAnswer, dbVars
<1>2. PICK pc \in {"refused", "unknown"} : tasks[p][b].pc \in Slotted /\ Goto(p, b, pc)
  BY DEF SendRefused, NoAnswer, At, Slotted
<1>3. Place(b, [tasks[p][b] EXCEPT !.pc = pc])
  BY <1>2 DEF Place, LedgerInv, TaskLedger, TypeInv, TaskTypes, TaskRows, TaskRow
<1>4. QuietTasks
  BY <1>2, <1>3, QuietGoto DEF Sending
<1>5. QED
  BY <1>1, <1>4, Still, QuietKeeps DEF Quiet, memVars, ghostVars

LEMMA SaveJournalKeeps ==
  ASSUME LedgerInv, TypeInv', NEW p \in Procs, NEW b \in Batches, SaveJournal(p, b)
  PROVE  KeepsLedger
<1>1. UNCHANGED <<call, pending_responses, requests, ghostVars>>
  BY DEF SaveJournal, dbVars
<1>2. tasks[p][b].pc = "journal" /\ Place(b, tasks[p][b])
  BY DEF SaveJournal, At, LedgerInv, TaskLedger
<1>3. Place(b, [tasks[p][b] EXCEPT !.pc = "store"])
  BY <1>2 DEF Place, Slotted, LedgerInv, TypeInv, TaskTypes, TaskRows, TaskRow
<1>4. QuietTasks
  BY <1>3, QuietGoto DEF SaveJournal, Sending
<1>5. QuietReceipts
  BY <1>1, <1>2 DEF SaveJournal, CallOf, Place, QuietReceipts, LedgerInv, ReceiptLedger
<1>6. QED
  BY <1>1, <1>4, <1>5, Still, QuietKeeps DEF Quiet, ghostVars

\* Forgetting a receipt only removes receipts.
LEMMA ForgetQuiet ==
  ASSUME LedgerInv, NEW p \in Procs, NEW c \in Calls, ForgetResponse(p, c)
  PROVE  QuietReceipts
BY DEF ForgetResponse, QuietReceipts, LedgerInv, ReceiptLedger, TypeInv, ReceiptTypes

LEMMA ForgetKeeps ==
  ASSUME LedgerInv, TypeInv', NEW p \in Procs, NEW b \in Batches, Forget(p, b)
  PROVE  KeepsLedger
<1>1. UNCHANGED <<call, requests, ghostVars>>
  BY DEF Forget, dbVars
<1>2. tasks[p][b].pc = "forget" /\ Place(b, tasks[p][b]) /\ CallOf(p, b) \in Calls
  BY SlottedTask DEF Forget, At, LedgerInv, TypeInv, TaskLedger, Slotted
<1>3. Place(b, [tasks[p][b] EXCEPT !.pc = "check"])
  BY <1>2 DEF Place, Slotted, LedgerInv, TypeInv, TaskTypes, TaskRows, TaskRow
<1>4. QuietTasks
  BY <1>3, QuietGoto DEF Forget, Sending
<1>5. QuietReceipts
  BY <1>2, ForgetQuiet DEF Forget
<1>6. QED
  BY <1>1, <1>4, <1>5, Still, QuietKeeps DEF Quiet, ghostVars

LEMMA CompileReadKeeps ==
  ASSUME LedgerInv, TypeInv', NEW p \in Procs, NEW b \in Batches, CompileRead(p, b)
  PROVE  KeepsLedger
<1>1. UNCHANGED <<call, memVars, requests, ghostVars>>
  BY DEF CompileRead, dbVars
<1>2. QuietTasks
  <2>1. CASE Goto(p, b, "fail")
    BY <2>1, QuietFree DEF TaskPc, Slotted
  <2>2. CASE tasks' = [tasks EXCEPT ![p][b].pc = "compile", ![p][b].seen = batch[b],
                                    ![p][b].callStatus = call[CallOf(p, b)].status]
    <3> DEFINE t == [tasks[p][b] EXCEPT !.pc = "compile", !.seen = batch[b],
                                        !.callStatus = call[CallOf(p, b)].status]
    <3>1. tasks \in [Procs -> [Batches -> TaskRows]]
      BY DEF LedgerInv, TypeInv, TaskTypes
    <3>2. tasks' = [tasks EXCEPT ![p][b] = t]
      BY <2>2, <3>1
    <3>3. t.pc = "compile" /\ t.slot = tasks[p][b].slot
      BY <3>1 DEF TaskRows, TaskRow
    <3>4. tasks[p][b].pc = "check" /\ Place(b, tasks[p][b])
      BY DEF CompileRead, At, LedgerInv, TaskLedger
    <3> HIDE DEF t
    <3>5. Place(b, t) /\ t.pc \notin Sending
      BY <3>3, <3>4 DEF Place, Slotted, Sending
    <3>6. QED
      BY <3>2, <3>5, QuietTask
  <2>3. QED
    BY <2>1, <2>2 DEF CompileRead
<1>3. QED
  BY <1>1, <1>2, Still, QuietKeeps DEF Quiet, memVars, ghostVars

LEMMA FailReadKeeps ==
  ASSUME LedgerInv, TypeInv', NEW p \in Procs, NEW b \in Batches, FailRead(p, b)
  PROVE  KeepsLedger
<1>1. UNCHANGED <<call, memVars, requests, ghostVars>>
  BY DEF FailRead, dbVars
<1>2. [Idle EXCEPT !.pc = "fail_write", !.seen = batch[b]].pc \notin Slotted
  BY DEF Idle, Slotted
<1>3. QuietTasks
  BY <1>2, FreePlace, QuietTask DEF FailRead
<1>4. QED
  BY <1>1, <1>3, Still, QuietKeeps DEF Quiet, memVars, ghostVars

LEMMA FinishErrorReadKeeps ==
  ASSUME LedgerInv, TypeInv', NEW p \in Procs, NEW b \in Batches, FinishErrorRead(p, b)
  PROVE  KeepsLedger
<1>1. UNCHANGED <<call, memVars, requests, ghostVars>>
  BY DEF FinishErrorRead, ErrorRead, dbVars
<1>2. PICK to \in {"refused_write", "unknown_write"} :
        /\ tasks[p][b].pc \in Slotted
        /\ tasks' = [tasks EXCEPT ![p][b].pc = to, ![p][b].seen = batch[b],
                                  ![p][b].callStatus = call[CallOf(p, b)].status]
  BY DEF FinishErrorRead, ErrorRead, At, Slotted
<1> DEFINE t == [tasks[p][b] EXCEPT !.pc = to, !.seen = batch[b],
                                    !.callStatus = call[CallOf(p, b)].status]
<1>3. tasks' = [tasks EXCEPT ![p][b] = t]
  <2>1. tasks \in [Procs -> [Batches -> TaskRows]]
    BY DEF LedgerInv, TypeInv, TaskTypes
  <2>2. QED
    BY <1>2, <2>1
<1>4. t.pc = to /\ t.slot = tasks[p][b].slot
  BY DEF LedgerInv, TypeInv, TaskTypes, TaskRows, TaskRow
<1>5. Place(b, tasks[p][b])
  BY DEF LedgerInv, TaskLedger
<1> HIDE DEF t
<1>6. Place(b, t) /\ t.pc \notin Sending
  BY <1>2, <1>4, <1>5 DEF Place, Slotted, Sending
<1>7. QuietTasks
  BY <1>3, <1>6, QuietTask
<1>8. QED
  BY <1>1, <1>7, Still, QuietKeeps DEF Quiet, memVars, ghostVars

\* finish_error changes the status of a call that exists.
LEMMA FinishErrorKeeps ==
  ASSUME LedgerInv, TypeInv', NEW p \in Procs, NEW b \in Batches, FinishError(p, b)
  PROVE  KeepsLedger
<1> DEFINE c == CallOf(p, b)
<1>1. UNCHANGED <<memVars, requests, ghostVars>> /\ EndTask(p, b)
  BY DEF FinishError, ErrorWrite
<1>2. PICK status \in {"not_dispatched", "outcome_uncertain"} :
        call' = [call EXCEPT ![c].status = Column(@, tasks[p][b].callStatus, status),
                             ![c].interrupted = FALSE]
  BY DEF FinishError, ErrorWrite
<1>3. c \in Calls /\ call[c].status # "none"
  BY SlottedTask
     DEF FinishError, ErrorWrite, At, LedgerInv, TypeInv, TaskLedger, Place, CallOf, Slotted
<1>4. QuietCalls
  BY <1>2, <1>3 DEF QuietCalls, Column, LedgerInv, TypeInv, CallTypes, CallRow
<1>5. QuietTasks
  BY <1>1, QuietEnd
<1>6. QED
  BY <1>1, <1>4, <1>5, Still, QuietKeeps DEF Quiet, memVars, ghostVars
-----------------------------------------------------------------------------
(* Steps of the ledger.                                                    *)

\* A claim creates the row of a slot that had none; no task, receipt or request knew it.
LEMMA ClaimKeeps ==
  ASSUME LedgerInv, TypeInv', NEW p \in Procs, NEW b \in Batches, Claim(p, b)
  PROVE  KeepsLedger
<1>0. PICK slot : slot = SlotFor(b, tasks[p][b].seen)
  OBVIOUS
<1> DEFINE c == <<b, slot>>
           new == [NoCall EXCEPT !.status = "executing", !.action = tasks[p][b].seen.next,
                                 !.at = Cardinality(ClaimedSlots(b)) + 1,
                                 !.rev = tasks[p][b].seen.state.rev,
                                 !.text = tasks[p][b].seen.state.text]
<1>1. call' = [call EXCEPT ![c] = new] /\ new.status = "executing" /\ new.response = "none"
  <2>1. new.status = "executing" /\ new.response = "none"
    BY DEF NoCall
  <2> HIDE DEF new
  <2>2. call' = [call EXCEPT ![c] = new]
    BY <1>0 DEF Claim, new
  <2>3. QED
    BY <2>1, <2>2
<1> HIDE DEF new
<1>2. /\ tasks' = [tasks EXCEPT ![p][b] = [Idle EXCEPT !.pc = "send", !.slot = slot]]
      /\ UNCHANGED <<memVars, requests, ghostVars>>
      /\ call[c].status = "none"
  BY <1>0 DEF Claim, SlotOpen
<1>3. tasks'[p][b].pc = "send" /\ tasks'[p][b].slot = slot
  BY <1>2 DEF Idle, LedgerInv, TypeInv, TaskTypes
<1>4. c \in Calls
  BY <1>3 DEF TypeInv, TaskTypes, TaskRows, Slotted, Calls
<1>5. sent[c] = 0 /\ got[c] = "none" /\ call[c].response = "none"
  BY <1>2, <1>4 DEF LedgerInv, CallLedger
<1>6. /\ call'[c].status = "executing" /\ call'[c].response = "none"
      /\ \A d \in Calls \ {c} : call'[d] = call[d]
  BY <1>1, <1>4 DEF LedgerInv, TypeInv, CallTypes
<1>7. CallLedger'
  BY <1>2, <1>5, <1>6 DEF LedgerInv, CallLedger, ghostVars
<1>8. ASSUME NEW q \in Procs, NEW x \in Batches, q # p \/ x # b
      PROVE  /\ tasks'[q][x] = tasks[q][x]
             /\ tasks[q][x].pc \in Slotted => <<x, tasks[q][x].slot>> \in Calls \ {c}
  <2>1. tasks'[q][x] = tasks[q][x]
    BY <1>2, <1>8 DEF LedgerInv, TypeInv, TaskTypes
  <2>2. tasks[q][x].pc \in Slotted => <<x, tasks[q][x].slot>> \in Calls
    BY CallsOfTypes DEF LedgerInv
  <2>3. tasks[q][x].pc \in Slotted => call[<<x, tasks[q][x].slot>>].status # "none"
    BY DEF LedgerInv, TaskLedger, Place
  <2>4. QED
    BY <1>2, <2>1, <2>2, <2>3
<1>9. TaskLedger'
  <2> SUFFICES ASSUME NEW q \in Procs, NEW x \in Batches PROVE Place(x, tasks[q][x])'
    BY DEF TaskLedger
  <2>1. CASE q = p /\ x = b
    BY <1>2, <1>3, <1>5, <1>6, <2>1 DEF Place, ghostVars
  <2>2. CASE q # p \/ x # b
    <3>1. Place(x, tasks[q][x])
      BY DEF LedgerInv, TaskLedger
    <3>2. QED
      BY <1>2, <1>6, <1>8, <2>2, <3>1 DEF Place, Slotted, ghostVars
  <2>3. QED
    BY <2>1, <2>2
<1>10. OneSender'
  <2> SUFFICES ASSUME NEW q \in Procs, NEW r \in Procs, NEW x \in Batches,
                      tasks'[q][x].pc \in Sending, tasks'[r][x].pc \in Sending,
                      tasks'[q][x].slot = tasks'[r][x].slot
               PROVE  q = r
    BY DEF OneSender
  <2>1. CASE x # b
    BY <1>8, <2>1 DEF LedgerInv, OneSender
  <2>2. CASE x = b /\ q # p /\ r # p
    BY <1>8, <2>2 DEF LedgerInv, OneSender
  <2>3. CASE x = b /\ (q = p \/ r = p)
    <3>1. \A o \in Procs : o # p /\ tasks'[o][b].pc \in Sending => tasks'[o][b].slot # slot
      <4> SUFFICES ASSUME NEW o \in Procs, o # p, tasks'[o][b].pc \in Sending
                   PROVE  tasks'[o][b].slot # slot
        OBVIOUS
      <4>1. tasks'[o][b] = tasks[o][b]
        BY <1>8
      <4>2. tasks[o][b].pc \in Slotted
        BY <4>1 DEF Sending, Slotted
      <4>3. <<b, tasks[o][b].slot>> # c
        BY <1>8, <4>2
      <4>4. QED
        BY <4>1, <4>3
    <3>2. QED
      BY <1>3, <2>3, <3>1
  <2>4. QED
    BY <2>1, <2>2, <2>3
<1>11. ReceiptLedger'
  BY <1>2 DEF LedgerInv, ReceiptLedger, memVars, ghostVars
<1>12. RequestLedger'
  <2> SUFFICES ASSUME NEW q \in Procs, NEW r \in Requests, requests[q][r].pc # "idle"
               PROVE  call'[requests[q][r].target].response # "none"
    BY <1>2 DEF RequestLedger
  <2>1. requests[q][r].target \in Calls /\ call[requests[q][r].target].response # "none"
    BY CallsOfTypes DEF LedgerInv, RequestLedger
  <2>2. QED
    BY <1>5, <1>6, <2>1
<1>13. Ledger!Claim(c)
  <2>1. {d \in Calls : call[d].status # "none"}' = {d \in Calls : call[d].status # "none"} \cup {c}
    BY <1>4, <1>6
  <2>2. [d \in Calls |-> call[d].response]' = [d \in Calls |-> call[d].response]
    BY <1>4, <1>5, <1>6
  <2>3. c \notin {d \in Calls : call[d].status # "none"}
    BY <1>2
  <2>4. QED
    BY <1>2, <2>1, <2>2, <2>3 DEF Ledger!Claim, ghostVars
<1>14. LedgerInv'
  BY <1>7, <1>9, <1>10, <1>11, <1>12 DEF LedgerInv
<1>15. Ledger!Next
  BY <1>4, <1>13 DEF Ledger!Next
<1>16. QED
  BY <1>14, <1>15 DEF KeepsLedger

\* The task that sends is the only one that may.
LEMMA SendKeeps ==
  ASSUME LedgerInv, TypeInv', NEW p \in Procs, NEW b \in Batches, Send(p, b)
  PROVE  KeepsLedger
<1> DEFINE c == CallOf(p, b)
<1>1. /\ tasks[p][b].pc = "send" /\ Goto(p, b, "flight")
      /\ sent' = [sent EXCEPT ![c] = @ + 1]
      /\ UNCHANGED <<call, memVars, requests, got, handoffs>>
  BY DEF Send, At, dbVars
<1>2. c \in Calls /\ sent[c] = 0 /\ got[c] = "none" /\ call[c].status # "none"
  BY <1>1, SlottedTask
     DEF LedgerInv, TypeInv, TaskLedger, Place, CallLedger, CallOf, Slotted
<1>3. sent'[c] = 1 /\ \A d \in Calls \ {c} : sent'[d] = sent[d]
  BY <1>1, <1>2 DEF LedgerInv, TypeInv, ReceiptTypes
<1>4. CallLedger'
  BY <1>1, <1>2, <1>3 DEF LedgerInv, CallLedger
<1>5. tasks'[p][b].pc = "flight" /\ tasks'[p][b].slot = tasks[p][b].slot
  BY <1>1 DEF Goto, LedgerInv, TypeInv, TaskTypes, TaskRows, TaskRow
<1>6. ASSUME NEW q \in Procs, NEW x \in Batches, q # p \/ x # b
      PROVE  tasks'[q][x] = tasks[q][x]
  BY <1>1, <1>6 DEF Goto, LedgerInv, TypeInv, TaskTypes
<1>7. TaskLedger'
  <2> SUFFICES ASSUME NEW q \in Procs, NEW x \in Batches PROVE Place(x, tasks[q][x])'
    BY DEF TaskLedger
  <2>1. CASE q = p /\ x = b
    BY <1>1, <1>2, <1>3, <1>5, <2>1 DEF Place, CallOf
  <2>2. CASE q # p \/ x # b
    <3>1. Place(x, tasks[q][x])
      BY DEF LedgerInv, TaskLedger
    <3>2. tasks[q][x].pc \in Sending => <<x, tasks[q][x].slot>> \in Calls \ {c}
      BY <1>1, <2>2, CallsOfTypes DEF LedgerInv, OneSender, Sending, Slotted, CallOf
    <3>3. QED
      BY <1>1, <1>3, <1>6, <2>2, <3>1, <3>2 DEF Place, Sending
  <2>3. QED
    BY <2>1, <2>2
<1>8. OneSender'
  <2>1. \A q \in Procs, x \in Batches : /\ tasks'[q][x].slot = tasks[q][x].slot
                                        /\ tasks'[q][x].pc \in Sending => tasks[q][x].pc \in Sending
    BY <1>1, <1>5, <1>6 DEF Sending
  <2>2. QED
    BY <2>1 DEF LedgerInv, OneSender
<1>9. ReceiptLedger' /\ RequestLedger'
  BY <1>1 DEF LedgerInv, ReceiptLedger, RequestLedger, memVars
<1>10. Ledger!Send(c)
  BY <1>1, <1>2 DEF Ledger!Send
<1>11. QED
  BY <1>2, <1>4, <1>7, <1>8, <1>9, <1>10 DEF KeepsLedger, LedgerInv, Ledger!Next

LEMMA ReceiveKeeps ==
  ASSUME LedgerInv, TypeInv', NEW p \in Procs, NEW b \in Batches, NEW reply \in Replies,
         Receive(p, b, reply)
  PROVE  KeepsLedger
<1> DEFINE c == CallOf(p, b)
<1>1. /\ tasks[p][b].pc = "flight" /\ Goto(p, b, "journal")
      /\ got' = [got EXCEPT ![c] = reply]
      /\ pending_responses' = [pending_responses EXCEPT ![p] = @ \cup {c}]
      /\ UNCHANGED <<call, journal, requests, sent, handoffs>>
  BY DEF Receive, At, dbVars
<1>2. c \in Calls /\ sent[c] = 1 /\ got[c] = "none" /\ call[c].status # "none"
  BY <1>1, SlottedTask DEF LedgerInv, TypeInv, TaskLedger, Place, CallOf, Slotted
<1>3. /\ got'[c] = reply /\ reply # "none"
      /\ \A d \in Calls \ {c} : got'[d] = got[d]
  BY <1>1, <1>2 DEF LedgerInv, TypeInv, ReceiptTypes, Replies
<1>4. CallLedger'
  BY <1>1, <1>2, <1>3 DEF LedgerInv, CallLedger
<1>5. tasks'[p][b].pc = "journal" /\ tasks'[p][b].slot = tasks[p][b].slot
  BY <1>1 DEF Goto, LedgerInv, TypeInv, TaskTypes, TaskRows, TaskRow
<1>6. ASSUME NEW q \in Procs, NEW x \in Batches, q # p \/ x # b
      PROVE  tasks'[q][x] = tasks[q][x]
  BY <1>1, <1>6 DEF Goto, LedgerInv, TypeInv, TaskTypes
<1>7. TaskLedger'
  <2> SUFFICES ASSUME NEW q \in Procs, NEW x \in Batches PROVE Place(x, tasks[q][x])'
    BY DEF TaskLedger
  <2>1. CASE q = p /\ x = b
    BY <1>1, <1>2, <1>3, <1>5, <2>1 DEF Place, CallOf
  <2>2. CASE q # p \/ x # b
    <3>1. Place(x, tasks[q][x])
      BY DEF LedgerInv, TaskLedger
    <3>2. /\ tasks[q][x].pc \in Slotted => <<x, tasks[q][x].slot>> \in Calls
          /\ tasks[q][x].pc \in Sending => <<x, tasks[q][x].slot>> # c
      BY <1>1, <2>2, CallsOfTypes DEF LedgerInv, OneSender, Sending, CallOf
    <3>3. QED
      BY <1>1, <1>3, <1>6, <2>2, <3>1, <3>2 DEF Place, Sending, Slotted
  <2>3. QED
    BY <2>1, <2>2
<1>8. OneSender'
  <2>1. \A q \in Procs, x \in Batches : /\ tasks'[q][x].slot = tasks[q][x].slot
                                        /\ tasks'[q][x].pc \in Sending => tasks[q][x].pc \in Sending
    BY <1>1, <1>5, <1>6 DEF Sending
  <2>2. QED
    BY <2>1 DEF LedgerInv, OneSender
<1>9. ReceiptLedger' /\ RequestLedger'
  BY <1>1, <1>3 DEF LedgerInv, ReceiptLedger, RequestLedger, TypeInv, ReceiptTypes
<1>10. Ledger!Answer(c, reply)
  BY <1>1, <1>2 DEF Ledger!Answer
<1>11. QED
  BY <1>2, <1>4, <1>7, <1>8, <1>9, <1>10 DEF KeepsLedger, LedgerInv, Ledger!Next
\* A stored answer is the one that was received; the task that stored it goes on to forget
\* the receipt, or fails.
LEMMA PersistKeeps ==
  ASSUME LedgerInv, TypeInv', NEW c \in Calls, Persist(c), got[c] # "none", QuietReceipts,
         UNCHANGED <<requests, sent, got, handoffs>>,
         \A q \in Procs, x \in Batches :
           /\ \/ Place(x, tasks'[q][x])
              \/ tasks'[q][x].pc = "forget" /\ <<x, tasks'[q][x].slot>> = c
           /\ tasks'[q][x].pc \in Sending =>
                tasks[q][x].pc \in Sending /\ tasks'[q][x].slot = tasks[q][x].slot
  PROVE  KeepsLedger
<1>1. call[c].status # "none" /\ (call[c].response # "none" => call[c].response = got[c])
  BY DEF LedgerInv, CallLedger
<1>2. call'[c].status # "none" /\ call'[c].response = got[c]
  <2>1. CASE call[c].response # "none"
    BY <1>1, <2>1 DEF Persist
  <2>2. CASE call[c].response = "none"
    BY <2>2 DEF Persist, LedgerInv, TypeInv, CallTypes, CallRow
  <2>3. QED
    BY <2>1, <2>2
<1>3. \A d \in Calls \ {c} : call'[d] = call[d]
  BY DEF Persist, LedgerInv, TypeInv, CallTypes
<1>4. CallLedger'
  BY <1>1, <1>2, <1>3 DEF LedgerInv, CallLedger
<1>5. TaskLedger'
  <2> SUFFICES ASSUME NEW q \in Procs, NEW x \in Batches PROVE Place(x, tasks[q][x])'
    BY DEF TaskLedger
  <2>1. tasks'[q][x].pc \in Slotted => <<x, tasks'[q][x].slot>> \in Calls
    BY DEF TypeInv, TaskTypes, TaskRows, TaskRow, Calls
  <2>2. CASE Place(x, tasks'[q][x])
    BY <1>2, <1>3, <2>1, <2>2 DEF Place, Slotted
  <2>3. CASE tasks'[q][x].pc = "forget" /\ <<x, tasks'[q][x].slot>> = c
    BY <1>2, <2>3 DEF Place
  <2>4. QED
    BY <2>2, <2>3
<1>6. OneSender'
  BY DEF LedgerInv, OneSender
<1>7. ReceiptLedger'
  BY DEF QuietReceipts, ReceiptLedger
<1>8. RequestLedger'
  <2> SUFFICES ASSUME NEW q \in Procs, NEW r \in Requests, requests[q][r].pc # "idle"
               PROVE  call'[requests[q][r].target].response # "none"
    BY DEF RequestLedger
  <2>1. requests[q][r].target \in Calls /\ call[requests[q][r].target].response # "none"
    BY CallsOfTypes DEF LedgerInv, RequestLedger
  <2>2. QED
    BY <1>2, <1>3, <2>1
<1>9. LedgerInv'
  BY <1>4, <1>5, <1>6, <1>7, <1>8 DEF LedgerInv
<1>10. {d \in Calls : call[d].status # "none"}' = {d \in Calls : call[d].status # "none"}
  BY <1>1, <1>2, <1>3
<1>11. CASE call[c].response # "none"
  <2>1. UNCHANGED Ledger!ledger
    BY <1>11 DEF Persist, Ledger!ledger
  <2>2. QED
    BY <1>9, <2>1 DEF KeepsLedger
<1>12. CASE call[c].response = "none"
  <2>1. [d \in Calls |-> call[d].response]'
          = [[d \in Calls |-> call[d].response] EXCEPT ![c] = got[c]]
    BY <1>2, <1>3
  <2>2. Ledger!Store(c)
    BY <1>10, <1>12, <2>1 DEF Ledger!Store
  <2>3. Ledger!Next
    BY <2>2 DEF Ledger!Next
  <2>4. QED
    BY <1>9, <2>3 DEF KeepsLedger
<1>13. QED
  BY <1>11, <1>12

LEMMA StoreKeeps ==
  ASSUME LedgerInv, TypeInv', NEW p \in Procs, NEW b \in Batches, Store(p, b)
  PROVE  KeepsLedger
<1>1. PICK c : c = CallOf(p, b)
  OBVIOUS
<1>2. c \in Calls /\ got[c] # "none" /\ tasks[p][b].pc = "store"
  BY <1>1, SlottedTask
     DEF Store, At, LedgerInv, TypeInv, TaskLedger, Place, CallOf, Slotted
<1>3. UNCHANGED <<memVars, requests, ghostVars>>
  BY DEF Store
<1>4. CASE UNCHANGED call /\ Goto(p, b, "fail")
  BY <1>3, <1>4, QuietFree, Still, QuietKeeps
     DEF Quiet, memVars, ghostVars, TaskPc, Slotted
<1>5. CASE Persist(c) /\ (Goto(p, b, "fail") \/ Goto(p, b, "forget"))
  <2>1. PICK pc \in {"fail", "forget"} : Goto(p, b, pc)
    BY <1>5
  <2>2. tasks'[p][b].pc = pc /\ tasks'[p][b].slot = tasks[p][b].slot
    BY <2>1 DEF Goto, LedgerInv, TypeInv, TaskTypes, TaskRows, TaskRow
  <2>3. ASSUME NEW q \in Procs, NEW x \in Batches
        PROVE  /\ \/ Place(x, tasks'[q][x])
                  \/ tasks'[q][x].pc = "forget" /\ <<x, tasks'[q][x].slot>> = c
               /\ tasks'[q][x].pc \in Sending =>
                    tasks[q][x].pc \in Sending /\ tasks'[q][x].slot = tasks[q][x].slot
    <3>1. CASE q = p /\ x = b
      BY <1>1, <2>1, <2>2, <3>1, FreePlace DEF CallOf, Sending, Slotted
    <3>2. CASE q # p \/ x # b
      <4>1. tasks'[q][x] = tasks[q][x]
        BY <2>1, <3>2 DEF Goto, LedgerInv, TypeInv, TaskTypes
      <4>2. QED
        BY <4>1 DEF LedgerInv, TaskLedger
    <3>3. QED
      BY <3>1, <3>2
  <2>4. QED
    BY <1>2, <1>3, <1>5, <2>3, Still, PersistKeeps DEF memVars, ghostVars
<1>6. QED
  BY <1>1, <1>4, <1>5 DEF Store

LEMMA RecoverKeeps ==
  ASSUME LedgerInv, TypeInv', NEW p \in Procs, NEW c \in Calls, Recover(p, c)
  PROVE  KeepsLedger
<1>1. got[c] # "none"
  BY DEF Recover, LedgerInv, ReceiptLedger
<1>2. QuietReceipts
  BY ForgetQuiet DEF Recover
<1>3. UNCHANGED <<tasks, requests, ghostVars>> /\ Persist(c)
  BY DEF Recover
<1>4. \A q \in Procs, x \in Batches : Place(x, tasks'[q][x])
  BY <1>3 DEF LedgerInv, TaskLedger
<1>5. QED
  BY <1>1, <1>2, <1>3, <1>4, PersistKeeps DEF ghostVars

\* Only a usable, hence complete, answer completes a call.
LEMMA OutcomeOfAnswer ==
  ASSUME NEW c, NEW row, NEW o \in Outcomes(c, row)
  PROVE  o.status # "none" /\ (o.status = "completed" => got[c] = "good")
<1>1. CASE got[c] = "cut"
  <2>1. PICK left \in Remains(c, row) :
          o = [status |-> "outcome_uncertain",
               row |-> [left EXCEPT !.status = "outcome_uncertain", !.next = 0]]
    BY <1>1 DEF Outcomes
  <2>2. QED
    BY <2>1
<1>2. CASE got[c] # "cut" /\ Usable(c, row)
  <2> DEFINE New(st) == [row EXCEPT !.status = st, !.next = NextAction(call[c].action),
                                    !.state.done = call[c].action,
                                    !.state.text = TextAfter(call[c].action, @)]
  <2>1. PICK st \in After(call[c].action) : o = [status |-> "completed", row |-> New(st)]
    BY <1>2 DEF Outcomes
  <2> HIDE DEF New
  <2>2. QED
    BY <1>2, <2>1 DEF Usable
<1>3. CASE got[c] # "cut" /\ ~Usable(c, row)
  <2> DEFINE New == {[left EXCEPT !.status = "needs_attention", !.next = 0] :
                       left \in Remains(c, row)}
                    \cup (IF Skippable(c, row)
                          THEN {[row EXCEPT !.status = "queued", !.next = Steps]} ELSE {})
  <2>1. PICK new \in New : o = [status |-> "local_failure", row |-> new]
    BY <1>3 DEF Outcomes
  <2>2. QED
    BY <2>1
<1>4. QED
  BY <1>1, <1>2, <1>3

\* Compilation delivers a stored complete answer, or nothing.
LEMMA CompileResponseKeeps ==
  ASSUME LedgerInv, TypeInv', NEW c \in Calls, NEW seen, NEW callStatus,
         CompileResponse(c, seen, callStatus), call[c].response # "none",
         QuietTasks, QuietReceipts, QuietRequests, UNCHANGED <<sent, got>>
  PROVE  KeepsLedger
<1>1. call[c].status # "none" /\ call[c].response = got[c]
  BY DEF LedgerInv, CallLedger
<1>2. CASE NothingToCompile(c, seen, callStatus)
  BY <1>2, Still, QuietKeeps DEF CompileResponse, Quiet
<1>3. CASE ~NothingToCompile(c, seen, callStatus)
  <2> DEFINE row == [seen EXCEPT !.state.compiled = @ \cup {c[2]}]
  <2>1. PICK o \in Outcomes(c, row) :
          /\ call' = [call EXCEPT ![c].status = Column(@, callStatus, o.status),
                                  ![c].interrupted = FALSE]
          /\ handoffs' = [handoffs EXCEPT ![c] = IF o.status = "completed" THEN @ + 1 ELSE @]
    BY <1>3 DEF CompileResponse
  <2> HIDE DEF row
  <2>2. o.status # "none" /\ (o.status = "completed" => got[c] = "good")
    BY OutcomeOfAnswer
  <2>3. QuietCalls
    BY <1>1, <2>1, <2>2 DEF QuietCalls, Column, LedgerInv, TypeInv, CallTypes, CallRow
  <2>4. CASE o.status # "completed"
    <3>1. UNCHANGED handoffs
      BY <2>1, <2>4 DEF LedgerInv, TypeInv, ReceiptTypes
    <3>2. QED
      BY <2>3, <3>1, QuietKeeps DEF Quiet
  <2>5. CASE o.status = "completed"
    <3>1. LedgerInv'
      BY <2>3, QuietStep DEF Quiet
    <3>2. {d \in Calls : call[d].status # "none"}' = {d \in Calls : call[d].status # "none"}
      BY <2>3 DEF QuietCalls
    <3>3. [d \in Calls |-> call[d].response]' = [d \in Calls |-> call[d].response]
      BY <2>3 DEF QuietCalls
    <3>4. {d \in Calls : handoffs[d] > 0}' = {d \in Calls : handoffs[d] > 0} \cup {c}
      <4>1. handoffs'[c] > 0 /\ \A d \in Calls \ {c} : handoffs'[d] = handoffs[d]
        BY <2>1, <2>5 DEF LedgerInv, TypeInv, ReceiptTypes
      <4>2. QED
        BY <4>1
    <3>5. Ledger!Deliver(c)
      BY <1>1, <2>2, <2>5, <3>2, <3>3, <3>4 DEF Ledger!Deliver
    <3>6. Ledger!Next
      BY <3>5 DEF Ledger!Next
    <3>7. QED
      BY <3>1, <3>6 DEF KeepsLedger
  <2>6. QED
    BY <2>4, <2>5
<1>4. QED
  BY <1>2, <1>3

LEMMA CompileKeeps ==
  ASSUME LedgerInv, TypeInv', NEW p \in Procs, NEW b \in Batches, Compile(p, b)
  PROVE  KeepsLedger
<1>1. PICK c : c = CallOf(p, b)
  OBVIOUS
<1>2. c \in Calls /\ call[c].response # "none"
  BY <1>1, SlottedTask
     DEF Compile, At, LedgerInv, TypeInv, TaskLedger, Place, CallOf, Slotted
<1>3. PICK seen, callStatus : CompileResponse(c, seen, callStatus)
  BY <1>1 DEF Compile
<1>4. UNCHANGED <<memVars, requests, sent, got>>
  BY DEF Compile
<1>5. QuietTasks
  <2> DEFINE t == [Idle EXCEPT !.pc = "loop"]
  <2>1. tasks' = [tasks EXCEPT ![p][b] = t] /\ t.pc \notin Slotted
    BY DEF Compile, Idle, Slotted
  <2> HIDE DEF t
  <2>2. QED
    BY <2>1, QuietTask, FreePlace
<1>6. QED
  BY <1>2, <1>3, <1>4, <1>5, Still, CompileResponseKeeps DEF memVars
-----------------------------------------------------------------------------
(* Revalidation works on the stored answer of its call.                    *)

\* One request whose new row, if it is being served, targets a stored answer.
LEMMA QuietRequest ==
  ASSUME LedgerInv, NEW p \in Procs, NEW r \in Requests, NEW q,
         requests' = [requests EXCEPT ![p][r] = q],
         q.pc # "idle" => call[q.target].response # "none"
  PROVE  QuietRequests
<1>1. requests \in [Procs -> [Requests -> RequestRows]]
  BY DEF LedgerInv, TypeInv, RequestTypes
<1>2. QED
  BY <1>1 DEF QuietRequests, LedgerInv, RequestLedger

LEMMA RevalidateKeeps ==
  ASSUME LedgerInv, TypeInv', NEW p \in Procs, NEW r \in Requests, NEW c \in Calls,
         Revalidate(p, r, c)
  PROVE  KeepsLedger
<1>1. UNCHANGED <<call, tasks, memVars, ghostVars>>
  BY DEF Revalidate
<1> DEFINE q == [NoRequest EXCEPT !.pc = "asked", !.target = c]
<1>2. q.target = c /\ call[c].response # "none"
  BY DEF Revalidate, NoRequest
<1>3. requests' = [requests EXCEPT ![p][r] = q]
  BY DEF Revalidate
<1> HIDE DEF q
<1>4. QuietRequests
  BY <1>2, <1>3, QuietRequest
<1>5. QED
  BY <1>1, <1>4, Still, QuietKeeps DEF Quiet, memVars, ghostVars

LEMMA RevalidateReadKeeps ==
  ASSUME LedgerInv, TypeInv', NEW p \in Procs, NEW r \in Requests, RevalidateRead(p, r)
  PROVE  KeepsLedger
<1>1. UNCHANGED <<call, tasks, memVars, ghostVars, handoffs>>
  BY DEF RevalidateRead, dbVars, ghostVars
<1> DEFINE c == requests[p][r].target
           q == [requests[p][r] EXCEPT !.pc = "read", !.seen = batch[c[1]],
                                       !.callStatus = call[c].status]
<1>2. requests[p][r] \in RequestRow /\ call[c].response # "none"
  <2>1. requests \in [Procs -> [Requests -> RequestRows]]
    BY DEF LedgerInv, TypeInv, RequestTypes
  <2>2. requests[p][r] \in RequestRow
    BY <2>1 DEF RequestRows
  <2>3. requests[p][r].pc # "idle"
    BY DEF RevalidateRead
  <2>4. RequestLedger
    BY DEF LedgerInv
  <2>5. QED
    BY <2>2, <2>3, <2>4 DEF RequestLedger
<1>3. q.target = c
  BY <1>2 DEF RequestRow
<1>4. requests' = [requests EXCEPT ![p][r] = q]
  <2>1. requests \in [Procs -> [Requests -> RequestRows]]
    BY DEF LedgerInv, TypeInv, RequestTypes
  <2>2. QED
    BY <2>1 DEF RevalidateRead
<1> HIDE DEF q
<1>5. QuietRequests
  BY <1>2, <1>3, <1>4, QuietRequest
<1>6. QED
  BY <1>1, <1>5, Still, QuietKeeps DEF Quiet, memVars, ghostVars

LEMMA RevalidateCompileKeeps ==
  ASSUME LedgerInv, TypeInv', NEW p \in Procs, NEW r \in Requests, RevalidateCompile(p, r)
  PROVE  KeepsLedger
<1>1. PICK c : c = requests[p][r].target
  OBVIOUS
<1>2. c \in Calls /\ call[c].response # "none"
  BY <1>1, CallsOfTypes DEF RevalidateCompile, LedgerInv, RequestLedger
<1>3. PICK seen, callStatus : CompileResponse(c, seen, callStatus)
  BY <1>1 DEF RevalidateCompile
<1>4. UNCHANGED <<tasks, memVars, sent, got>>
  BY DEF RevalidateCompile
<1>5. QuietRequests
  BY QuietRequest DEF RevalidateCompile, NoRequest
<1>6. QED
  BY <1>2, <1>3, <1>4, <1>5, Still, CompileResponseKeeps DEF memVars
-----------------------------------------------------------------------------
(* Every step keeps the ledger.                                            *)

LEMMA LedgerStep == LedgerInv /\ [Next]_vars => KeepsLedger
<1> SUFFICES ASSUME LedgerInv, [Next]_vars PROVE KeepsLedger
  OBVIOUS
<1>1. TypeInv'
  BY TypeStep DEF LedgerInv
<1>2. CASE UNCHANGED vars
  <2>1. UNCHANGED <<call, tasks, memVars, requests, ghostVars>>
    BY <1>2 DEF vars, dbVars
  <2>2. QED
    BY <1>1, <2>1, Still, QuietKeeps DEF Quiet, memVars, ghostVars
<1>3. ASSUME NEW p \in Procs, Process(p) PROVE KeepsLedger
  BY <1>1, <1>3, OwnerKeeps, ExitKeeps, StartKeeps, CancelKeeps, RecoverKeeps DEF Process
<1>4. ASSUME NEW p \in Procs, NEW b \in Batches, Command(p, b) PROVE KeepsLedger
  BY <1>1, <1>4, StageCommandKeeps, AuthorizationKeeps, ResolveUnknownKeeps DEF Command
<1>5. ASSUME NEW p \in Procs, NEW b \in Batches, Run(p, b) PROVE KeepsLedger
  BY <1>1, <1>5, LeavingKeeps, ClaimReadKeeps, ClaimKeeps, MovingKeeps, SendKeeps, ReceiveKeeps,
     SaveJournalKeeps, StoreKeeps, ForgetKeeps, CompileReadKeeps, CompileKeeps, FailReadKeeps,
     FinishErrorReadKeeps, FinishErrorKeeps
     DEF Run
<1>6. ASSUME NEW p \in Procs, NEW r \in Requests, Revalidation(p, r) PROVE KeepsLedger
  BY <1>1, <1>6, RevalidateKeeps, RevalidateReadKeeps, RevalidateCompileKeeps DEF Revalidation
<1>7. QED
  BY <1>2, <1>3, <1>4, <1>5, <1>6 DEF Next

\* A claimed slot goes on the wire at most once, whatever crashes, whoever holds the lock and
\* however the tasks of two processes interleave (runtime.py claim, dispatch).
THEOREM SendOnce == Spec => []SentAtMostOnce
<1>1. Init => LedgerInv
  BY LedgerInit
<1>2. LedgerInv /\ [Next]_vars => LedgerInv'
  BY LedgerStep DEF KeepsLedger
<1>3. LedgerInv => SentAtMostOnce
  BY DEF LedgerInv, CallLedger, SentAtMostOnce
<1>4. QED
  BY <1>1, <1>2, <1>3, PTL DEF Spec

\* The kernel implements the paid-call ledger: claim, send, answer, store and deliver happen
\* to a call in this order, each of the first four once (runtime.py claim, dispatch,
\* persist_response, compile_response).
THEOREM LedgerRefined == Spec => LedgerSpec
<1>1. Init => LedgerInv /\ Ledger!Init
  <2>1. Init => Ledger!Init
    BY DEF Init, Ledger!Init, NoCall
  <2>2. QED
    BY <2>1, LedgerInit
<1>2. LedgerInv /\ [Next]_vars => LedgerInv' /\ [Ledger!Next]_(Ledger!ledger)
  BY LedgerStep DEF KeepsLedger
<1>3. QED
  BY <1>1, <1>2, PTL DEF Spec, LedgerSpec, Ledger!Spec

-----------------------------------------------------------------------------
(* No step loses a receipt.  The ledger says that a stored answer stays;   *)
(* it remains to be seen which steps take receipts away: the forgetting of *)
(* a call whose row has the answer, and the end of a process, which notes  *)
(* what was lost with it.                                                  *)

InHand(c) == c \in journal \cup lost \/ \E p \in Procs : c \in pending_responses[p]

\* The stored answers of the kernel never change (a fact about the ledger alone).
LEMMA StoredStays ==
  ASSUME LedgerInv, KeepsLedger, NEW c \in Calls, call[c].response # "none"
  PROVE  call'[c].response = call[c].response /\ call'[c].response = got'[c]
<1> DEFINE stored == [d \in Calls |-> call[d].response]
<1>1. got \in [Calls -> Replies \cup {"none"}] /\ call[c].response = got[c]
  BY DEF LedgerInv, TypeInv, ReceiptTypes, CallLedger
<1>2. stored' = stored => call'[c].response = call[c].response
  <2>1. ASSUME stored' = stored PROVE stored'[c] = stored[c]
    BY <2>1
  <2>2. QED
    BY <2>1
<1>3. CASE UNCHANGED Ledger!ledger
  BY <1>1, <1>2, <1>3 DEF Ledger!ledger
<1>4. CASE Ledger!Next
  <2>1. PICK d \in Calls : \/ Ledger!Claim(d) \/ Ledger!Send(d) \/ Ledger!Store(d) \/ Ledger!Deliver(d)
                           \/ \E reply \in Replies : Ledger!Answer(d, reply)
    BY <1>4 DEF Ledger!Next
  <2>2. CASE Ledger!Claim(d) \/ Ledger!Send(d) \/ Ledger!Deliver(d)
    BY <1>1, <1>2, <2>2 DEF Ledger!Claim, Ledger!Send, Ledger!Deliver
  <2>3. CASE Ledger!Store(d)
    <3>1. stored[d] = "none" /\ stored' = [stored EXCEPT ![d] = got[d]] /\ UNCHANGED got
      BY <2>3 DEF Ledger!Store
    <3>2. d # c
      BY <3>1
    <3>3. stored'[c] = stored[c]
      BY <3>1, <3>2
    <3>4. QED
      BY <1>1, <3>1, <3>3
  <2>4. CASE \E reply \in Replies : Ledger!Answer(d, reply)
    <3>1. got[d] = "none" /\ stored' = stored /\ \E reply \in Replies : got' = [got EXCEPT ![d] = reply]
      BY <2>4 DEF Ledger!Answer
    <3>2. d # c
      BY <1>1, <3>1
    <3>3. QED
      BY <1>1, <1>2, <3>1, <3>2
  <2>5. QED
    BY <2>1, <2>2, <2>3, <2>4
<1>5. QED
  BY <1>3, <1>4 DEF KeepsLedger

\* What a step may do to a receipt.
Keeps(c)   == InHand(c) => InHand(c)' \/ call'[c].response = got'[c]
KeepsAll   == \A c \in Calls : Keeps(c) /\ (got'[c] = got[c] \/ InHand(c)')

LEMMA GrowKeeps ==
  ASSUME journal \subseteq journal', lost \subseteq lost', got' = got,
         \A p \in Procs : pending_responses[p] \subseteq pending_responses'[p]
  PROVE  KeepsAll
BY DEF KeepsAll, Keeps, InHand

LEMMA ForgetKept ==
  ASSUME LedgerInv, KeepsLedger, NEW p \in Procs, NEW c \in Calls, ForgetResponse(p, c),
         got' = got, lost' = lost, call'[c].response = got[c]
  PROVE  KeepsAll
<1>1. \A d \in Calls \ {c} : (d \in journal => d \in journal') /\
        \A q \in Procs : d \in pending_responses[q] => d \in pending_responses'[q]
  BY DEF ForgetResponse, LedgerInv, TypeInv, ReceiptTypes
<1>2. QED
  BY <1>1 DEF KeepsAll, Keeps, InHand

\* The end of a process takes its memory along, and the journal stays.
LEMMA GoneKept ==
  ASSUME LedgerInv, NEW p \in Procs, Gone(p)
  PROVE  KeepsAll
<1>1. /\ journal' = journal /\ got' = got
      /\ lost' = lost \cup {c \in pending_responses[p] : c \notin journal}
      /\ \A q \in Procs \ {p} : pending_responses'[q] = pending_responses[q]
  BY DEF Gone, LedgerInv, TypeInv, ReceiptTypes
<1>2. QED
  BY <1>1 DEF KeepsAll, Keeps, InHand

\* All other steps leave receipts alone, or add one.
LEMMA QuietKept ==
  ASSUME UNCHANGED <<memVars, ghostVars>>
  PROVE  KeepsAll
BY GrowKeeps DEF memVars, ghostVars

LEMMA ReceiptStep ==
  ASSUME LedgerInv, [Next]_vars
  PROVE  KeepsAll
<1>0. KeepsLedger
  BY LedgerStep
<1>1. CASE UNCHANGED vars
  BY <1>1, QuietKept DEF vars
<1>2. ASSUME NEW p \in Procs, Process(p) PROVE KeepsAll
  <2>1. CASE Crash(p) \/ Close(p)
    BY <2>1, GoneKept DEF Crash, Close
  <2>2. CASE \E c \in Calls : Recover(p, c)
    <3>1. PICK c \in Calls : Recover(p, c)
      BY <2>2
    <3>2. ForgetResponse(p, c) /\ UNCHANGED ghostVars /\ Persist(c)
      BY <3>1 DEF Recover
    <3>3. got[c] # "none"
      BY <3>1 DEF Recover, LedgerInv, ReceiptLedger
    <3>4. call'[c].response = got[c]
      BY <3>2 DEF Persist, LedgerInv, CallLedger, TypeInv, CallTypes, CallRow
    <3>5. QED
      BY <1>0, <3>2, <3>4, ForgetKept DEF ghostVars
  <2>3. CASE \E b \in Batches : Cancel(p, b)
    BY <2>3, GrowKeeps DEF Cancel, ghostVars
  <2>4. CASE \/ Boot(p) \/ AcquireOwner(p) \/ OpenService(p) \/ DiscardOwner(p) \/ LoseOwner(p)
             \/ Drain(p) \/ \E b \in Batches : Start(p, b)
    BY <2>4, QuietKept
       DEF Boot, AcquireOwner, OpenService, DiscardOwner, LoseOwner, Drain, Start
  <2>5. QED
    BY <1>2, <2>1, <2>2, <2>3, <2>4 DEF Process
<1>3. ASSUME NEW p \in Procs, NEW b \in Batches, Command(p, b) PROVE KeepsAll
  BY <1>3, QuietKept
     DEF Command, Create, Authorize, Pause, AuthorizeInput, AuthorizeStep, ResolveUnknown,
         EditPlan, EditCandidate, Adopt
<1>4. ASSUME NEW p \in Procs, NEW b \in Batches, Run(p, b) PROVE KeepsAll
  <2>1. CASE Forget(p, b)
    <3>1. CallOf(p, b) \in Calls /\ call[CallOf(p, b)].response # "none"
      BY <2>1, SlottedTask
         DEF Forget, At, LedgerInv, TypeInv, TaskLedger, Place, CallOf, Slotted
    <3>2. ForgetResponse(p, CallOf(p, b)) /\ UNCHANGED <<call, ghostVars>>
      BY <2>1 DEF Forget, dbVars
    <3>3. call'[CallOf(p, b)].response = got[CallOf(p, b)]
      BY <3>1, <3>2 DEF LedgerInv, CallLedger
    <3>4. QED
      BY <1>0, <3>1, <3>2, <3>3, ForgetKept DEF ghostVars
  <2>2. CASE \E reply \in Replies : Receive(p, b, reply)
    <3>1. PICK reply \in Replies : Receive(p, b, reply)
      BY <2>2
    <3>2. CallOf(p, b) \in Calls
      BY <3>1, SlottedTask DEF Receive, At, LedgerInv, TypeInv, Slotted
    <3>3. /\ got' = [got EXCEPT ![CallOf(p, b)] = reply]
          /\ pending_responses' = [pending_responses EXCEPT ![p] = @ \cup {CallOf(p, b)}]
          /\ UNCHANGED <<journal, lost>>
      BY <3>1 DEF Receive
    <3>4. QED
      BY <3>2, <3>3 DEF KeepsAll, Keeps, InHand, LedgerInv, TypeInv, ReceiptTypes
  <2>3. CASE SaveJournal(p, b)
    BY <2>3, GrowKeeps DEF SaveJournal, ghostVars
  <2>4. CASE Compile(p, b)
    BY <2>4, GrowKeeps DEF Compile, memVars
  <2>5. CASE Send(p, b)
    BY <2>5, GrowKeeps DEF Send, memVars
  <2>6. CASE \/ ClaimRead(p, b) \/ ClaimNothing(p, b) \/ ClaimRefused(p, b) \/ ClaimTooLarge(p, b)
             \/ Claim(p, b) \/ SendRefused(p, b) \/ NoAnswer(p, b) \/ Store(p, b)
             \/ CompileRead(p, b) \/ CompileRaises(p, b) \/ FailRead(p, b) \/ FailWrite(p, b)
             \/ FinishErrorRead(p, b) \/ FinishError(p, b) \/ FinishErrorFails(p, b)
    BY <2>6, QuietKept
       DEF ClaimRead, ClaimNothing, ClaimRefused, ClaimTooLarge, Claim, SendRefused, NoAnswer,
           Store, CompileRead, CompileRaises, FailRead, FailWrite, FinishErrorRead, ErrorRead,
           FinishError, ErrorWrite, FinishErrorFails
  <2>7. QED
    BY <1>4, <2>1, <2>2, <2>3, <2>4, <2>5, <2>6 DEF Run
<1>5. ASSUME NEW p \in Procs, NEW r \in Requests, Revalidation(p, r) PROVE KeepsAll
  BY <1>5, GrowKeeps
     DEF Revalidation, Revalidate, RevalidateRead, RevalidateCompile, memVars, ghostVars
<1>6. QED
  BY <1>1, <1>2, <1>3, <1>4, <1>5 DEF Next

\* A received answer is in its row, in the journal or in the memory of a process, until the
\* only process that had it dies, whichever writes fail and whoever holds the lock
\* (runtime.py persist_response, forget_response, recover_responses).
THEOREM ReceiptsKept == Spec => []ReceiptKept
<1>1. Init => LedgerInv /\ ReceiptKept
  BY LedgerInit DEF Init, ReceiptKept
<1>2. LedgerInv /\ ReceiptKept /\ [Next]_vars => LedgerInv' /\ ReceiptKept'
  <2> SUFFICES ASSUME LedgerInv, ReceiptKept, [Next]_vars PROVE LedgerInv' /\ ReceiptKept'
    OBVIOUS
  <2>1. KeepsLedger /\ KeepsAll
    BY LedgerStep, ReceiptStep
  <2>2. ASSUME NEW c \in Calls, got'[c] # "none"
        PROVE  InHand(c)' \/ call'[c].response = got'[c]
    <3>1. CASE got[c] = "none"
      BY <2>1, <2>2, <3>1 DEF KeepsAll
    <3>2. CASE got[c] # "none" /\ call[c].response = got[c]
      BY <2>1, <3>2, StoredStays
    <3>3. CASE got[c] # "none" /\ call[c].response # got[c]
      BY <2>1, <3>3 DEF ReceiptKept, KeepsAll, Keeps, InHand
    <3>4. QED
      BY <3>1, <3>2, <3>3
  <2>3. QED
    BY <2>1, <2>2 DEF KeepsLedger, ReceiptKept, InHand
<1>3. QED
  BY <1>1, <1>2, PTL DEF Spec

-----------------------------------------------------------------------------
(* The stages follow the formal versions.  A task claims by a row it read  *)
(* without a lock, so the invariant says what such a row knows of the base *)
(* of its stage, which no flush ever writes.                               *)

\* A call executes only in a stage that exists and continues the current version.
CallsCurrent ==
  \A c \in Calls : call[c].status = "executing" =>
    batch[c[1]].status # "none" /\ batch[c[1]].base = version

\* A row that a task remembers to claim by has the base of its stage.
SeenBase ==
  \A p \in Procs, b \in Batches :
    tasks[p][b].pc = "claim" /\ tasks[p][b].seen.status # "none" =>
      batch[b].status # "none" /\ tasks[p][b].seen.base = batch[b].base

\* An adopted stage continues an earlier version, and no two the same.
AdoptedBefore ==
  \A b \in Batches : batch[b].status = "adopted" => batch[b].base < version

FollowInv == CallsCurrent /\ SeenBase /\ AdoptedBefore /\ AdoptedOnce

LEMMA FollowInit == Init => FollowInv
BY DEF Init, FollowInv, CallsCurrent, SeenBase, AdoptedBefore, AdoptedOnce, NoCall, NoBatch,
       Idle, Calls

\* What all steps but three have in common: rows keep their base and do not become adopted,
\* no call begins to execute, and a task remembers what it did, or the row as it is.
RowsFollow ==
  \A b \in Batches :
    /\ batch'[b].base = batch[b].base
    /\ batch'[b].status = "none" => batch[b].status = "none"
    /\ batch'[b].status = "adopted" => batch[b].status = "adopted"

CallsFollow == \A c \in Calls : call'[c].status = "executing" => call[c].status = "executing"

TasksFollow ==
  \A p \in Procs, b \in Batches :
    tasks'[p][b].pc = "claim" =>
      \/ tasks'[p][b].seen = batch[b]
      \/ /\ tasks[p][b].pc = "claim"
         /\ tasks'[p][b].seen = tasks[p][b].seen

LEMMA FollowStep ==
  ASSUME FollowInv, RowsFollow, CallsFollow, TasksFollow, version' = version
  PROVE  FollowInv'
<1>1. \A c \in Calls : c[1] \in Batches
  BY DEF Calls
<1>2. CallsCurrent'
  BY <1>1 DEF FollowInv, CallsCurrent, RowsFollow, CallsFollow
<1>3. SeenBase'
  BY DEF FollowInv, SeenBase, RowsFollow, TasksFollow
<1>4. AdoptedBefore' /\ AdoptedOnce'
  BY DEF FollowInv, AdoptedBefore, AdoptedOnce, RowsFollow
<1>5. QED
  BY <1>2, <1>3, <1>4 DEF FollowInv

LEMMA FollowStill ==
  /\ UNCHANGED batch => RowsFollow
  /\ UNCHANGED call => CallsFollow
  /\ UNCHANGED tasks => TasksFollow
BY DEF RowsFollow, CallsFollow, TasksFollow

\* One row that changes.
LEMMA RowFollows ==
  ASSUME TypeInv, NEW b \in Batches, NEW row, batch' = [batch EXCEPT ![b] = row],
         row.base = batch[b].base, row.status \notin {"none", "adopted"}
  PROVE  RowsFollow
BY DEF TypeInv, BatchTypes, RowsFollow

\* A flush never writes the base; it writes the status it assigns.
LEMMA FlushFollows ==
  ASSUME NEW stored, NEW seen, NEW new, new.status \notin {"none", "adopted"}
  PROVE  /\ Flush(stored, seen, new).base = stored.base
         /\ Flush(stored, seen, new).status \in {stored.status, new.status}
BY DEF Flush, Column

LEMMA FlushedRow ==
  ASSUME TypeInv, NEW b \in Batches, NEW seen, NEW new, new.status \notin {"none", "adopted"},
         batch' = [batch EXCEPT ![b] = Flush(@, seen, new)]
  PROVE  RowsFollow
<1> DEFINE row == Flush(batch[b], seen, new)
<1>1. row.base = batch[b].base /\ row.status \in {batch[b].status, new.status}
  BY FlushFollows
<1>2. batch' = [batch EXCEPT ![b] = row]
  OBVIOUS
<1> HIDE DEF row
<1>3. QED
  BY <1>1, <1>2 DEF TypeInv, BatchTypes, RowsFollow

\* One task that moves.
LEMMA TaskFollows ==
  ASSUME TypeInv, NEW p \in Procs, NEW b \in Batches, NEW t,
         tasks' = [tasks EXCEPT ![p][b] = t], t.pc = "claim" => t.seen = batch[b]
  PROVE  TasksFollow
<1>1. tasks \in [Procs -> [Batches -> TaskRows]]
  BY DEF TypeInv, TaskTypes
<1>2. tasks'[p][b] = t
  BY <1>1
<1>3. \A q \in Procs, x \in Batches : q # p \/ x # b => tasks'[q][x] = tasks[q][x]
  BY <1>1
<1>4. ASSUME NEW q \in Procs, NEW x \in Batches, tasks'[q][x].pc = "claim"
      PROVE  \/ tasks'[q][x].seen = batch[x]
             \/ /\ tasks[q][x].pc = "claim"
                /\ tasks'[q][x].seen = tasks[q][x].seen
  <2>1. CASE q = p /\ x = b
    <3>1. tasks'[q][x] = t
      BY <1>2, <2>1
    <3>2. t.pc = "claim" /\ tasks'[q][x].seen = t.seen
      BY <1>4, <3>1
    <3>3. t.seen = batch[x]
      BY <2>1, <3>2
    <3>4. QED
      BY <3>2, <3>3
  <2>2. CASE q # p \/ x # b
    BY <1>3, <1>4, <2>2
  <2>3. QED
    BY <2>1, <2>2
<1>5. QED
  BY <1>4 DEF TasksFollow

LEMMA GotoFollows ==
  ASSUME TypeInv, NEW p \in Procs, NEW b \in Batches, NEW pc, pc # "claim", Goto(p, b, pc)
  PROVE  TasksFollow
<1> DEFINE t == [tasks[p][b] EXCEPT !.pc = pc]
<1>1. tasks[p][b] \in TaskRow
  BY DEF TypeInv, TaskTypes, TaskRows
<1>2. tasks' = [tasks EXCEPT ![p][b] = t] /\ t.pc = pc
  BY <1>1 DEF Goto, TypeInv, TaskTypes, TaskRow
<1> HIDE DEF t
<1>3. QED
  BY <1>2, TaskFollows

LEMMA EndFollows ==
  ASSUME TypeInv, NEW p \in Procs, NEW b \in Batches, EndTask(p, b)
  PROVE  TasksFollow
<1> DEFINE t == IF b \in pending_starts[p] THEN [Idle EXCEPT !.pc = "loop"] ELSE Idle
<1>1. tasks' = [tasks EXCEPT ![p][b] = t] /\ t.pc # "claim"
  BY DEF EndTask, Idle
<1> HIDE DEF t
<1>2. QED
  BY <1>1, TaskFollows

\* The ordinary steps, which only move what is there.
Follows == RowsFollow /\ CallsFollow /\ TasksFollow /\ version' = version

\* What a command leaves alone but its own row.
LEMMA CommandFollows ==
  ASSUME TypeInv, NEW b \in Batches, NEW row, batch' = [batch EXCEPT ![b] = row],
         row.base = batch[b].base, row.status \notin {"none", "adopted"},
         CallsFollow, UNCHANGED <<version, tasks>>
  PROVE  Follows
BY RowFollows, FollowStill DEF Follows

LEMMA AuthorizedFollows ==
  ASSUME TypeInv, NEW p \in Procs, NEW b \in Batches, NEW row, NEW calls,
         Authorized(p, b, row, calls), row.base = batch[b].base,
         \A c \in Calls : calls[c].status = "executing" => call[c].status = "executing",
         version' = version
  PROVE  Follows
<1> DEFINE new == [row EXCEPT !.authorized = TRUE, !.pause = FALSE, !.status = "queued"]
<1>1. new.base = row.base /\ new.status = "queued"
  BY DEF BatchRow
<1>2. batch' = [batch EXCEPT ![b] = new] /\ call' = calls /\ UNCHANGED tasks
  BY DEF Authorized
<1> HIDE DEF new
<1>3. QED
  BY <1>1, <1>2, CommandFollows DEF CallsFollow

LEMMA StageCommandFollows ==
  ASSUME TypeInv, NEW p \in Procs, NEW b \in Batches,
         \/ Authorize(p, b) \/ Pause(p, b) \/ AuthorizeInput(p, b) \/ AuthorizeStep(p, b)
         \/ ResolveUnknown(p, b) \/ EditPlan(p, b) \/ EditCandidate(p, b)
  PROVE  Follows
<1>0. batch \in [Batches -> BatchRow] /\ batch[b] \in BatchRow
  BY DEF TypeInv, BatchTypes, Rows
<1>1. CASE Authorize(p, b)
  BY <1>0, <1>1, AuthorizedFollows DEF Authorize
<1>2. CASE Pause(p, b)
  <2> DEFINE row == [batch[b] EXCEPT !.pause = TRUE,
                                     !.status = IF @ = "queued" THEN "paused" ELSE @]
  <2>1. row.base = batch[b].base /\ row.status \notin {"none", "adopted"}
    BY <1>0, <1>2 DEF Pause, BatchRow
  <2>2. batch' = [batch EXCEPT ![b] = row] /\ UNCHANGED <<call, version, tasks>>
    BY <1>0, <1>2 DEF Pause
  <2> HIDE DEF row
  <2>3. QED
    BY <2>1, <2>2, CommandFollows, FollowStill
<1>3. CASE AuthorizeInput(p, b)
  <2> DEFINE row == [batch[b] EXCEPT !.status = "awaiting_plan",
                                     !.next = IF batch[b].next = 0 THEN 2 ELSE batch[b].next]
  <2>1. row.base = batch[b].base
    BY <1>0 DEF BatchRow
  <2>2. Authorized(p, b, row, call) /\ version' = version
    BY <1>3 DEF AuthorizeInput
  <2> HIDE DEF row
  <2>3. QED
    BY <2>1, <2>2, AuthorizedFollows
<1>4. CASE AuthorizeStep(p, b)
  <2>1. PICK f \in ClaimedSlots(b), k \in FreeReplacement(b) :
          Authorized(p, b,
            [batch[b] EXCEPT !.status = "awaiting_plan", !.next = call[<<b, f>>].action,
                             !.state.text = call[<<b, f>>].text,
                             !.state.failed = f, !.state.replacement = k],
            IF call[<<b, f>>].status = "outcome_uncertain"
            THEN [call EXCEPT ![<<b, f>>].status = "uncertain_closed"] ELSE call)
    BY <1>4 DEF AuthorizeStep
  <2> DEFINE row   == [batch[b] EXCEPT !.status = "awaiting_plan", !.next = call[<<b, f>>].action,
                             !.state.text = call[<<b, f>>].text,
                             !.state.failed = f, !.state.replacement = k]
             calls == IF call[<<b, f>>].status = "outcome_uncertain"
                      THEN [call EXCEPT ![<<b, f>>].status = "uncertain_closed"] ELSE call
  <2>2. call \in [Calls -> CallRow] /\ <<b, f>> \in Calls
    BY DEF TypeInv, CallTypes, Calls, ClaimedSlots
  <2>3. row.base = batch[b].base
    BY <1>0 DEF BatchRow
  <2>4. \A c \in Calls : calls[c].status = "executing" => call[c].status = "executing"
    BY <2>2 DEF CallRow
  <2>5. Authorized(p, b, row, calls) /\ version' = version
    BY <1>4, <2>1 DEF AuthorizeStep
  <2> HIDE DEF row, calls
  <2>6. QED
    BY <2>3, <2>4, <2>5, AuthorizedFollows
<1>5. CASE ResolveUnknown(p, b)
  <2> DEFINE row == [batch[b] EXCEPT !.status = "needs_attention", !.next = 0,
                                     !.authorized = FALSE]
  <2>1. row.base = batch[b].base /\ row.status = "needs_attention"
    BY <1>0 DEF BatchRow
  <2>2. batch' = [batch EXCEPT ![b] = row] /\ UNCHANGED <<version, tasks>>
    BY <1>0, <1>5 DEF ResolveUnknown
  <2>3. CallsFollow
    <3>1. call \in [Calls -> CallRow]
      BY DEF TypeInv, CallTypes
    <3>2. \A c \in Calls : call'[c] = IF c[1] = b /\ call[c].status = "outcome_uncertain"
                THEN [call[c] EXCEPT !.status = "uncertain_closed"] ELSE call[c]
      BY <1>5 DEF ResolveUnknown
    <3>3. QED
      BY <3>1, <3>2 DEF CallsFollow, CallRow
  <2> HIDE DEF row
  <2>4. QED
    BY <2>1, <2>2, <2>3, CommandFollows
<1>6. CASE EditPlan(p, b)
  <2> DEFINE row == [batch[b] EXCEPT !.status = "awaiting_plan", !.next = Following(batch[b]),
                                     !.state.rev = @ + 1]
  <2>1. row.base = batch[b].base /\ row.status = "awaiting_plan"
    BY <1>0 DEF BatchRow
  <2>2. batch' = [batch EXCEPT ![b] = row] /\ UNCHANGED <<call, version, tasks>>
    BY <1>6 DEF EditPlan
  <2> HIDE DEF row
  <2>3. QED
    BY <2>1, <2>2, CommandFollows, FollowStill
<1>7. CASE EditCandidate(p, b)
  <2> DEFINE row == [batch[b] EXCEPT !.status = "needs_attention", !.next = 0,
                            !.state.text = "frozen",
                            !.state.rewritten = TRUE, !.state.rev = @ + 1]
  <2>1. row.base = batch[b].base /\ row.status = "needs_attention"
    BY <1>0 DEF BatchRow
  <2>2. batch' = [batch EXCEPT ![b] = row] /\ UNCHANGED <<call, version, tasks>>
    BY ZenonT(60), <1>0, <1>7 DEF EditCandidate
  <2> HIDE DEF row
  <2>3. QED
    BY <2>1, <2>2, CommandFollows, FollowStill
<1>8. QED
  BY <1>1, <1>2, <1>3, <1>4, <1>5, <1>6, <1>7

LEMMA ReconcileFollows ==
  ASSUME TypeInv, Reconcile
  PROVE  RowsFollow /\ CallsFollow
<1>0. batch \in [Batches -> BatchRow] /\ call \in [Calls -> CallRow]
  BY DEF TypeInv, BatchTypes, CallTypes, Rows
<1>1. \A b \in Batches : /\ batch'[b].base = batch[b].base
                         /\ batch'[b].status \in {batch[b].status, "outcome_uncertain", "paused"}
  BY <1>0 DEF Reconcile, Reconciled, BatchRow
<1>2. \A c \in Calls : call'[c].status \in {call[c].status, "outcome_uncertain"}
  BY <1>0 DEF Reconcile, CallRow
<1>3. QED
  BY <1>1, <1>2 DEF RowsFollow, CallsFollow

LEMMA GoneFollows ==
  ASSUME TypeInv, NEW p \in Procs, Gone(p)
  PROVE  TasksFollow
<1>1. \A q \in Procs, b \in Batches : tasks'[q][b] \in {tasks[q][b], Idle}
  BY DEF Gone, TypeInv, TaskTypes
<1>2. QED
  BY <1>1 DEF TasksFollow, Idle

LEMMA ProcessFollows ==
  ASSUME LedgerInv, NEW p \in Procs, Process(p)
  PROVE  Follows
<1>0. TypeInv
  BY DEF LedgerInv
<1>1. CASE \/ Boot(p) \/ AcquireOwner(p) \/ DiscardOwner(p) \/ LoseOwner(p) \/ Drain(p)
  BY <1>1, FollowStill
     DEF Boot, AcquireOwner, DiscardOwner, LoseOwner, Drain, dbVars, Follows
<1>2. CASE OpenService(p)
  BY <1>0, <1>2, ReconcileFollows, FollowStill DEF OpenService, Follows
<1>3. CASE Crash(p)
  BY <1>0, <1>3, GoneFollows, FollowStill DEF Crash, Gone, Follows
<1>4. CASE Close(p)
  BY <1>0, <1>4, GoneFollows, ReconcileFollows, FollowStill DEF Close, Gone, Follows
<1>5. CASE \E b \in Batches : Start(p, b)
  <2>1. PICK b \in Batches : Start(p, b)
    BY <1>5
  <2>2. CASE UNCHANGED tasks
    BY <2>1, <2>2, FollowStill DEF Start, dbVars, Follows
  <2>3. CASE tasks' = [tasks EXCEPT ![p][b] = [Idle EXCEPT !.pc = "loop"]]
    <3> DEFINE t == [Idle EXCEPT !.pc = "loop"]
    <3>1. t.pc = "loop"
      BY DEF Idle
    <3>2. tasks' = [tasks EXCEPT ![p][b] = t]
      BY <2>3
    <3> HIDE DEF t
    <3>3. TasksFollow
      BY <1>0, <3>1, <3>2, TaskFollows
    <3>4. QED
      BY <2>1, <3>3, FollowStill DEF Start, dbVars, Follows
  <2>4. QED
    BY <2>1, <2>2, <2>3 DEF Start, StartRun
<1>6. CASE \E b \in Batches : Cancel(p, b)
  <2>1. PICK b \in Batches : Cancel(p, b)
    BY <1>6
  <2>2. UNCHANGED dbVars
    BY <2>1 DEF Cancel
  <2>3. TasksFollow
    <3>1. CASE tasks' = [tasks EXCEPT ![p][b] = Idle]
      BY <1>0, <3>1, TaskFollows DEF Idle
    <3>2. CASE Goto(p, b, CancelPc(tasks[p][b].pc))
      BY <1>0, <3>2, GotoFollows DEF CancelPc
    <3>3. QED
      BY <2>1, <3>1, <3>2 DEF Cancel
  <2>4. QED
    BY <2>2, <2>3, FollowStill DEF dbVars, Follows
<1>7. CASE \E c \in Calls : Recover(p, c)
  <2>1. PICK c \in Calls : Recover(p, c)
    BY <1>7
  <2>2. c[1] \in Batches
    BY DEF Calls
  <2>3. RowsFollow
    <3>1. CASE UNCHANGED batch
      BY <3>1, FollowStill
    <3>2. CASE batch' = [batch EXCEPT ![c[1]].pause = TRUE, ![c[1]].status = "needs_attention",
                                      ![c[1]].next = 0]
      <4> DEFINE row == [batch[c[1]] EXCEPT !.pause = TRUE, !.status = "needs_attention",
                                            !.next = 0]
      <4>1. row.base = batch[c[1]].base /\ row.status = "needs_attention"
        BY <1>0, <2>2 DEF TypeInv, BatchTypes, Rows, BatchRow
      <4>2. batch' = [batch EXCEPT ![c[1]] = row]
        BY <1>0, <2>2, <3>2 DEF TypeInv, BatchTypes, Rows, BatchRow
      <4> HIDE DEF row
      <4>3. QED
        BY <1>0, <2>2, <4>1, <4>2, RowFollows
    <3>3. QED
      BY <2>1, <3>1, <3>2 DEF Recover
  <2>4. CallsFollow
    <3>1. call \in [Calls -> CallRow]
      BY <1>0 DEF TypeInv, CallTypes
    <3>2. Persist(c)
      BY <2>1 DEF Recover
    <3>3. QED
      BY <3>1, <3>2 DEF Persist, CallsFollow, CallRow
  <2>5. QED
    BY <2>1, <2>3, <2>4, FollowStill DEF Recover, Follows
<1>8. QED
  BY <1>1, <1>2, <1>3, <1>4, <1>5, <1>6, <1>7 DEF Process

\* compile_response writes no base, adopts nothing and executes nothing.
LEMMA CompileResponseFollows ==
  ASSUME TypeInv, NEW c \in Calls, NEW seen \in BatchRow, NEW callStatus,
         CompileResponse(c, seen, callStatus)
  PROVE  RowsFollow /\ CallsFollow
<1>1. CASE UNCHANGED <<batch, call>>
  BY <1>1, FollowStill
<1>2. CASE ~NothingToCompile(c, seen, callStatus)
  <2> DEFINE row == [seen EXCEPT !.state.compiled = @ \cup {c[2]}]
  <2>1. PICK o \in Outcomes(c, row) :
          /\ batch' = [batch EXCEPT ![c[1]] = Flush(@, seen, Honoured(o.row))]
          /\ call' = [call EXCEPT ![c].status = Column(@, callStatus, o.status),
                                  ![c].interrupted = FALSE]
    BY <1>2 DEF CompileResponse
  <2>2. c[1] \in Batches
    BY DEF Calls
  <2>3. DOMAIN row = DOMAIN seen /\ row.status = seen.status
    BY DEF BatchRow
  <2>4. \A left \in Remains(c, row) : DOMAIN left = DOMAIN seen
    BY <2>3 DEF Remains
  <2>5. /\ o.status \in {"completed", "local_failure", "outcome_uncertain"}
        /\ o.row.status \in {"outcome_uncertain", "needs_attention", "queued", "awaiting_plan"}
    <3> HIDE DEF row
    <3>1. CASE got[c] = "cut"
      <4>1. PICK left \in Remains(c, row) :
              o = [status |-> "outcome_uncertain",
                   row |-> [left EXCEPT !.status = "outcome_uncertain", !.next = 0]]
        BY <2>1, <3>1 DEF Outcomes
      <4>2. "status" \in DOMAIN left
        BY <2>4 DEF BatchRow
      <4>3. o.row = [left EXCEPT !.status = "outcome_uncertain", !.next = 0]
        BY <4>1
      <4>4. o.row.status = "outcome_uncertain"
        BY <4>2, <4>3
      <4>5. QED
        BY <4>1, <4>4
    <3>2. CASE got[c] # "cut" /\ Usable(c, row)
      <4> DEFINE a == call[c].action
                 text == TextAfter(a, row.state.text)
      <4>1. PICK st \in After(a) :
              o = [status |-> "completed",
                   row |-> [row EXCEPT !.status = st, !.next = NextAction(a), !.state.done = a,
                                       !.state.text = text]]
        BY <2>1, <3>2 DEF Outcomes
      <4>2. st \in {"needs_attention", "queued", "awaiting_plan"}
        BY DEF After
      <4>3. o.row = [row EXCEPT !.status = st, !.next = NextAction(a), !.state.done = a,
                                !.state.text = text]
        BY <4>1
      <4>4. "status" \in DOMAIN row
        BY <2>3 DEF BatchRow
      <4> HIDE DEF a, text
      <4>5. o.row.status = st
        BY <4>3, <4>4
      <4>6. QED
        BY <4>1, <4>2, <4>5
    <3>3. CASE got[c] # "cut" /\ ~Usable(c, row)
      <4> DEFINE New == {[left EXCEPT !.status = "needs_attention", !.next = 0] :
                           left \in Remains(c, row)}
                        \cup (IF Skippable(c, row)
                              THEN {[row EXCEPT !.status = "queued", !.next = Steps]} ELSE {})
      <4>1. PICK new \in New : o = [status |-> "local_failure", row |-> new]
        BY <2>1, <3>3 DEF Outcomes
      <4>2. CASE new = [row EXCEPT !.status = "queued", !.next = Steps]
        <5>1. "status" \in DOMAIN row
          BY <2>3 DEF BatchRow
        <5>2. new.status = "queued"
          BY <4>2, <5>1
        <5>3. QED
          BY <4>1, <5>2
      <4>3. CASE \E left \in Remains(c, row) :
                   new = [left EXCEPT !.status = "needs_attention", !.next = 0]
        <5>1. PICK left \in Remains(c, row) :
                     new = [left EXCEPT !.status = "needs_attention", !.next = 0]
          BY <4>3
        <5>2. "status" \in DOMAIN left
          BY <2>4 DEF BatchRow
        <5>3. new.status = "needs_attention"
          BY <5>1, <5>2
        <5>4. QED
          BY <4>1, <5>3
      <4>4. QED
        BY <4>1, <4>2, <4>3
    <3>4. QED
      BY <3>1, <3>2, <3>3
  <2>6. RowsFollow
    <3>1. Honoured(o.row).status \notin {"none", "adopted"}
      BY <2>5 DEF Honoured
    <3>2. QED
      BY <2>1, <2>2, <3>1, FlushedRow
  <2>7. CallsFollow
    <3>1. call \in [Calls -> CallRow]
      BY DEF TypeInv, CallTypes
    <3>2. QED
      BY <2>1, <2>5, <3>1 DEF CallsFollow, Column, CallRow
  <2>8. QED
    BY <2>6, <2>7
<1>3. QED
  BY <1>1, <1>2 DEF CompileResponse

\* A step of a task that leaves its stage and its call as they are.
LEMMA MovingFollows ==
  ASSUME LedgerInv, NEW p \in Procs, NEW b \in Batches,
         \/ ClaimRefused(p, b) \/ SendRefused(p, b) \/ Send(p, b)
         \/ \E reply \in Replies : Receive(p, b, reply)
         \/ NoAnswer(p, b) \/ SaveJournal(p, b) \/ Forget(p, b) \/ CompileRaises(p, b)
         \/ FinishErrorFails(p, b)
  PROVE  Follows
<1>1. UNCHANGED dbVars
  BY DEF ClaimRefused, SendRefused, Send, Receive, NoAnswer, SaveJournal, Forget, CompileRaises,
         FinishErrorFails
<1>2. \E pc \in TaskPc \ {"claim"} : Goto(p, b, pc)
  BY DEF ClaimRefused, SendRefused, Send, Receive, NoAnswer, SaveJournal, Forget, CompileRaises,
         FinishErrorFails, TaskPc
<1>3. QED
  BY <1>1, <1>2, GotoFollows, FollowStill DEF LedgerInv, dbVars, Follows

\* A step of a task that reads rows: it remembers its stage as it is.
LEMMA ReadingFollows ==
  ASSUME LedgerInv, NEW p \in Procs, NEW b \in Batches,
         \/ ClaimRead(p, b) \/ CompileRead(p, b) \/ FailRead(p, b) \/ FinishErrorRead(p, b)
  PROVE  Follows
<1>0. TypeInv /\ tasks[p][b] \in TaskRow
  BY DEF LedgerInv, TypeInv, TaskTypes, TaskRows
<1>1. UNCHANGED dbVars
  BY DEF ClaimRead, CompileRead, FailRead, FinishErrorRead, ErrorRead
<1>2. TasksFollow
  <2>1. CASE EndTask(p, b) \/ Goto(p, b, "fail")
    BY <1>0, <2>1, EndFollows, GotoFollows
  <2>2. ASSUME NEW t, tasks' = [tasks EXCEPT ![p][b] = t], t.seen = batch[b] PROVE TasksFollow
    BY <1>0, <2>2, TaskFollows
  <2>3. CASE tasks' = [tasks EXCEPT ![p][b].pc = "claim", ![p][b].seen = batch[b]]
    <3> DEFINE t == [tasks[p][b] EXCEPT !.pc = "claim", !.seen = batch[b]]
    <3>1. tasks' = [tasks EXCEPT ![p][b] = t] /\ t.seen = batch[b]
      BY <1>0, <2>3 DEF TypeInv, TaskTypes, TaskRow
    <3> HIDE DEF t
    <3>2. QED
      BY <2>2, <3>1
  <2>4. ASSUME NEW pc, tasks' = [tasks EXCEPT ![p][b].pc = pc, ![p][b].seen = batch[b],
                                             ![p][b].callStatus = call[CallOf(p, b)].status]
        PROVE  TasksFollow
    <3> DEFINE t == [tasks[p][b] EXCEPT !.pc = pc, !.seen = batch[b],
                                        !.callStatus = call[CallOf(p, b)].status]
    <3>1. tasks' = [tasks EXCEPT ![p][b] = t] /\ t.seen = batch[b]
      BY <1>0, <2>4 DEF TypeInv, TaskTypes, TaskRow
    <3> HIDE DEF t
    <3>2. QED
      BY <2>2, <3>1
  <2>5. CASE tasks' = [tasks EXCEPT ![p][b] = [Idle EXCEPT !.pc = "fail_write", !.seen = batch[b]]]
    <3> DEFINE t == [Idle EXCEPT !.pc = "fail_write", !.seen = batch[b]]
    <3>1. tasks' = [tasks EXCEPT ![p][b] = t] /\ t.seen = batch[b]
      BY <2>5 DEF Idle
    <3> HIDE DEF t
    <3>2. QED
      BY <2>2, <3>1
  <2>6. QED
    BY <2>1, <2>3, <2>4, <2>5 DEF ClaimRead, CompileRead, FailRead, FinishErrorRead, ErrorRead
<1>3. QED
  BY <1>1, <1>2, FollowStill DEF dbVars, Follows

\* A step of a task that writes its stage, its call, or both.
LEMMA WritingFollows ==
  ASSUME LedgerInv, NEW p \in Procs, NEW b \in Batches,
         \/ ClaimNothing(p, b) \/ ClaimTooLarge(p, b) \/ Store(p, b) \/ Compile(p, b)
         \/ FailWrite(p, b) \/ FinishError(p, b)
  PROVE  Follows
<1>0. TypeInv /\ tasks[p][b].seen \in BatchRow /\ batch[b] \in BatchRow
  BY DEF LedgerInv, TypeInv, TaskTypes, TaskRows, BatchTypes, Rows
<1> DEFINE seen == tasks[p][b].seen
<1>1. CASE ClaimNothing(p, b)
  <2>1. RowsFollow
    <3>1. CASE UNCHANGED batch
      BY <3>1, FollowStill
    <3>2. CASE batch' = [batch EXCEPT ![b].status = Column(@, seen.status, "paused")]
      BY <1>0, <3>2 DEF RowsFollow, Column, TypeInv, BatchTypes, Rows, BatchRow
    <3>3. QED
      BY <1>1, <3>1, <3>2 DEF ClaimNothing
  <2>2. QED
    BY <1>0, <1>1, <2>1, EndFollows, FollowStill DEF ClaimNothing, Follows
<1>2. CASE ClaimTooLarge(p, b)
  <2> DEFINE new == [seen EXCEPT !.status = "needs_attention"]
  <2>1. new.status = "needs_attention"
    BY <1>0 DEF BatchRow
  <2>2. batch' = [batch EXCEPT ![b] = Flush(@, seen, new)]
    BY <1>2 DEF ClaimTooLarge
  <2> HIDE DEF new
  <2>3. RowsFollow
    BY <1>0, <2>1, <2>2, FlushedRow
  <2>4. QED
    BY <1>0, <1>2, <2>3, EndFollows, FollowStill DEF ClaimTooLarge, Follows
<1>3. CASE Store(p, b)
  <2>1. CallsFollow
    BY <1>0, <1>3, FollowStill DEF Store, Persist, CallsFollow, TypeInv, CallTypes, CallRow
  <2>2. TasksFollow
    BY <1>0, <1>3, GotoFollows DEF Store
  <2>3. QED
    BY <1>3, <2>1, <2>2, FollowStill DEF Store, Follows
<1>4. CASE Compile(p, b)
  <2> DEFINE t == [Idle EXCEPT !.pc = "loop"]
  <2>1. t.pc = "loop"
    BY DEF Idle
  <2>2. tasks' = [tasks EXCEPT ![p][b] = t]
    BY <1>4 DEF Compile
  <2> HIDE DEF t
  <2>3. TasksFollow
    BY <1>0, <2>1, <2>2, TaskFollows
  <2>4. CallOf(p, b) \in Calls
    BY <1>4, SlottedTask DEF Compile, At, LedgerInv, TypeInv, Slotted
  <2>5. RowsFollow /\ CallsFollow
    BY <1>0, <1>4, <2>4, CompileResponseFollows DEF Compile
  <2>6. QED
    BY <1>4, <2>3, <2>5 DEF Compile, Follows
<1>5. CASE FailWrite(p, b)
  <2>1. RowsFollow
    <3>1. CASE UNCHANGED batch
      BY <3>1, FollowStill
    <3>2. CASE batch' = [batch EXCEPT ![b] = NeedsAttention(@, seen)]
      <4> DEFINE new == [seen EXCEPT !.status = "needs_attention", !.next = 0]
      <4>1. new.status = "needs_attention"
        BY <1>0 DEF BatchRow
      <4>2. \/ batch' = [batch EXCEPT ![b] = Flush(@, seen, new)]
            \/ batch' = [batch EXCEPT ![b] = @]
        BY <3>2 DEF NeedsAttention
      <4>3. batch' = [batch EXCEPT ![b] = @] => UNCHANGED batch
        BY <1>0 DEF TypeInv, BatchTypes
      <4> HIDE DEF new
      <4>4. QED
        BY <1>0, <4>1, <4>2, <4>3, FlushedRow, FollowStill
    <3>3. QED
      BY <1>5, <3>1, <3>2 DEF FailWrite
  <2>2. QED
    BY <1>0, <1>5, <2>1, EndFollows, FollowStill DEF FailWrite, Follows
<1>6. CASE FinishError(p, b)
  <2>1. PICK callStatus \in {"not_dispatched", "outcome_uncertain"},
             batchStatus \in {"failed", "outcome_uncertain"},
             pc \in TaskPc : ErrorWrite(p, b, pc, callStatus, batchStatus) /\ pc \in Slotted
    BY <1>6 DEF FinishError, TaskPc, Slotted
  <2>2. RowsFollow
    <3> DEFINE new == [seen EXCEPT !.status = batchStatus, !.next = 0]
    <3>1. new.status = batchStatus
      BY <1>0 DEF BatchRow
    <3>2. \/ batch' = [batch EXCEPT ![b] = Flush(@, seen, new)]
          \/ batch' = [batch EXCEPT ![b] = @]
      BY <2>1 DEF ErrorWrite, Errored
    <3>3. batch' = [batch EXCEPT ![b] = @] => UNCHANGED batch
      BY <1>0 DEF TypeInv, BatchTypes
    <3> HIDE DEF new
    <3>4. QED
      BY <1>0, <3>1, <3>2, <3>3, FlushedRow, FollowStill
  <2>3. CallsFollow
    <3>1. call \in [Calls -> CallRow]
      BY <1>0 DEF TypeInv, CallTypes
    <3>2. QED
      BY <2>1, <3>1 DEF ErrorWrite, Column, CallsFollow, CallRow
  <2>4. QED
    BY <1>0, <2>1, <2>2, <2>3, EndFollows DEF ErrorWrite, Follows
<1>7. QED
  BY <1>1, <1>2, <1>3, <1>4, <1>5, <1>6

LEMMA RevalidationFollows ==
  ASSUME LedgerInv, NEW p \in Procs, NEW r \in Requests, Revalidation(p, r)
  PROVE  Follows
<1>0. TypeInv /\ requests[p][r] \in RequestRows
  BY DEF LedgerInv, TypeInv, RequestTypes
<1>1. CASE \E c \in Calls : Revalidate(p, r, c)
  <2>1. PICK c \in Calls : Revalidate(p, r, c)
    BY <1>1
  <2> DEFINE row == [batch[c[1]] EXCEPT !.pause = TRUE]
  <2>2. c[1] \in Batches /\ row.base = batch[c[1]].base /\ row.status = batch[c[1]].status
    BY <1>0 DEF Calls, TypeInv, BatchTypes, Rows, BatchRow
  <2>3. batch' = [batch EXCEPT ![c[1]] = row] /\ UNCHANGED <<call, version, tasks>>
    BY <1>0, <2>1, <2>2 DEF Revalidate, TypeInv, BatchTypes
  <2> HIDE DEF row
  <2>4. RowsFollow
    BY <1>0, <2>2, <2>3 DEF RowsFollow, TypeInv, BatchTypes
  <2>5. QED
    BY <2>3, <2>4, FollowStill DEF Follows
<1>2. CASE RevalidateRead(p, r)
  BY <1>2, FollowStill DEF RevalidateRead, dbVars, Follows
<1>3. CASE RevalidateCompile(p, r)
  <2>1. requests[p][r].target \in Calls /\ requests[p][r].seen \in BatchRow
    BY <1>0, <1>3 DEF RevalidateCompile, RequestRows, Rows
  <2>2. RowsFollow /\ CallsFollow
    BY <1>0, <1>3, <2>1, CompileResponseFollows DEF RevalidateCompile
  <2>3. QED
    BY <1>3, <2>2, FollowStill DEF RevalidateCompile, Follows
<1>4. QED
  BY <1>1, <1>2, <1>3 DEF Revalidation

-----------------------------------------------------------------------------
(* The three steps that do more than follow: a stage begins, a call is     *)
(* claimed, a stage becomes the formal version.                            *)

\* Only a stage that does not exist yet is given a base; nothing executes in it and no task
\* remembers a row of it.
LEMMA CreateKeepsFollow ==
  ASSUME LedgerInv, FollowInv, NEW p \in Procs, NEW b \in Batches, NEW replace \in BOOLEAN,
         Create(p, b, replace)
  PROVE  FollowInv'
<1>0. batch \in [Batches -> BatchRow] /\ call \in [Calls -> CallRow]
  BY DEF LedgerInv, TypeInv, BatchTypes, CallTypes, Rows
<1>1. batch[b].status = "none" /\ UNCHANGED <<call, version, tasks>>
  BY DEF Create
<1>2. batch'[b].status = "draft" /\ batch'[b].base = version
  BY DEF Create, NewBatch, NoBatch
<1>3. \A x \in Batches \ {b} :
        /\ batch'[x].base = batch[x].base
        /\ batch'[x].status \in {batch[x].status, "archived"}
        /\ batch[x].status = "none" <=> batch'[x].status = "none"
  BY <1>0 DEF Create, Superseded, BatchRow
<1>4. \A c \in Calls : c[1] \in Batches
  BY DEF Calls
<1>5. CallsCurrent'
  BY <1>1, <1>2, <1>3, <1>4 DEF FollowInv, CallsCurrent
<1>6. SeenBase'
  BY <1>1, <1>2, <1>3 DEF FollowInv, SeenBase
<1>7. AdoptedBefore' /\ AdoptedOnce'
  BY <1>1, <1>2, <1>3 DEF FollowInv, AdoptedBefore, AdoptedOnce
<1>8. QED
  BY <1>5, <1>6, <1>7 DEF FollowInv

\* The claim checks the base of the row it remembers, which is the base of the stage.
LEMMA ClaimKeepsFollow ==
  ASSUME LedgerInv, FollowInv, NEW p \in Procs, NEW b \in Batches, Claim(p, b)
  PROVE  FollowInv'
<1> DEFINE seen == tasks[p][b].seen
           slot == SlotFor(b, seen)
           new  == [seen EXCEPT !.status = "running"]
<1>0. TypeInv /\ seen \in BatchRow
  BY DEF LedgerInv, TypeInv, TaskTypes, TaskRows, TaskRow
<1>1. RowsFollow
  <2>1. new.status = "running" /\ batch' = [batch EXCEPT ![b] = Flush(@, seen, new)]
    BY <1>0 DEF Claim, BatchRow
  <2> HIDE DEF new
  <2>2. QED
    BY <1>0, <2>1, FlushedRow
<1>2. TasksFollow
  <2> DEFINE t == [Idle EXCEPT !.pc = "send", !.slot = slot]
  <2>1. t.pc = "send" /\ tasks' = [tasks EXCEPT ![p][b] = t]
    BY DEF Claim, Idle
  <2> HIDE DEF t
  <2>2. QED
    BY <1>0, <2>1, TaskFollows
<1>3. batch[b].status # "none" /\ batch[b].base = version /\ version' = version
  <2>1. tasks[p][b].pc = "claim" /\ seen.status # "none" /\ seen.base = version
    BY DEF Claim, Claiming, At, MayClaim, Current
  <2>2. QED
    BY <2>1 DEF FollowInv, SeenBase, Claim
<1>4. \A c \in Calls : c[1] \in Batches /\ (c[1] # b => call'[c] = call[c])
  <2>1. call \in [Calls -> CallRow]
    BY <1>0 DEF TypeInv, CallTypes
  <2> HIDE DEF slot
  <2>2. \E new_call : call' = [call EXCEPT ![<<b, slot>>] = new_call]
    BY DEF Claim, slot
  <2>3. QED
    BY <2>1, <2>2 DEF Calls
<1>5. CallsCurrent'
  BY <1>1, <1>3, <1>4 DEF FollowInv, CallsCurrent, RowsFollow
<1>6. SeenBase'
  BY <1>1, <1>2 DEF FollowInv, SeenBase, RowsFollow, TasksFollow
<1>7. AdoptedBefore' /\ AdoptedOnce'
  BY <1>1, <1>3 DEF FollowInv, AdoptedBefore, AdoptedOnce, RowsFollow
<1>8. QED
  BY <1>5, <1>6, <1>7 DEF FollowInv

\* Adoption asks that nothing of the project executes; the version it makes is new.
LEMMA AdoptKeepsFollow ==
  ASSUME LedgerInv, FollowInv, NEW p \in Procs, NEW b \in Batches, Adopt(p, b)
  PROVE  FollowInv'
<1>0. batch \in [Batches -> BatchRow] /\ version \in Nat
  BY DEF LedgerInv, TypeInv, BatchTypes, Rows, ControlTypes
<1>1. /\ version' = version + 1 /\ UNCHANGED <<call, tasks>>
      /\ batch[b].base = version /\ batch[b].status # "none"
  BY DEF Adopt, Current
<1>2. \A x \in Batches :
        /\ batch'[x].base = batch[x].base
        /\ batch[x].status # "none" => batch'[x].status # "none"
        /\ x # b /\ batch'[x].status = "adopted" => batch[x].status = "adopted"
  BY <1>0 DEF Adopt, BatchRow
<1>3. \A c \in Calls : call[c].status # "executing"
  <2>1. \A x \in Batches, k \in SlotIds : call[<<x, k>>].status # "executing"
    BY DEF Adopt, FormalChangeBlocked, ProjectHas, HasCall
  <2>2. \A c \in Calls : c[1] \in Batches /\ c[2] \in SlotIds /\ c = <<c[1], c[2]>>
    BY DEF Calls
  <2>3. QED
    BY <2>1, <2>2
<1>4. CallsCurrent'
  BY <1>1, <1>3 DEF CallsCurrent
<1>5. SeenBase'
  BY <1>1, <1>2 DEF FollowInv, SeenBase
<1>6. AdoptedBefore'
  BY <1>0, <1>1, <1>2 DEF FollowInv, AdoptedBefore, BatchRow
<1>7. AdoptedOnce'
  BY <1>0, <1>1, <1>2 DEF FollowInv, AdoptedBefore, AdoptedOnce, BatchRow
<1>8. QED
  BY <1>4, <1>5, <1>6, <1>7 DEF FollowInv

LEMMA FollowNext ==
  ASSUME LedgerInv, FollowInv, [Next]_vars
  PROVE  FollowInv'
<1>0. Follows => FollowInv'
  BY FollowStep DEF Follows
<1>1. CASE UNCHANGED vars
  BY <1>0, <1>1, FollowStill DEF vars, dbVars, Follows
<1>2. ASSUME NEW p \in Procs, Process(p) PROVE FollowInv'
  BY <1>0, <1>2, ProcessFollows
<1>3. ASSUME NEW p \in Procs, NEW b \in Batches, Command(p, b) PROVE FollowInv'
  BY <1>0, <1>3, StageCommandFollows, CreateKeepsFollow, AdoptKeepsFollow
     DEF Command, LedgerInv
<1>4. ASSUME NEW p \in Procs, NEW b \in Batches, Run(p, b) PROVE FollowInv'
  BY <1>0, <1>4, MovingFollows, ReadingFollows, WritingFollows, ClaimKeepsFollow DEF Run
<1>5. ASSUME NEW p \in Procs, NEW r \in Requests, Revalidation(p, r) PROVE FollowInv'
  BY <1>0, <1>5, RevalidationFollows
<1>6. QED
  BY <1>1, <1>2, <1>3, <1>4, <1>5 DEF Next

LEMMA FollowAlways == Spec => [](LedgerInv /\ FollowInv)
<1>1. Init => LedgerInv /\ FollowInv
  BY LedgerInit, FollowInit
<1>2. LedgerInv /\ FollowInv /\ [Next]_vars => LedgerInv' /\ FollowInv'
  BY LedgerStep, FollowNext DEF KeepsLedger
<1>3. QED
  BY <1>1, <1>2, PTL DEF Spec

\* A call executes only in a stage that continues the current formal version, whatever a
\* process that lost the lock still claims by an old row; and a formal version is continued
\* by one adopted stage (service.py adopt, assert_current).
THEOREM VersionsFollowed == Spec => []VersionsAreFollowed
<1>1. FollowInv => VersionsAreFollowed
  <2>1. ASSUME FollowInv, NEW b \in Batches, HasCall(b, {"executing"}) PROVE batch[b].base = version
    <3>1. PICK k \in SlotIds : call[<<b, k>>].status = "executing"
      BY <2>1 DEF HasCall
    <3>2. QED
      BY <2>1, <3>1 DEF FollowInv, CallsCurrent, Calls
  <2>2. QED
    BY <2>1 DEF VersionsAreFollowed, ExecutingIsCurrent, FollowInv
<1>2. QED
  BY <1>1, FollowAlways, PTL
-----------------------------------------------------------------------------
(* A requested pause.  Rows are flushed by what was read, but a flush      *)
(* never assigns the pause, so it writes none; the commands that do write  *)
(* it set it, but for the authorization of a stage at rest.                *)

\* Every call belongs to a stage that exists, and no pause was asked of one that does not.
PauseInv ==
  /\ \A c \in Calls : call[c].status # "none" => batch[c[1]].status # "none"
  /\ \A b \in Batches : batch[b].status = "none" => ~batch[b].pause

\* What a step may do to the pause of a row; it takes no stage back, and only a claim makes
\* a call.
KeepsPause(old, new) == new.pause = old.pause \/ (new.pause /\ new.status # "none")

PausesKept == \A b \in Batches : KeepsPause(batch[b], batch'[b])

RowsStay == \A b \in Batches : batch'[b].status = "none" => batch[b].status = "none"

NoNewCalls == \A c \in Calls : call'[c].status # "none" => call[c].status # "none"

LEMMA PauseStill ==
  /\ UNCHANGED batch => PausesKept
  /\ UNCHANGED call => NoNewCalls
  /\ QuietCalls => NoNewCalls
BY DEF PausesKept, KeepsPause, NoNewCalls, QuietCalls

LEMMA PauseStep ==
  ASSUME TypeInv, TypeInv', PauseInv, PausesKept, NoNewCalls, RowsStay
  PROVE  PauseInv' /\ \A b \in Batches : batch[b].pause => batch'[b].pause
<1>1. \A c \in Calls : c[1] \in Batches
  BY DEF Calls
<1>2. \A b \in Batches : batch[b].pause \in BOOLEAN /\ batch'[b].pause \in BOOLEAN
  BY DEF TypeInv, BatchTypes, Rows, BatchRow
<1>3. \A b \in Batches : batch[b].pause => batch'[b].pause
  BY <1>2 DEF PausesKept, KeepsPause
<1>4. ASSUME NEW b \in Batches, batch'[b].status = "none" PROVE ~batch'[b].pause
  BY <1>2, <1>4 DEF PauseInv, PausesKept, KeepsPause, RowsStay
<1>5. ASSUME NEW c \in Calls, call'[c].status # "none" PROVE batch'[c[1]].status # "none"
  BY <1>1, <1>5 DEF PauseInv, NoNewCalls, RowsStay
<1>6. QED
  BY <1>3, <1>4, <1>5 DEF PauseInv

\* One row that changes, and one that is flushed.
LEMMA RowKeepsPause ==
  ASSUME TypeInv, NEW b \in Batches, NEW row, batch' = [batch EXCEPT ![b] = row],
         KeepsPause(batch[b], row)
  PROVE  PausesKept
BY DEF TypeInv, BatchTypes, PausesKept, KeepsPause

LEMMA FlushKeepsPause ==
  ASSUME TypeInv, NEW b \in Batches, NEW seen, NEW new, new.pause = seen.pause,
         batch' = [batch EXCEPT ![b] = Flush(@, seen, new)]
  PROVE  PausesKept
<1> DEFINE row == Flush(batch[b], seen, new)
<1>1. KeepsPause(batch[b], row)
  BY DEF KeepsPause, Flush, Column
<1>2. batch' = [batch EXCEPT ![b] = row]
  OBVIOUS
<1> HIDE DEF row
<1>3. QED
  BY <1>1, <1>2, RowKeepsPause

LEMMA ReconcileKeepsPause ==
  ASSUME LedgerInv, Reconcile
  PROVE  PausesKept /\ NoNewCalls
<1>1. batch \in [Batches -> BatchRow]
  BY DEF LedgerInv, TypeInv, BatchTypes, Rows
<1>2. \A b \in Batches : KeepsPause(batch[b], Reconciled(b))
  BY <1>1 DEF KeepsPause, Reconciled, BatchRow
<1>3. \A b \in Batches : batch'[b] = Reconciled(b)
  BY DEF Reconcile
<1>4. QED
  BY <1>2, <1>3, ReconcileQuiet, PauseStill DEF PausesKept

LEMMA CommandKeepsPause ==
  ASSUME LedgerInv, PauseInv, NEW p \in Procs, NEW b \in Batches,
         \/ \E replace \in BOOLEAN : Create(p, b, replace)
         \/ Pause(p, b) \/ ResolveUnknown(p, b) \/ EditPlan(p, b) \/ EditCandidate(p, b)
         \/ Adopt(p, b)
  PROVE  PausesKept /\ NoNewCalls
<1>0. TypeInv /\ batch \in [Batches -> BatchRow] /\ batch[b] \in BatchRow
  BY DEF LedgerInv, TypeInv, BatchTypes, Rows
<1>1. ASSUME NEW replace \in BOOLEAN, Create(p, b, replace) PROVE PausesKept
  <2>1. batch'[b] = NewBatch /\ ~batch[b].pause /\ batch[b].pause \in BOOLEAN
    BY <1>0, <1>1 DEF Create, PauseInv, BatchRow
  <2>2. KeepsPause(batch[b], batch'[b])
    BY <2>1 DEF KeepsPause, NewBatch, NoBatch
  <2>3. \A x \in Batches \ {b} : batch'[x] \in {batch[x], Superseded(batch[x])}
    BY <1>1 DEF Create
  <2>4. \A x \in Batches : Superseded(batch[x]).pause /\ Superseded(batch[x]).status = "archived"
    BY <1>0 DEF Superseded, BatchRow
  <2>5. QED
    BY <2>2, <2>3, <2>4 DEF PausesKept, KeepsPause
<1>2. Pause(p, b) => PausesKept
  <2> DEFINE row == [batch[b] EXCEPT !.pause = TRUE,
                                     !.status = IF @ = "queued" THEN "paused" ELSE @]
  <2>1. ASSUME Pause(p, b) PROVE KeepsPause(batch[b], row)
    BY <1>0, <2>1 DEF Pause, KeepsPause, BatchRow
  <2>2. Pause(p, b) => batch' = [batch EXCEPT ![b] = row]
    BY <1>0 DEF Pause
  <2> HIDE DEF row
  <2>3. QED
    BY <1>0, <2>1, <2>2, RowKeepsPause
<1>3. ResolveUnknown(p, b) => PausesKept
  BY <1>0 DEF ResolveUnknown, PausesKept, KeepsPause, BatchRow
<1>4. EditPlan(p, b) => PausesKept
  <2> DEFINE row == [batch[b] EXCEPT !.status = "awaiting_plan", !.next = Following(batch[b]),
                                     !.state.rev = @ + 1]
  <2>1. KeepsPause(batch[b], row)
    BY <1>0 DEF KeepsPause, BatchRow
  <2>2. EditPlan(p, b) => batch' = [batch EXCEPT ![b] = row]
    BY DEF EditPlan
  <2> HIDE DEF row
  <2>3. QED
    BY <1>0, <2>1, <2>2, RowKeepsPause
<1>5. EditCandidate(p, b) => PausesKept
  <2> DEFINE row == [batch[b] EXCEPT !.status = "needs_attention", !.next = 0,
                            !.state.text = "frozen",
                            !.state.rewritten = TRUE, !.state.rev = @ + 1]
  <2>1. KeepsPause(batch[b], row)
    BY <1>0 DEF KeepsPause, BatchRow
  <2>2. EditCandidate(p, b) => batch' = [batch EXCEPT ![b] = row]
    BY ZenonT(60), <1>0 DEF EditCandidate
  <2> HIDE DEF row
  <2>3. QED
    BY <1>0, <2>1, <2>2, RowKeepsPause
<1>6. ASSUME Adopt(p, b) PROVE PausesKept
  <2>1. \A x \in Batches :
          batch'[x] \in {batch[x], [batch[x] EXCEPT !.status = "adopted", !.next = 0],
                        [batch[x] EXCEPT !.status = "archived", !.authorized = FALSE,
                                         !.next = 0]}
    BY <1>6 DEF Adopt
  <2>2. ASSUME NEW x \in Batches PROVE batch'[x].pause = batch[x].pause
    <3>1. /\ [batch[x] EXCEPT !.status = "adopted", !.next = 0].pause = batch[x].pause
          /\ [batch[x] EXCEPT !.status = "archived", !.authorized = FALSE,
                              !.next = 0].pause = batch[x].pause
      BY <1>0 DEF BatchRow
    <3>2. QED
      BY <2>1, <3>1
  <2>3. QED
    BY <2>2 DEF PausesKept, KeepsPause
<1>7. NoNewCalls
  <2>1. ASSUME ResolveUnknown(p, b) PROVE NoNewCalls
    BY <2>1 DEF ResolveUnknown, NoNewCalls, LedgerInv, TypeInv, CallTypes, CallRow
  <2>2. QED
    BY <2>1, PauseStill DEF Create, Pause, EditPlan, EditCandidate, Adopt
<1>8. QED
  BY <1>1, <1>2, <1>3, <1>4, <1>5, <1>6, <1>7

LEMMA ProcessKeepsPause ==
  ASSUME LedgerInv, NEW p \in Procs, Process(p)
  PROVE  PausesKept /\ NoNewCalls
<1>0. TypeInv
  BY DEF LedgerInv
<1>1. CASE \/ Boot(p) \/ AcquireOwner(p) \/ DiscardOwner(p) \/ LoseOwner(p) \/ Drain(p)
           \/ Crash(p)
  BY <1>1, PauseStill
     DEF Boot, AcquireOwner, DiscardOwner, LoseOwner, Drain, Crash, dbVars
<1>2. CASE OpenService(p) \/ Close(p)
  BY <1>2, ReconcileKeepsPause, PauseStill DEF OpenService, Close
<1>3. CASE \E b \in Batches : Start(p, b) \/ Cancel(p, b)
  BY <1>3, PauseStill DEF Start, Cancel, dbVars
<1>4. CASE \E c \in Calls : Recover(p, c)
  <2>1. PICK c \in Calls : Recover(p, c)
    BY <1>4
  <2>2. c[1] \in Batches /\ batch[c[1]] \in BatchRow
    BY <1>0 DEF Calls, TypeInv, BatchTypes, Rows
  <2>3. PausesKept
    <3>1. CASE UNCHANGED batch
      BY <3>1, PauseStill
    <3>2. CASE batch' = [batch EXCEPT ![c[1]].pause = TRUE, ![c[1]].status = "needs_attention",
                                      ![c[1]].next = 0]
      <4> DEFINE row == [batch[c[1]] EXCEPT !.pause = TRUE, !.status = "needs_attention",
                                            !.next = 0]
      <4>1. KeepsPause(batch[c[1]], row)
        BY <2>2 DEF KeepsPause, BatchRow
      <4>2. batch' = [batch EXCEPT ![c[1]] = row]
        BY <1>0, <2>2, <3>2 DEF TypeInv, BatchTypes, Rows, BatchRow
      <4> HIDE DEF row
      <4>3. QED
        BY <1>0, <2>2, <4>1, <4>2, RowKeepsPause
    <3>3. QED
      BY <2>1, <3>1, <3>2 DEF Recover
  <2>4. NoNewCalls
    <3>1. call[c].status # "none" /\ Persist(c)
      BY <2>1 DEF Recover, Bindable, LedgerInv, CallLedger, ReceiptLedger
    <3>2. QED
      BY <1>0, <3>1 DEF Persist, NoNewCalls, TypeInv, CallTypes
  <2>5. QED
    BY <2>3, <2>4
<1>5. QED
  BY <1>1, <1>2, <1>3, <1>4 DEF Process

\* No outcome of an answer says anything about a pause.
LEMMA OutcomeKeepsPause ==
  ASSUME NEW c \in Calls, NEW row \in BatchRow, NEW o \in Outcomes(c, row)
  PROVE  o.row.pause = row.pause /\ o.status # "none"
<1> DEFINE a == call[c].action
<1>0. \A left \in Remains(c, row) : DOMAIN left = DOMAIN row /\ left.pause = row.pause
  BY DEF Remains, BatchRow
<1>1. CASE got[c] = "cut"
  <2>1. PICK left \in Remains(c, row) :
          o = [status |-> "outcome_uncertain",
               row |-> [left EXCEPT !.status = "outcome_uncertain", !.next = 0]]
    BY <1>1 DEF Outcomes
  <2>2. QED
    BY <1>0, <2>1 DEF BatchRow
<1>2. CASE got[c] # "cut" /\ Usable(c, row)
  <2> DEFINE text == TextAfter(a, row.state.text)
  <2>1. PICK st \in After(a) :
          o = [status |-> "completed",
               row |-> [row EXCEPT !.status = st, !.next = NextAction(a), !.state.done = a,
                                   !.state.text = text]]
    BY <1>2 DEF Outcomes
  <2> HIDE DEF text, a
  <2>2. QED
    BY <2>1 DEF BatchRow
<1>3. CASE got[c] # "cut" /\ ~Usable(c, row)
  <2> DEFINE New == {[left EXCEPT !.status = "needs_attention", !.next = 0] :
                       left \in Remains(c, row)}
                    \cup (IF Skippable(c, row)
                          THEN {[row EXCEPT !.status = "queued", !.next = Steps]} ELSE {})
  <2>1. PICK new \in New : o = [status |-> "local_failure", row |-> new]
    BY <1>3 DEF Outcomes
  <2>2. \/ new = [row EXCEPT !.status = "queued", !.next = Steps]
        \/ \E left \in Remains(c, row) : new = [left EXCEPT !.status = "needs_attention", !.next = 0]
    OBVIOUS
  <2> HIDE DEF New
  <2>3. new.pause = row.pause
    BY <1>0, <2>2 DEF BatchRow
  <2>4. QED
    BY <2>1, <2>3
<1>4. QED
  BY <1>1, <1>2, <1>3

LEMMA CompileResponseKeepsPause ==
  ASSUME LedgerInv, NEW c \in Calls, NEW seen \in BatchRow, NEW callStatus,
         call[c].status # "none", CompileResponse(c, seen, callStatus)
  PROVE  PausesKept /\ NoNewCalls
<1>1. CASE UNCHANGED <<batch, call>>
  BY <1>1, PauseStill
<1>2. CASE ~NothingToCompile(c, seen, callStatus)
  <2> DEFINE row == [seen EXCEPT !.state.compiled = @ \cup {c[2]}]
  <2>1. PICK o \in Outcomes(c, row) :
          /\ batch' = [batch EXCEPT ![c[1]] = Flush(@, seen, Honoured(o.row))]
          /\ call' = [call EXCEPT ![c].status = Column(@, callStatus, o.status),
                                  ![c].interrupted = FALSE]
    BY <1>2 DEF CompileResponse
  <2>2. row \in BatchRow /\ row.pause = seen.pause
    BY DEF BatchRow, State, Calls
  <2> HIDE DEF row
  <2>3. Honoured(o.row).pause = seen.pause
    <3>1. o.row.pause = seen.pause
      BY <2>1, <2>2, OutcomeKeepsPause
    <3>2. QED
      BY <3>1 DEF Honoured
  <2>4. PausesKept
    BY <2>1, <2>3, FlushKeepsPause DEF Calls, LedgerInv
  <2>5. NoNewCalls
    BY <2>1 DEF NoNewCalls, LedgerInv, TypeInv, CallTypes, CallRow
  <2>6. QED
    BY <2>4, <2>5
<1>3. QED
  BY <1>1, <1>2 DEF CompileResponse

LEMMA RunKeepsPause ==
  ASSUME LedgerInv, NEW p \in Procs, NEW b \in Batches, Run(p, b), ~Claim(p, b)
  PROVE  PausesKept /\ NoNewCalls
<1>0. TypeInv /\ tasks[p][b].seen \in BatchRow /\ batch[b] \in BatchRow
  BY DEF LedgerInv, TypeInv, TaskTypes, TaskRows, BatchTypes, Rows
<1> DEFINE seen == tasks[p][b].seen
<1>1. CASE UNCHANGED <<batch, call>>
  BY <1>1, PauseStill
<1>2. ASSUME tasks[p][b].pc \in Slotted
      PROVE  CallOf(p, b) \in Calls /\ call[CallOf(p, b)].status # "none"
  BY <1>2, CallsOfTypes DEF CallOf, LedgerInv, TaskLedger, Place
<1>3. CASE ClaimNothing(p, b)
  <2>1. ASSUME batch' = [batch EXCEPT ![b].status = Column(@, seen.status, "paused")]
        PROVE  PausesKept
    BY <1>0, <2>1 DEF PausesKept, KeepsPause, TypeInv, BatchTypes, Rows, BatchRow
  <2>2. QED
    BY <1>3, <2>1, PauseStill DEF ClaimNothing
<1>4. CASE ClaimTooLarge(p, b)
  <2> DEFINE new == [seen EXCEPT !.status = "needs_attention"]
  <2>1. new.pause = seen.pause
    BY <1>0 DEF BatchRow
  <2>2. batch' = [batch EXCEPT ![b] = Flush(@, seen, new)]
    BY <1>4 DEF ClaimTooLarge
  <2> HIDE DEF new
  <2>3. QED
    BY <1>0, <1>4, <2>1, <2>2, FlushKeepsPause, PauseStill DEF ClaimTooLarge
<1>5. CASE Store(p, b)
  <2>1. PICK c : c = CallOf(p, b)
    OBVIOUS
  <2>2. c \in Calls /\ call[c].status # "none"
    BY <1>2, <1>5, <2>1 DEF Store, At, Slotted
  <2>3. UNCHANGED call \/ Persist(c)
    BY <1>5, <2>1 DEF Store
  <2>4. NoNewCalls
    BY <1>0, <2>2, <2>3 DEF Persist, NoNewCalls, TypeInv, CallTypes
  <2>5. QED
    BY <1>5, <2>4, PauseStill DEF Store
<1>6. CASE Compile(p, b)
  BY <1>0, <1>2, <1>6, CompileResponseKeepsPause DEF Compile, At, Slotted
<1>7. CASE FailWrite(p, b)
  <2> DEFINE new == [seen EXCEPT !.status = "needs_attention", !.next = 0]
  <2>1. new.pause = seen.pause
    BY <1>0 DEF BatchRow
  <2>2. \/ UNCHANGED batch
        \/ batch' = [batch EXCEPT ![b] = Flush(@, seen, new)]
        \/ batch' = [batch EXCEPT ![b] = @]
    BY <1>7 DEF FailWrite, NeedsAttention
  <2>3. batch' = [batch EXCEPT ![b] = @] => UNCHANGED batch
    BY <1>0 DEF TypeInv, BatchTypes
  <2> HIDE DEF new
  <2>4. QED
    BY <1>0, <1>7, <2>1, <2>2, <2>3, FlushKeepsPause, PauseStill DEF FailWrite
<1>8. CASE FinishError(p, b)
  <2>1. PICK callStatus \in {"not_dispatched", "outcome_uncertain"},
             batchStatus \in {"failed", "outcome_uncertain"},
             pc \in TaskPc : ErrorWrite(p, b, pc, callStatus, batchStatus) /\ pc \in Slotted
    BY <1>8 DEF FinishError, TaskPc, Slotted
  <2>2. PICK c : c = CallOf(p, b)
    OBVIOUS
  <2>3. c \in Calls /\ call[c].status # "none"
    BY <1>2, <2>1, <2>2 DEF ErrorWrite, At
  <2> DEFINE new == [seen EXCEPT !.status = batchStatus, !.next = 0]
  <2>4. new.pause = seen.pause
    BY <1>0 DEF BatchRow
  <2>5. \/ batch' = [batch EXCEPT ![b] = Flush(@, seen, new)]
        \/ batch' = [batch EXCEPT ![b] = @]
    BY <2>1 DEF ErrorWrite, Errored
  <2>6. batch' = [batch EXCEPT ![b] = @] => UNCHANGED batch
    BY <1>0 DEF TypeInv, BatchTypes
  <2> HIDE DEF new
  <2>7. PausesKept
    BY <1>0, <2>4, <2>5, <2>6, FlushKeepsPause, PauseStill
  <2>8. NoNewCalls
    <3>1. \A d \in Calls \ {c} : call'[d] = call[d]
      <4>1. \E new_status : call' = [call EXCEPT ![c].status = new_status, ![c].interrupted = FALSE]
        BY <2>1, <2>2 DEF ErrorWrite
      <4>2. QED
        BY <1>0, <2>3, <4>1 DEF TypeInv, CallTypes, CallRow
    <3>2. QED
      BY <2>3, <3>1 DEF NoNewCalls
  <2>9. QED
    BY <2>7, <2>8
<1>9. QED
  BY <1>1, <1>3, <1>4, <1>5, <1>6, <1>7, <1>8
     DEF Run, ClaimRead, ClaimRefused, SendRefused, Send, Receive, NoAnswer, SaveJournal, Forget,
         CompileRead, CompileRaises, FailRead, FinishErrorRead, ErrorRead, FinishErrorFails, dbVars

\* The claim by an old row: its stage exists, and its flush assigns no pause.
LEMMA ClaimKeepsPause ==
  ASSUME LedgerInv, FollowInv, PauseInv, NEW p \in Procs, NEW b \in Batches, Claim(p, b)
  PROVE  PausesKept /\ PauseInv'
<1> DEFINE seen == tasks[p][b].seen
           new  == [seen EXCEPT !.status = "running"]
           slot == SlotFor(b, seen)
<1>0. TypeInv /\ seen \in BatchRow /\ batch[b] \in BatchRow
  BY DEF LedgerInv, TypeInv, TaskTypes, TaskRows, TaskRow, BatchTypes, Rows
<1>1. new.pause = seen.pause /\ new.status = "running"
  BY <1>0 DEF BatchRow
<1>2. batch' = [batch EXCEPT ![b] = Flush(@, seen, new)]
  BY DEF Claim
<1> HIDE DEF new
<1>3. PausesKept /\ RowsFollow
  BY <1>0, <1>1, <1>2, FlushKeepsPause, FlushedRow
<1>4. batch'[b].status # "none"
  <2>1. batch[b].status # "none"
    BY DEF Claim, Claiming, At, MayClaim, FollowInv, SeenBase
  <2>2. QED
    BY <1>3, <2>1 DEF RowsFollow
<1>5. \A c \in Calls : c[1] \in Batches /\ (c[1] # b => call'[c] = call[c])
  <2>1. call \in [Calls -> CallRow]
    BY <1>0 DEF TypeInv, CallTypes
  <2>2. \E new_call : call' = [call EXCEPT ![<<b, slot>>] = new_call]
    BY DEF Claim
  <2> HIDE DEF slot
  <2>3. QED
    BY <2>1, <2>2 DEF Calls
<1>6. \A c \in Calls : call'[c].status # "none" => batch'[c[1]].status # "none"
  BY <1>3, <1>4, <1>5 DEF PauseInv, RowsFollow
<1>7. \A x \in Batches : batch'[x].status = "none" => ~batch'[x].pause
  BY <1>3 DEF PausesKept, KeepsPause, RowsFollow, PauseInv
<1>8. QED
  BY <1>3, <1>6, <1>7 DEF PauseInv

LEMMA RevalidationKeepsPause ==
  ASSUME LedgerInv, PauseInv, NEW p \in Procs, NEW r \in Requests, Revalidation(p, r)
  PROVE  PausesKept /\ NoNewCalls
<1>0. TypeInv /\ requests[p][r] \in RequestRows
  BY DEF LedgerInv, TypeInv, RequestTypes
<1>1. CASE \E c \in Calls : Revalidate(p, r, c)
  <2>1. PICK c \in Calls : Revalidate(p, r, c)
    BY <1>1
  <2> DEFINE row == [batch[c[1]] EXCEPT !.pause = TRUE]
  <2>2. c[1] \in Batches /\ batch[c[1]] \in BatchRow
    BY <1>0 DEF Calls, TypeInv, BatchTypes, Rows
  <2>3. row.pause /\ row.status # "none"
    BY <2>1, <2>2 DEF Revalidate, PauseInv, BatchRow
  <2>4. batch' = [batch EXCEPT ![c[1]] = row] /\ UNCHANGED call
    BY <1>0, <2>1, <2>2 DEF Revalidate, TypeInv, BatchTypes
  <2> HIDE DEF row
  <2>5. PausesKept
    BY <1>0, <2>2, <2>3, <2>4, RowKeepsPause DEF KeepsPause
  <2>6. QED
    BY <2>4, <2>5, PauseStill
<1>2. CASE RevalidateRead(p, r)
  BY <1>2, PauseStill DEF RevalidateRead, dbVars
<1>3. CASE RevalidateCompile(p, r)
  <2>1. /\ requests[p][r].target \in Calls /\ requests[p][r].seen \in BatchRow
        /\ requests[p][r].pc # "idle"
    BY <1>0, <1>3 DEF RevalidateCompile, RequestRows, Rows
  <2>2. call[requests[p][r].target].status # "none"
    BY <2>1 DEF LedgerInv, RequestLedger, CallLedger
  <2>3. QED
    BY <1>3, <2>1, <2>2, CompileResponseKeepsPause DEF RevalidateCompile
<1>4. QED
  BY <1>1, <1>2, <1>3 DEF Revalidation

\* The one command that takes a pause back: the authorization of a stage at rest.
PauseTaken(b) ==
  batch[b].pause /\ ~batch'[b].pause =>
    /\ batch[b].status \notin {"queued", "running"}
    /\ batch'[b].status = "queued" /\ batch'[b].authorized

LEMMA AuthorizationTakesPause ==
  ASSUME LedgerInv, PauseInv, NEW p \in Procs, NEW b \in Batches,
         Authorize(p, b) \/ AuthorizeInput(p, b) \/ AuthorizeStep(p, b)
  PROVE  PauseInv' /\ \A x \in Batches : PauseTaken(x)
<1>0. TypeInv /\ batch \in [Batches -> BatchRow] /\ batch[b] \in BatchRow
  BY DEF LedgerInv, TypeInv, BatchTypes, Rows
<1>1. ASSUME NEW row \in BatchRow, NEW calls, Authorized(p, b, row, calls),
             \A c \in Calls : calls[c].status # "none" => call[c].status # "none",
             batch[b].status \notin {"none", "queued", "running"}
      PROVE  PauseInv' /\ \A x \in Batches : PauseTaken(x)
  <2> DEFINE new == [row EXCEPT !.authorized = TRUE, !.pause = FALSE, !.status = "queued"]
  <2>1. new.status = "queued" /\ new.authorized /\ ~new.pause
    BY <1>1 DEF BatchRow
  <2>2. batch' = [batch EXCEPT ![b] = new] /\ call' = calls
    BY <1>1 DEF Authorized
  <2> HIDE DEF new
  <2>3. batch'[b] = new /\ \A x \in Batches \ {b} : batch'[x] = batch[x]
    BY <1>0, <2>2
  <2>4. \A x \in Batches : PauseTaken(x)
    BY <1>1, <2>1, <2>3 DEF PauseTaken
  <2>5. \A c \in Calls : c[1] \in Batches
    BY DEF Calls
  <2>6. PauseInv'
    BY <1>1, <2>1, <2>2, <2>3, <2>5 DEF PauseInv
  <2>7. QED
    BY <2>4, <2>6
<1>2. CASE Authorize(p, b)
  BY <1>0, <1>1, <1>2 DEF Authorize, Authorized
<1>3. CASE AuthorizeInput(p, b)
  <2> DEFINE row == [batch[b] EXCEPT !.status = "awaiting_plan",
                                     !.next = IF batch[b].next = 0 THEN 2 ELSE batch[b].next]
  <2>1. Authorized(p, b, row, call) /\ batch[b].status \in {"needs_attention", "awaiting_plan", "paused"}
    BY <1>3 DEF AuthorizeInput
  <2>2. row \in BatchRow
    <3>1. (IF batch[b].next = 0 THEN 2 ELSE batch[b].next) \in 0 .. Steps
      BY <1>0, ConstantsAssumption DEF BatchRow
    <3>2. QED
      BY <1>0, <3>1 DEF BatchRow, BatchStatus
  <2> HIDE DEF row
  <2>3. QED
    BY <1>1, <2>1, <2>2
<1>4. CASE AuthorizeStep(p, b)
  <2>1. PICK f \in ClaimedSlots(b), k \in FreeReplacement(b) :
          Authorized(p, b,
            [batch[b] EXCEPT !.status = "awaiting_plan", !.next = call[<<b, f>>].action,
                             !.state.text = call[<<b, f>>].text,
                             !.state.failed = f, !.state.replacement = k],
            IF call[<<b, f>>].status = "outcome_uncertain"
            THEN [call EXCEPT ![<<b, f>>].status = "uncertain_closed"] ELSE call)
    BY <1>4 DEF AuthorizeStep
  <2> DEFINE row   == [batch[b] EXCEPT !.status = "awaiting_plan", !.next = call[<<b, f>>].action,
                             !.state.text = call[<<b, f>>].text,
                             !.state.failed = f, !.state.replacement = k]
             calls == IF call[<<b, f>>].status = "outcome_uncertain"
                      THEN [call EXCEPT ![<<b, f>>].status = "uncertain_closed"] ELSE call
  <2>2. call \in [Calls -> CallRow] /\ <<b, f>> \in Calls /\ call[<<b, f>>] \in CallRow
    BY <1>0 DEF TypeInv, CallTypes, Calls, ClaimedSlots
  <2>3. row \in BatchRow
    <3>1. f \in 0 .. Slots /\ k \in 0 .. Slots
      BY ConstantsAssumption DEF ClaimedSlots, FreeReplacement, SlotIds
    <3>2. QED
      BY <1>0, <2>2, <3>1 DEF BatchRow, CallRow, State, BatchStatus
  <2>4. \A c \in Calls : calls[c].status # "none" => call[c].status # "none"
    BY <2>2 DEF CallRow
  <2>5. Authorized(p, b, row, calls)
    BY <2>1
  <2>6. batch[b].status \notin {"none", "queued", "running"}
    BY <1>4 DEF AuthorizeStep
  <2> HIDE DEF row, calls
  <2>7. QED
    BY <1>1, <2>3, <2>4, <2>5, <2>6
<1>5. QED
  BY <1>2, <1>3, <1>4

LEMMA PauseNext ==
  ASSUME LedgerInv, TypeInv', FollowInv, PauseInv, [Next]_vars
  PROVE  PauseInv' /\ \A b \in Batches : PauseTaken(b)
<1>0. TypeInv
  BY DEF LedgerInv
<1>1. ASSUME PausesKept, NoNewCalls, RowsStay
      PROVE  PauseInv' /\ \A b \in Batches : PauseTaken(b)
  BY <1>0, <1>1, PauseStep DEF PauseTaken
<1>2. CASE UNCHANGED vars
  BY <1>1, <1>2, FollowStill, PauseStill DEF vars, dbVars, RowsFollow, RowsStay
<1>3. ASSUME NEW p \in Procs, Process(p)
      PROVE  PauseInv' /\ \A b \in Batches : PauseTaken(b)
  BY <1>1, <1>3, ProcessKeepsPause, ProcessFollows DEF Follows, RowsFollow, RowsStay
<1>4. ASSUME NEW p \in Procs, NEW b \in Batches, Command(p, b)
      PROVE  PauseInv' /\ \A x \in Batches : PauseTaken(x)
  <2>1. CASE Authorize(p, b) \/ AuthorizeInput(p, b) \/ AuthorizeStep(p, b)
    BY <2>1, AuthorizationTakesPause
  <2>2. CASE \/ \E replace \in BOOLEAN : Create(p, b, replace)
             \/ Pause(p, b) \/ ResolveUnknown(p, b) \/ EditPlan(p, b) \/ EditCandidate(p, b)
             \/ Adopt(p, b)
    <3>1. PausesKept /\ NoNewCalls
      BY <2>2, CommandKeepsPause
    <3>2. RowsStay
      <4>1. CASE \E replace \in BOOLEAN : Create(p, b, replace)
        <5>1. PICK replace \in BOOLEAN : Create(p, b, replace)
          BY <4>1
        <5>2. batch[b].status = "none"
          BY <5>1 DEF Create
        <5>3. \A x \in Batches \ {b} : batch'[x] \in {batch[x], Superseded(batch[x])}
          BY <5>1 DEF Create
        <5>4. \A x \in Batches : Superseded(batch[x]).status = "archived"
          BY <1>0 DEF Superseded, TypeInv, BatchTypes, Rows, BatchRow
        <5>5. QED
          BY <5>2, <5>3, <5>4 DEF RowsStay
      <4>2. CASE \/ Pause(p, b) \/ ResolveUnknown(p, b) \/ EditPlan(p, b) \/ EditCandidate(p, b)
        BY <1>0, <4>2, StageCommandFollows DEF Follows, RowsFollow, RowsStay
      <4>3. CASE Adopt(p, b)
        BY <1>0, <4>3 DEF Adopt, TypeInv, BatchTypes, Rows, BatchRow, RowsStay
      <4>4. QED
        BY <2>2, <4>1, <4>2, <4>3
    <3>3. QED
      BY <1>1, <3>1, <3>2
  <2>3. QED
    BY <1>4, <2>1, <2>2 DEF Command
<1>5. ASSUME NEW p \in Procs, NEW b \in Batches, Run(p, b)
      PROVE  PauseInv' /\ \A x \in Batches : PauseTaken(x)
  <2>1. CASE Claim(p, b)
    <3>1. PauseInv' /\ PausesKept
      BY <2>1, ClaimKeepsPause
    <3>2. QED
      BY <3>1 DEF PausesKept, KeepsPause, PauseTaken
  <2>2. CASE ~Claim(p, b)
    BY <1>1, <1>5, <2>2, RunKeepsPause, MovingFollows, ReadingFollows, WritingFollows
       DEF Run, Follows, RowsFollow, RowsStay
  <2>3. QED
    BY <2>1, <2>2
<1>6. ASSUME NEW p \in Procs, NEW r \in Requests, Revalidation(p, r)
      PROVE  PauseInv' /\ \A b \in Batches : PauseTaken(b)
  BY <1>1, <1>6, RevalidationKeepsPause, RevalidationFollows DEF Follows, RowsFollow, RowsStay
<1>7. QED
  BY <1>2, <1>3, <1>4, <1>5, <1>6 DEF Next

\* A requested pause is only taken back by a new authorization of a stage at rest, whatever
\* rows the tasks, callbacks and requests of any process still remember from before it
\* (runtime.py claim, compile_response, finish_error; service.py authorize).
THEOREM PausesHonoured == Spec => PauseNotLost
<1>1. Init => PauseInv
  BY DEF Init, PauseInv, NoCall, NoBatch, Calls
<1>2. LedgerInv /\ FollowInv /\ PauseInv /\ [Next]_vars
        => PauseInv' /\ (\A b \in Batches : PauseTaken(b))
  BY LedgerStep, PauseNext DEF KeepsLedger, LedgerInv
<1>3. (\A b \in Batches : PauseTaken(b)) =>
        [\A b \in Batches : batch[b].pause /\ ~batch'[b].pause =>
           /\ batch[b].status \notin {"queued", "running"}
           /\ batch'[b].status = "queued" /\ batch'[b].authorized]_batch
  BY DEF PauseTaken
<1>4. QED
  BY <1>1, <1>2, <1>3, FollowAlways, PTL DEF Spec, PauseNotLost
-----------------------------------------------------------------------------
(* Executing calls are attended.  While the one process serves, a call     *)
(* that executes is held by the task that claimed it, on its way to record *)
(* an outcome, or its receipt is kept for the next maintenance tick.       *)

SoleProcess == \A p, q \in Procs : p = q

\* Places of a task that holds its call, and of one about to record how it ended.
Attending == {"send", "flight", "journal", "store", "refused", "refused_write",
              "unknown", "unknown_write"}
Recording == {"refused_write", "unknown_write"}

Attends(p, c) ==
  \/ tasks[p][c[1]].pc \in Attending /\ tasks[p][c[1]].slot = c[2]
  \/ c \in journal \cup pending_responses[p]

\* An executing call has no answer yet, a task that records its end saw it execute, and it
\* is attended while its process serves.
AttendInv ==
  /\ \A c \in Calls : call[c].status = "executing" => call[c].response = "none"
  /\ \A p \in Procs, b \in Batches :
       tasks[p][b].pc \in Recording /\ call[<<b, tasks[p][b].slot>>].status = "executing"
         => tasks[p][b].callStatus = "executing"
  /\ \A p \in Procs, c \in Calls :
       available[p] /\ mode[p] = "up" /\ call[c].status = "executing" => Attends(p, c)

\* What all steps but the claim have in common.
CallsAttend ==
  \A c \in Calls : call'[c].status = "executing" =>
    call[c].status = "executing" /\ call'[c].response = call[c].response

ServesAttend ==
  \A p \in Procs : available'[p] /\ mode'[p] = "up" => available[p] /\ mode[p] = "up"

TasksAttend ==
  \A p \in Procs, b \in Batches :
    /\ tasks'[p][b].pc \in Recording =>
         \/ tasks'[p][b].callStatus = call[<<b, tasks'[p][b].slot>>].status
         \/ tasks'[p][b] = tasks[p][b]
    /\ tasks[p][b].pc \in Attending /\ mode'[p] = "up" =>
         \/ tasks'[p][b].pc \in Attending /\ tasks'[p][b].slot = tasks[p][b].slot
         \/ call'[<<b, tasks[p][b].slot>>].status # "executing"

ReceiptsAttend ==
  \A p \in Procs, c \in Calls :
    c \in journal \cup pending_responses[p] /\ mode'[p] = "up" =>
      c \in journal' \cup pending_responses'[p] \/ call'[c].status # "executing"

LEMMA AttendStep ==
  ASSUME TypeInv', AttendInv, CallsAttend, ServesAttend, TasksAttend, ReceiptsAttend
  PROVE  AttendInv'
<1>0. \A c \in Calls : c[1] \in Batches /\ c = <<c[1], c[2]>>
  BY DEF Calls
<1>1. \A c \in Calls : call'[c].status = "executing" => call'[c].response = "none"
  BY DEF AttendInv, CallsAttend
<1>2. ASSUME NEW p \in Procs, NEW b \in Batches, tasks'[p][b].pc \in Recording,
             call'[<<b, tasks'[p][b].slot>>].status = "executing"
      PROVE  tasks'[p][b].callStatus = "executing"
  <2>1. <<b, tasks'[p][b].slot>> \in Calls
    BY <1>2 DEF TypeInv, TaskTypes, TaskRows, Recording, Slotted, Calls
  <2>2. call[<<b, tasks'[p][b].slot>>].status = "executing"
    BY <1>2, <2>1 DEF CallsAttend
  <2>3. \/ tasks'[p][b].callStatus = call[<<b, tasks'[p][b].slot>>].status
        \/ tasks'[p][b] = tasks[p][b]
    BY <1>2 DEF TasksAttend
  <2>4. CASE tasks'[p][b] = tasks[p][b]
    BY <1>2, <2>2, <2>4 DEF AttendInv
  <2>5. QED
    BY <2>2, <2>3, <2>4
<1>3. ASSUME NEW p \in Procs, NEW c \in Calls, available'[p], mode'[p] = "up",
             call'[c].status = "executing"
      PROVE  Attends(p, c)'
  <2>1. Attends(p, c)
    BY <1>3 DEF AttendInv, CallsAttend, ServesAttend
  <2>2. CASE c \in journal \cup pending_responses[p]
    BY <1>3, <2>2 DEF ReceiptsAttend, Attends
  <2>3. CASE tasks[p][c[1]].pc \in Attending /\ tasks[p][c[1]].slot = c[2]
    <3>1. c[1] \in Batches /\ call'[<<c[1], tasks[p][c[1]].slot>>].status = "executing"
      BY <1>0, <1>3, <2>3
    <3>2. tasks'[p][c[1]].pc \in Attending /\ tasks'[p][c[1]].slot = tasks[p][c[1]].slot
      BY <1>3, <2>3, <3>1 DEF TasksAttend
    <3>3. QED
      BY <2>3, <3>2 DEF Attends
  <2>4. QED
    BY <2>1, <2>2, <2>3 DEF Attends
<1>4. QED
  BY <1>1, <1>2, <1>3 DEF AttendInv

\* A step after which nothing executes leaves nothing to attend.
LEMMA NothingExecutes ==
  ASSUME TypeInv', \A c \in Calls : call'[c].status # "executing"
  PROVE  AttendInv'
<1>1. \A p \in Procs, b \in Batches :
        tasks'[p][b].pc \in Recording => <<b, tasks'[p][b].slot>> \in Calls
  BY DEF TypeInv, TaskTypes, TaskRows, Recording, Slotted, Calls
<1>2. QED
  BY <1>1 DEF AttendInv

LEMMA ReconcileEnds ==
  ASSUME TypeInv, Reconcile
  PROVE  \A c \in Calls : call'[c].status # "executing"
BY DEF Reconcile, TypeInv, CallTypes, CallRow

LEMMA AttendStill ==
  /\ UNCHANGED call => CallsAttend
  /\ UNCHANGED tasks => TasksAttend
  /\ UNCHANGED <<pending_responses, journal>> => ReceiptsAttend
  /\ UNCHANGED <<available, mode>> => ServesAttend
BY DEF CallsAttend, TasksAttend, ReceiptsAttend, ServesAttend

\* One task that moves.
LEMMA TaskAttends ==
  ASSUME TypeInv, NEW p \in Procs, NEW b \in Batches, NEW t, tasks' = [tasks EXCEPT ![p][b] = t],
         t.pc \in Recording => t.callStatus = call[<<b, t.slot>>].status,
         tasks[p][b].pc \in Attending /\ mode'[p] = "up" =>
           \/ t.pc \in Attending /\ t.slot = tasks[p][b].slot
           \/ call'[<<b, tasks[p][b].slot>>].status # "executing"
  PROVE  TasksAttend
<1>1. tasks \in [Procs -> [Batches -> TaskRows]]
  BY DEF TypeInv, TaskTypes
<1>2. tasks'[p][b] = t /\ \A q \in Procs, x \in Batches : q # p \/ x # b => tasks'[q][x] = tasks[q][x]
  BY <1>1
<1>3. ASSUME NEW q \in Procs, NEW x \in Batches
      PROVE  /\ tasks'[q][x].pc \in Recording =>
                  \/ tasks'[q][x].callStatus = call[<<x, tasks'[q][x].slot>>].status
                  \/ tasks'[q][x] = tasks[q][x]
             /\ tasks[q][x].pc \in Attending /\ mode'[q] = "up" =>
                  \/ tasks'[q][x].pc \in Attending /\ tasks'[q][x].slot = tasks[q][x].slot
                  \/ call'[<<x, tasks[q][x].slot>>].status # "executing"
  <2>1. CASE q # p \/ x # b
    BY <1>2, <2>1
  <2>2. CASE q = p /\ x = b
    BY <1>2, <2>2
  <2>3. QED
    BY <2>1, <2>2
<1>4. QED
  BY <1>3 DEF TasksAttend

LEMMA GotoAttends ==
  ASSUME TypeInv, NEW p \in Procs, NEW b \in Batches, NEW pc, pc \notin Recording, Goto(p, b, pc),
         tasks[p][b].pc \in Attending /\ mode'[p] = "up" =>
           pc \in Attending \/ call'[<<b, tasks[p][b].slot>>].status # "executing"
  PROVE  TasksAttend
<1> DEFINE t == [tasks[p][b] EXCEPT !.pc = pc]
<1>1. tasks[p][b] \in TaskRow
  BY DEF TypeInv, TaskTypes, TaskRows
<1>2. tasks' = [tasks EXCEPT ![p][b] = t] /\ t.pc = pc /\ t.slot = tasks[p][b].slot
  BY <1>1 DEF Goto, TypeInv, TaskTypes, TaskRow
<1> HIDE DEF t
<1>3. QED
  BY <1>2, TaskAttends

LEMMA EndAttends ==
  ASSUME TypeInv, NEW p \in Procs, NEW b \in Batches, EndTask(p, b),
         tasks[p][b].pc \in Attending => call'[<<b, tasks[p][b].slot>>].status # "executing"
  PROVE  TasksAttend
<1> DEFINE t == IF b \in pending_starts[p] THEN [Idle EXCEPT !.pc = "loop"] ELSE Idle
<1>1. tasks' = [tasks EXCEPT ![p][b] = t] /\ t.pc \notin Recording
  BY DEF EndTask, Idle, Recording
<1> HIDE DEF t
<1>2. QED
  BY <1>1, TaskAttends

\* The steps of a process, and the commands.
LEMMA ProcessAttends ==
  ASSUME LedgerInv, TypeInv', AttendInv, "db" \notin Faults, NEW p \in Procs, Process(p)
  PROVE  AttendInv'
<1>0. /\ TypeInv /\ tasks \in [Procs -> [Batches -> TaskRows]]
      /\ mode \in [Procs -> {"down", "starting", "up", "draining"}]
      /\ available \in [Procs -> BOOLEAN] /\ pending_responses \in [Procs -> SUBSET Calls]
  BY DEF LedgerInv, TypeInv, TaskTypes, ControlTypes, ReceiptTypes
<1>1. CASE \/ Boot(p) \/ AcquireOwner(p) \/ DiscardOwner(p) \/ LoseOwner(p) \/ Drain(p)
  <2>1. UNCHANGED <<call, tasks, pending_responses, journal>>
    BY <1>1 DEF Boot, AcquireOwner, DiscardOwner, LoseOwner, Drain, dbVars, memVars
  <2>2. \A q \in Procs : /\ available'[q] => available[q]
                         /\ mode'[q] = "up" => mode[q] = "up"
    BY <1>0, <1>1 DEF Boot, AcquireOwner, DiscardOwner, LoseOwner, Drain
  <2>3. ServesAttend
    BY <2>2 DEF ServesAttend
  <2>4. QED
    BY <2>1, <2>3, AttendStep, AttendStill
<1>2. CASE OpenService(p)
  BY <1>0, <1>2, ReconcileEnds, NothingExecutes DEF OpenService, Fault
<1>3. ASSUME Gone(p), UNCHANGED call PROVE AttendInv'
  <2>1. \A q \in Procs \ {p} : /\ tasks'[q] = tasks[q]
                               /\ pending_responses'[q] = pending_responses[q]
                               /\ mode'[q] = mode[q] /\ available'[q] = available[q]
    BY <1>0, <1>3 DEF Gone
  <2>2. /\ mode'[p] = "down" /\ journal' = journal
        /\ \A b \in Batches : tasks'[p][b].pc \notin Recording
    BY <1>0, <1>3 DEF Gone, Idle, Recording
  <2>3. ServesAttend
    BY <2>1, <2>2 DEF ServesAttend
  <2>4. TasksAttend
    BY <2>1, <2>2 DEF TasksAttend
  <2>5. ReceiptsAttend
    BY <2>1, <2>2 DEF ReceiptsAttend
  <2>6. QED
    BY <1>3, <2>3, <2>4, <2>5, AttendStep, AttendStill
<1>4. CASE Crash(p) \/ Close(p)
  BY <1>0, <1>3, <1>4, ReconcileEnds, NothingExecutes DEF Crash, Close
<1>5. CASE \E b \in Batches : Start(p, b)
  <2>1. PICK b \in Batches : Start(p, b)
    BY <1>5
  <2>2. TasksAttend
    <3>1. CASE UNCHANGED tasks
      BY <3>1, AttendStill
    <3>2. CASE ~LiveTask(p, b) /\ tasks' = [tasks EXCEPT ![p][b] = [Idle EXCEPT !.pc = "loop"]]
      <4> DEFINE t == [Idle EXCEPT !.pc = "loop"]
      <4>1. t.pc \notin Recording /\ tasks[p][b].pc \notin Attending
        BY <3>2 DEF Idle, Recording, Attending, LiveTask
      <4>2. tasks' = [tasks EXCEPT ![p][b] = t]
        BY <3>2
      <4> HIDE DEF t
      <4>3. QED
        BY <1>0, <4>1, <4>2, TaskAttends
    <3>3. QED
      BY <2>1, <3>1, <3>2 DEF Start, StartRun, Fault
  <2>3. QED
    BY <2>1, <2>2, AttendStep, AttendStill DEF Start, dbVars, procVars, memVars
<1>6. CASE \E b \in Batches : Cancel(p, b)
  <2>1. PICK b \in Batches : Cancel(p, b)
    BY <1>6
  <2>2. mode'[p] # "up"
    BY <2>1 DEF Cancel, procVars
  <2>3. TasksAttend
    <3>1. CASE tasks' = [tasks EXCEPT ![p][b] = Idle]
      BY <1>0, <2>2, <3>1, TaskAttends DEF Idle, Recording
    <3>2. CASE Goto(p, b, CancelPc(tasks[p][b].pc))
      <4>1. CancelPc(tasks[p][b].pc) \notin Recording
        BY DEF CancelPc, Recording
      <4>2. QED
        BY <1>0, <2>2, <3>2, <4>1, GotoAttends
    <3>3. QED
      BY <2>1, <3>1, <3>2 DEF Cancel
  <2>4. ReceiptsAttend
    BY <2>1 DEF Cancel, ReceiptsAttend
  <2>5. QED
    BY <2>1, <2>3, <2>4, AttendStep, AttendStill DEF Cancel, dbVars, procVars
<1>7. CASE \E c \in Calls : Recover(p, c)
  <2>1. PICK c \in Calls : Recover(p, c)
    BY <1>7
  <2>2. call \in [Calls -> CallRow] /\ Persist(c) /\ ForgetResponse(p, c)
    BY <1>0, <2>1 DEF Recover, TypeInv, CallTypes
  <2>3. call'[c].status # "executing" /\ \A d \in Calls \ {c} : call'[d] = call[d]
    BY <2>2 DEF Persist, AttendInv, CallRow
  <2>4. CallsAttend
    BY <2>3 DEF CallsAttend
  <2>5. ReceiptsAttend
    BY <1>0, <2>2, <2>3 DEF ForgetResponse, ReceiptsAttend
  <2>6. QED
    BY <2>1, <2>4, <2>5, AttendStep, AttendStill DEF Recover, procVars
<1>8. QED
  BY <1>1, <1>2, <1>4, <1>5, <1>6, <1>7 DEF Process

LEMMA CommandAttends ==
  ASSUME LedgerInv, TypeInv', AttendInv, NEW p \in Procs, NEW b \in Batches, Command(p, b)
  PROVE  AttendInv'
<1>0. call \in [Calls -> CallRow]
  BY DEF LedgerInv, TypeInv, CallTypes
<1>1. UNCHANGED <<tasks, pending_responses, journal, available, mode>>
  BY ZenonT(60) DEF Command, Create, Authorize, Pause, AuthorizeInput, AuthorizeStep, ResolveUnknown,
         EditPlan, EditCandidate, Adopt, Authorized, memVars, procVars
<1>2. CallsAttend
  <2>1. CASE AuthorizeStep(p, b)
    <3>1. PICK f \in ClaimedSlots(b), k \in FreeReplacement(b) :
            Authorized(p, b,
              [batch[b] EXCEPT !.status = "awaiting_plan", !.next = call[<<b, f>>].action,
                               !.state.text = call[<<b, f>>].text,
                               !.state.failed = f, !.state.replacement = k],
              IF call[<<b, f>>].status = "outcome_uncertain"
              THEN [call EXCEPT ![<<b, f>>].status = "uncertain_closed"] ELSE call)
      BY <2>1 DEF AuthorizeStep
    <3>2. call' = IF call[<<b, f>>].status = "outcome_uncertain"
                  THEN [call EXCEPT ![<<b, f>>].status = "uncertain_closed"] ELSE call
      BY <3>1 DEF Authorized
    <3>3. QED
      BY <1>0, <3>2 DEF CallsAttend, CallRow
  <2>2. CASE ResolveUnknown(p, b)
    <3>1. \A c \in Calls : call'[c] = IF c[1] = b /\ call[c].status = "outcome_uncertain"
                THEN [call[c] EXCEPT !.status = "uncertain_closed"] ELSE call[c]
      BY <2>2 DEF ResolveUnknown
    <3>2. QED
      BY <1>0, <3>1 DEF CallsAttend, CallRow
  <2>3. CASE \/ \E replace \in BOOLEAN : Create(p, b, replace)
             \/ Authorize(p, b) \/ Pause(p, b) \/ AuthorizeInput(p, b)
             \/ EditPlan(p, b) \/ EditCandidate(p, b) \/ Adopt(p, b)
    BY <2>3, AttendStill DEF Create, Authorize, Pause, AuthorizeInput, EditPlan, EditCandidate,
         Adopt, Authorized
  <2>4. QED
    BY <2>1, <2>2, <2>3 DEF Command
<1>3. QED
  BY <1>1, <1>2, AttendStep, AttendStill

\* compile_response writes no call back to executing.
LEMMA CompileResponseAttends ==
  ASSUME LedgerInv, NEW c \in Calls, NEW seen \in BatchRow, NEW callStatus,
         CompileResponse(c, seen, callStatus)
  PROVE  CallsAttend
<1>1. CASE UNCHANGED call
  BY <1>1, AttendStill
<1>2. CASE ~NothingToCompile(c, seen, callStatus)
  <2>1. CallsFollow
    BY CompileResponseFollows DEF LedgerInv
  <2>2. \A d \in Calls : call'[d].response = call[d].response
    <3>1. PICK o \in Outcomes(c, [seen EXCEPT !.state.compiled = @ \cup {c[2]}]) :
            call' = [call EXCEPT ![c].status = Column(@, callStatus, o.status),
                                 ![c].interrupted = FALSE]
      BY <1>2 DEF CompileResponse
    <3>2. \E status : call' = [call EXCEPT ![c].status = status, ![c].interrupted = FALSE]
      BY <3>1
    <3>3. QED
      BY <3>2 DEF LedgerInv, TypeInv, CallTypes, CallRow
  <2>3. QED
    BY <2>1, <2>2 DEF CallsFollow, CallsAttend
<1>3. QED
  BY <1>1, <1>2 DEF CompileResponse

LEMMA RevalidationAttends ==
  ASSUME LedgerInv, TypeInv', AttendInv, NEW p \in Procs, NEW r \in Requests, Revalidation(p, r)
  PROVE  AttendInv'
<1>1. UNCHANGED <<tasks, pending_responses, journal, available, mode>>
  BY DEF Revalidation, Revalidate, RevalidateRead, RevalidateCompile, memVars, procVars
<1>2. CallsAttend
  <2>1. CASE RevalidateCompile(p, r)
    <3>1. requests[p][r].target \in Calls /\ requests[p][r].seen \in BatchRow
      BY <2>1 DEF RevalidateCompile, LedgerInv, TypeInv, RequestTypes, RequestRows, Rows
    <3>2. QED
      BY <2>1, <3>1, CompileResponseAttends DEF RevalidateCompile
  <2>2. CASE UNCHANGED call
    BY <2>2, AttendStill
  <2>3. QED
    BY <2>1, <2>2 DEF Revalidation, Revalidate, RevalidateRead, dbVars
<1>3. QED
  BY <1>1, <1>2, AttendStep, AttendStill

\* The steps of a task, but for its claim.
LEMMA RunAttends ==
  ASSUME LedgerInv, TypeInv', AttendInv, "db" \notin Faults, NEW p \in Procs, NEW b \in Batches,
         Run(p, b), ~Claim(p, b)
  PROVE  AttendInv'
<1>0. /\ TypeInv /\ tasks[p][b] \in TaskRow /\ tasks[p][b].seen \in BatchRow
      /\ call \in [Calls -> CallRow] /\ tasks \in [Procs -> [Batches -> TaskRows]]
      /\ pending_responses \in [Procs -> SUBSET Calls] /\ available \in [Procs -> BOOLEAN]
  BY DEF LedgerInv, TypeInv, TaskTypes, TaskRows, CallTypes, Rows, ReceiptTypes, ControlTypes
<1> DEFINE c == <<b, tasks[p][b].slot>>
<1>1. tasks[p][b].pc \in Slotted => c \in Calls /\ Place(b, tasks[p][b])
  BY CallsOfTypes DEF LedgerInv, TaskLedger
<1>2. CASE ClaimRead(p, b) \/ CompileRead(p, b)
  <2>1. tasks[p][b].pc \notin Attending
    BY <1>2 DEF ClaimRead, CompileRead, At, Attending
  <2>2. UNCHANGED <<call, pending_responses, journal, mode>>
    BY <1>2 DEF ClaimRead, CompileRead, dbVars, memVars
  <2>3. ServesAttend
    BY <1>0, <1>2, <2>2 DEF ClaimRead, CompileRead, ServesAttend
  <2>4. TasksAttend
    <3>1. CASE EndTask(p, b) \/ Goto(p, b, "fail")
      BY <1>0, <2>1, <3>1, EndAttends, GotoAttends DEF Recording
    <3>2. ASSUME NEW t, tasks' = [tasks EXCEPT ![p][b] = t], t.pc \in {"claim", "compile"}
          PROVE  TasksAttend
      BY <1>0, <2>1, <3>2, TaskAttends DEF Recording
    <3>3. CASE tasks' = [tasks EXCEPT ![p][b].pc = "claim", ![p][b].seen = batch[b]]
      <4> DEFINE t == [tasks[p][b] EXCEPT !.pc = "claim", !.seen = batch[b]]
      <4>1. tasks' = [tasks EXCEPT ![p][b] = t]
        BY <1>0, <3>3
      <4>2. t.pc = "claim"
        BY <1>0 DEF TaskRow
      <4> HIDE DEF t
      <4>3. QED
        BY <3>2, <4>1, <4>2
    <3>4. CASE tasks' = [tasks EXCEPT ![p][b].pc = "compile", ![p][b].seen = batch[b],
                                      ![p][b].callStatus = call[CallOf(p, b)].status]
      <4> DEFINE t == [tasks[p][b] EXCEPT !.pc = "compile", !.seen = batch[b],
                                          !.callStatus = call[CallOf(p, b)].status]
      <4>1. tasks' = [tasks EXCEPT ![p][b] = t]
        BY <1>0, <3>4
      <4>2. t.pc = "compile"
        BY <1>0 DEF TaskRow
      <4> HIDE DEF t
      <4>3. QED
        BY <3>2, <4>1, <4>2
    <3>5. QED
      BY <1>2, <3>1, <3>3, <3>4 DEF ClaimRead, CompileRead
  <2>5. QED
    BY <2>2, <2>3, <2>4, AttendStep, AttendStill
<1>3. CASE \/ ClaimNothing(p, b) \/ ClaimTooLarge(p, b) \/ FailWrite(p, b)
  <2>1. tasks[p][b].pc \notin Attending /\ EndTask(p, b)
    BY <1>3 DEF ClaimNothing, ClaimTooLarge, FailWrite, Claiming, At, Attending
  <2>2. UNCHANGED <<call, pending_responses, journal, mode, available>>
    BY <1>3 DEF ClaimNothing, ClaimTooLarge, FailWrite, Fault, procVars, memVars
  <2>3. TasksAttend
    BY <1>0, <2>1, EndAttends
  <2>4. QED
    BY <2>2, <2>3, AttendStep, AttendStill
<1>4. CASE ClaimRefused(p, b)
  <2>1. tasks[p][b].pc \notin Attending /\ Goto(p, b, "fail")
    BY <1>4 DEF ClaimRefused, Claiming, At, Attending
  <2>2. TasksAttend
    BY <1>0, <2>1, GotoAttends DEF Recording
  <2>3. QED
    BY <1>4, <2>2, AttendStep, AttendStill DEF ClaimRefused, dbVars, procVars, memVars
<1>5. CASE SendRefused(p, b) \/ Send(p, b) \/ NoAnswer(p, b)
  <2>1. \E pc \in Attending \ Recording : Goto(p, b, pc)
    BY <1>5 DEF SendRefused, Send, NoAnswer, Attending, Recording
  <2>2. TasksAttend
    BY <1>0, <2>1, GotoAttends
  <2>3. QED
    BY <1>5, <2>2, AttendStep, AttendStill DEF SendRefused, Send, NoAnswer, dbVars, procVars, memVars
<1>6. CASE \E reply \in Replies : Receive(p, b, reply)
  <2>1. PICK reply \in Replies : Receive(p, b, reply)
    BY <1>6
  <2>2. TasksAttend
    BY <1>0, <2>1, GotoAttends DEF Receive, Attending, Recording
  <2>3. ReceiptsAttend
    BY <1>0, <2>1 DEF Receive, ReceiptsAttend
  <2>4. QED
    BY <2>1, <2>2, <2>3, AttendStep, AttendStill DEF Receive, dbVars, procVars
<1>7. CASE SaveJournal(p, b)
  <2>1. TasksAttend
    BY <1>0, <1>7, GotoAttends DEF SaveJournal, Attending, Recording
  <2>2. ReceiptsAttend
    BY <1>7 DEF SaveJournal, ReceiptsAttend
  <2>3. QED
    BY <1>7, <2>1, <2>2, AttendStep, AttendStill DEF SaveJournal, dbVars, procVars
<1>8. CASE Store(p, b)
  <2>1. c \in Calls /\ tasks[p][b].pc = "store" /\ CallOf(p, b) = c
    BY <1>1, <1>8 DEF Store, At, Slotted, CallOf
  <2>2. \/ Persist(c) /\ Goto(p, b, "forget")
        \/ ~Bindable(c) /\ Goto(p, b, "fail") /\ UNCHANGED call
    BY <1>8, <2>1 DEF Store, Fault
  <2> HIDE DEF c
  <2>3. call'[c].status # "executing" /\ \A d \in Calls \ {c} : call'[d] = call[d]
    BY <1>0, <2>1, <2>2 DEF Persist, Bindable, AttendInv, CallRow
  <2>4. CallsAttend
    BY <2>3 DEF CallsAttend
  <2>5. TasksAttend
    BY <1>0, <2>2, <2>3, GotoAttends DEF c, Recording
  <2>6. QED
    BY <1>8, <2>4, <2>5, AttendStep, AttendStill DEF Store, procVars, memVars
<1>9. CASE Forget(p, b)
  <2>1. c \in Calls /\ call[c].response # "none" /\ CallOf(p, b) = c
    BY <1>1, <1>9 DEF Forget, At, Slotted, CallOf, Place
  <2>2. call[c].status # "executing" /\ UNCHANGED call
    BY <1>9, <2>1 DEF AttendInv, Forget, dbVars
  <2>3. TasksAttend
    BY <1>0, <1>9, <2>2, GotoAttends DEF Forget, Recording
  <2> HIDE DEF c
  <2>4. ReceiptsAttend
    BY <1>0, <1>9, <2>1, <2>2 DEF Forget, ForgetResponse, ReceiptsAttend
  <2>5. QED
    BY <1>9, <2>2, <2>3, <2>4, AttendStep, AttendStill DEF Forget, procVars
<1>10. CASE Compile(p, b)
  <2>1. CallOf(p, b) \in Calls /\ tasks[p][b].pc \notin Attending
    BY <1>1, <1>10 DEF Compile, At, Slotted, CallOf, Attending
  <2>2. CallsAttend
    BY <1>0, <1>10, <2>1, CompileResponseAttends DEF Compile
  <2> DEFINE t == [Idle EXCEPT !.pc = "loop"]
  <2>3. t.pc = "loop" /\ tasks' = [tasks EXCEPT ![p][b] = t]
    BY <1>10 DEF Compile, Idle
  <2> HIDE DEF t
  <2>4. TasksAttend
    BY <1>0, <2>1, <2>3, TaskAttends DEF Recording
  <2>5. QED
    BY <1>10, <2>2, <2>4, AttendStep, AttendStill DEF Compile, procVars, memVars
<1>11. CASE FailRead(p, b)
  <2> DEFINE t == [Idle EXCEPT !.pc = "fail_write", !.seen = batch[b]]
  <2>1. t.pc = "fail_write" /\ tasks' = [tasks EXCEPT ![p][b] = t]
    BY <1>11 DEF FailRead, Idle
  <2>2. tasks[p][b].pc \notin Attending
    BY <1>11 DEF FailRead, At, Attending
  <2> HIDE DEF t
  <2>3. TasksAttend
    BY <1>0, <2>1, <2>2, TaskAttends DEF Recording
  <2>4. QED
    BY <1>11, <2>3, AttendStep, AttendStill DEF FailRead, dbVars, procVars, memVars
<1>12. CASE FinishErrorRead(p, b)
  <2>1. PICK to \in Recording :
          tasks' = [tasks EXCEPT ![p][b].pc = to, ![p][b].seen = batch[b],
                                 ![p][b].callStatus = call[CallOf(p, b)].status]
    BY <1>12 DEF FinishErrorRead, ErrorRead, Recording
  <2> DEFINE t == [tasks[p][b] EXCEPT !.pc = to, !.seen = batch[b],
                                      !.callStatus = call[CallOf(p, b)].status]
  <2>2. tasks' = [tasks EXCEPT ![p][b] = t]
    BY <1>0, <2>1
  <2>3. t.pc = to /\ t.slot = tasks[p][b].slot /\ t.callStatus = call[CallOf(p, b)].status
    BY <1>0 DEF TaskRow
  <2> HIDE DEF t
  <2>4. TasksAttend
    BY <1>0, <2>2, <2>3, TaskAttends DEF CallOf, Recording, Attending
  <2>5. QED
    BY <1>12, <2>4, AttendStep, AttendStill
       DEF FinishErrorRead, ErrorRead, dbVars, procVars, memVars
<1>13. CASE FinishError(p, b)
  <2>1. PICK callStatus \in {"not_dispatched", "outcome_uncertain"},
             batchStatus \in {"failed", "outcome_uncertain"},
             pc \in Recording : ErrorWrite(p, b, pc, callStatus, batchStatus)
    BY <1>13 DEF FinishError, Recording
  <2>2. c \in Calls /\ CallOf(p, b) = c /\ tasks[p][b].pc \in Recording
    BY <1>1, <2>1 DEF ErrorWrite, At, Slotted, Recording, CallOf
  <2>3. call[c].status = "executing" => tasks[p][b].callStatus = "executing"
    BY <2>2 DEF AttendInv
  <2> DEFINE status == Column(call[c].status, tasks[p][b].callStatus, callStatus)
  <2>4. call' = [call EXCEPT ![c].status = status, ![c].interrupted = FALSE]
    BY <1>0, <2>1, <2>2 DEF ErrorWrite
  <2>5. status # "executing"
    BY <2>3 DEF Column
  <2> HIDE DEF status
  <2>6. call'[c].status # "executing" /\ \A d \in Calls \ {c} : call'[d] = call[d]
    BY <1>0, <2>2, <2>4, <2>5 DEF CallRow
  <2>7. CallsAttend
    BY <2>6 DEF CallsAttend
  <2>8. TasksAttend
    BY <1>0, <2>1, <2>6, EndAttends DEF ErrorWrite
  <2>9. QED
    BY <2>1, <2>7, <2>8, AttendStep, AttendStill DEF ErrorWrite, procVars, memVars
<1>14. QED
  BY <1>2, <1>3, <1>4, <1>5, <1>6, <1>7, <1>8, <1>9, <1>10, <1>11, <1>12, <1>13
     DEF Run, CompileRaises, FinishErrorFails, Fault

\* The claim: the task of the one process holds the new call, and it held no other.
LEMMA ClaimAttends ==
  ASSUME LedgerInv, TypeInv', AttendInv, SoleProcess, NEW p \in Procs, NEW b \in Batches,
         Claim(p, b)
  PROVE  AttendInv'
<1>0. /\ tasks \in [Procs -> [Batches -> TaskRows]] /\ call \in [Calls -> CallRow]
      /\ tasks[p][b].pc = "claim"
  BY DEF LedgerInv, TypeInv, TaskTypes, CallTypes, Claim, Claiming, At
<1>1. PICK slot : slot = SlotFor(b, tasks[p][b].seen)
  OBVIOUS
<1>2. UNCHANGED <<available, mode, journal, pending_responses>>
  BY DEF Claim, procVars, memVars
<1>3. /\ tasks'[p][b].pc = "send" /\ tasks'[p][b].slot = slot
      /\ \A q \in Procs, x \in Batches : x # b => tasks'[q][x] = tasks[q][x]
      /\ \A q \in Procs : q = p
  <2>1. tasks' = [tasks EXCEPT ![p][b] = [Idle EXCEPT !.pc = "send", !.slot = slot]]
    BY <1>1 DEF Claim
  <2>2. QED
    BY <1>0, <2>1 DEF Idle, SoleProcess
<1>4. /\ \A c \in Calls : c # <<b, slot>> => call'[c] = call[c]
      /\ \A c \in Calls : c = <<b, slot>> => call'[c].response = "none"
  <2> DEFINE new == [NoCall EXCEPT !.status = "executing", !.action = tasks[p][b].seen.next,
                               !.at = Cardinality(ClaimedSlots(b)) + 1,
                               !.rev = tasks[p][b].seen.state.rev,
                               !.text = tasks[p][b].seen.state.text]
  <2>1. call' = [call EXCEPT ![<<b, slot>>] = new]
    BY <1>1 DEF Claim
  <2>2. new.response = "none"
    BY DEF NoCall
  <2> HIDE DEF new
  <2>3. QED
    BY <1>0, <2>1, <2>2
<1>5. \A c \in Calls : c[1] \in Batches /\ c = <<c[1], c[2]>>
  BY DEF Calls
<1>6. \A c \in Calls : call'[c].status = "executing" => call'[c].response = "none"
  BY <1>4 DEF AttendInv
<1>7. ASSUME NEW q \in Procs, NEW x \in Batches, tasks'[q][x].pc \in Recording,
             call'[<<x, tasks'[q][x].slot>>].status = "executing"
      PROVE  tasks'[q][x].callStatus = "executing"
  <2>1. x # b
    BY <1>3, <1>7 DEF Recording
  <2>2. tasks'[q][x] = tasks[q][x] /\ <<x, tasks[q][x].slot>> \in Calls
    BY <1>0, <1>3, <1>7, <2>1 DEF TaskRows, Recording, Slotted, Calls
  <2>3. <<x, tasks[q][x].slot>> # <<b, slot>>
    BY <2>1
  <2>4. QED
    BY <1>4, <1>7, <2>2, <2>3 DEF AttendInv
<1>8. ASSUME NEW q \in Procs, NEW c \in Calls, available'[q], mode'[q] = "up",
             call'[c].status = "executing"
      PROVE  Attends(q, c)'
  <2>1. CASE c = <<b, slot>>
    BY <1>3, <1>5, <2>1 DEF Attends, Attending
  <2>2. CASE c # <<b, slot>>
    <3>1. Attends(q, c)
      BY <1>2, <1>4, <1>8, <2>2 DEF AttendInv
    <3>2. CASE c \in journal \cup pending_responses[q]
      BY <1>2, <3>2 DEF Attends
    <3>3. CASE tasks[q][c[1]].pc \in Attending /\ tasks[q][c[1]].slot = c[2]
      <4>1. c[1] # b
        BY <1>0, <1>3, <3>3 DEF Attending
      <4>2. QED
        BY <1>3, <1>5, <3>3, <4>1 DEF Attends
    <3>4. QED
      BY <3>1, <3>2, <3>3 DEF Attends
  <2>3. QED
    BY <2>1, <2>2
<1>9. QED
  BY <1>6, <1>7, <1>8 DEF AttendInv

LEMMA AttendNext ==
  ASSUME SoleProcess, "db" \notin Faults, LedgerInv, TypeInv', AttendInv, [Next]_vars
  PROVE  AttendInv'
<1>1. CASE UNCHANGED vars
  BY <1>1, AttendStep, AttendStill DEF vars, dbVars, procVars, memVars
<1>2. ASSUME NEW p \in Procs, NEW b \in Batches, Run(p, b) PROVE AttendInv'
  BY <1>2, RunAttends, ClaimAttends
<1>3. QED
  BY <1>1, <1>2, ProcessAttends, CommandAttends, RevalidationAttends DEF Next

\* With one process, whose database accepts the write that records an error, a call that
\* executes while it serves has the task that sent it or a receipt, whatever is cancelled,
\* refused, paused or revalidated meanwhile (runtime.py run, finish_error, reconcile).
THEOREM ExecutingAttended ==
  ASSUME SoleProcess, "db" \notin Faults
  PROVE  Spec => []ExecutingIsAttended
<1>1. Init => AttendInv
  BY DEF Init, AttendInv, NoCall, Idle, Recording
<1>2. LedgerInv /\ AttendInv /\ [Next]_vars => AttendInv'
  BY LedgerStep, AttendNext DEF KeepsLedger, LedgerInv
<1>3. AttendInv => ExecutingIsAttended
  <2> SUFFICES ASSUME AttendInv, NEW p \in Procs, NEW c \in Calls, CheckOwner(p),
                      mode[p] = "up", call[c].status = "executing"
               PROVE  \/ \E q \in Procs : LiveTask(q, c[1])
                      \/ c \in journal \/ \E q \in Procs : c \in pending_responses[q]
    BY DEF ExecutingIsAttended
  <2>1. Attends(p, c)
    BY DEF AttendInv, CheckOwner
  <2>2. QED
    BY <2>1 DEF Attends, Attending, LiveTask
<1>4. QED
  BY <1>1, <1>2, <1>3, FollowAlways, PTL DEF Spec
=============================================================================
