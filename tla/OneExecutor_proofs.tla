------------------------ MODULE OneExecutor_proofs ------------------------
(***************************************************************************)
(* One process executes the stages of a project, as long as the advisory   *)
(* lock does what it is for.  For any number of stages, steps, slots,      *)
(* faults and edits: no call is silently repeated, the actions of a stage  *)
(* are claimed in their order, and its state forgets no completed call.    *)
(*                                                                         *)
(* The hypothesis is OneExecutor: one process, and no revalidation request *)
(* that compiles beside its task.  With two processes, or with a late      *)
(* request, the last of the three does not hold.                           *)
(***************************************************************************)
EXTENDS GenerationKernel_proofs, WellFoundedInduction

OneExecutor == Requests = {} /\ \A p, q \in Procs : p = q

-----------------------------------------------------------------------------
(* The inductive invariant.  A task claims by a row it read without a lock *)
(* while its author edits, pauses or authorizes the stored one, and then   *)
(* writes the JSON column it remembers back.  So the invariant speaks of   *)
(* the stored row and of the remembered one alike: whatever either of them *)
(* could claim next is due.                                                *)

\* Statuses of a call that will not be taken up again.
Closed == Failures \ {"outcome_uncertain"}

\* The claimed calls of a stage have an order; actions only go forward along it, an ordinary
\* slot is the one of its action, and a replay has the ordinary call of its action before it.
CallsInOrder(b) ==
  \A k \in ClaimedSlots(b) :
    LET c == call[<<b, k>>] IN
    /\ c.at <= Cardinality(ClaimedSlots(b))
    /\ c.action \in Actions /\ (k <= Steps => c.action = k)
    /\ c.action \in ClaimedSlots(b)
    /\ c.action > 1 => 2 \in ClaimedSlots(b)
    /\ c.status = "executing" => c.response = "none"
    /\ \A j \in ClaimedSlots(b) :
         /\ j # k => call[<<b, j>>].at # c.at
         /\ call[<<b, j>>].at < c.at => call[<<b, j>>].action <= c.action

\* What "done" and "compiled" of a stage say of its calls.
CompletedIn(b) == {k \in ClaimedSlots(b) : call[<<b, k>>].status = "completed"}

DoneIsCompleted(b) ==
  LET done == batch[b].state.done IN
  /\ done # 0 => \E k \in CompletedIn(b) : call[<<b, k>>].action = done
  /\ \A k \in CompletedIn(b) : k \in batch[b].state.compiled /\ call[<<b, k>>].action <= done
  /\ \A k \in ClaimedSlots(b) \ CompletedIn(b) : IsLast(b, k) => done + 1 \in ClaimedSlots(b)

\* A row whose next action has no ordinary call yet.
Fresh(b, row) == row.next # 0 /\ row.next \notin ClaimedSlots(b)

\* ... continues the stage after its last completed action, or at the independent cold read.
NextIsDue(b, row) ==
  Fresh(b, row) =>
    \/ /\ row.next = row.state.done + 1
       /\ \A k \in ClaimedSlots(b) : call[<<b, k>>].action <= row.state.done
    \/ /\ Reader /\ row.next = Steps
       /\ {2, row.state.done + 1} \subseteq ClaimedSlots(b)

\* A row that authorizes a replay which is not claimed yet.
Pending(b, row) == row.state.failed # 0 /\ row.state.replacement \notin ClaimedSlots(b)

\* ... of the last call of its stage, a closed failure, and nothing else can be claimed by it.
ReplayIsDue(b, row) ==
  /\ row.state.failed # 0 =>
       row.state.failed \in ClaimedSlots(b) /\ row.state.replacement \in Steps + 1 .. Slots
  /\ Pending(b, row) =>
       /\ IsLast(b, row.state.failed)
       /\ call[<<b, row.state.failed>>].status \in Closed
       /\ ~Fresh(b, row)

\* Places of a task that hold a row read without a lock.
Remembering == {"claim", "compile", "fail_write", "refused_write", "unknown_write"}

\* The row a task remembers is as good as the stored one where it matters.
SeenIsSound(b, t) ==
  t.pc \in Remembering =>
    /\ t.seen.state.done = batch[b].state.done
    /\ t.seen.state.compiled = batch[b].state.compiled
    /\ ReplayIsDue(b, t.seen)
    /\ Pending(b, t.seen) => ~Fresh(b, batch[b])
    /\ t.pc = "claim" => NextIsDue(b, t.seen)
    /\ t.pc = "compile" => batch[b].next \in {0, t.seen.next}

\* The status of the call a task at pc works on.
Waiting(pc) == IF pc \in {"forget", "check", "compile"} THEN "response_saved" ELSE "executing"

\* The call a task works on is the last of its stage, and waits for it.
WorksOnLast(b, t) ==
  t.pc \in Slotted =>
    /\ IsLast(b, t.slot)
    /\ call[<<b, t.slot>>].status = Waiting(t.pc)

\* NoSilentResend and StepsAreSound, said of one stage.
ResendsNothing(b) ==
  \A j, k \in ClaimedSlots(b) :
    /\ call[<<b, j>>].action = call[<<b, k>>].action
    /\ call[<<b, j>>].at < call[<<b, k>>].at
    => call[<<b, j>>].status \in Closed

StepsFollow(b) ==
  \A k \in ClaimedSlots(b) :
    LET a == call[<<b, k>>].action IN
    a > 1 /\ ~(Reader /\ a = Steps) =>
      \E j \in CompletedIn(b) :
        call[<<b, j>>].action = a - 1 /\ call[<<b, j>>].at < call[<<b, k>>].at

LastFollows(b) ==
  \A j, k \in ClaimedSlots(b) :
    call[<<b, j>>].action = Steps /\ call[<<b, j>>].at < call[<<b, k>>].at
      => call[<<b, k>>].action = Steps

StageIsSound(b) ==
  /\ CallsInOrder(b)
  /\ ResendsNothing(b) /\ StepsFollow(b) /\ LastFollows(b)
  /\ DoneIsCompleted(b)
  /\ NextIsDue(b, batch[b])
  /\ ReplayIsDue(b, batch[b])
  /\ \A p \in Procs : SeenIsSound(b, tasks[p][b]) /\ WorksOnLast(b, tasks[p][b])
  /\ batch[b].status = "none" =>
       /\ ClaimedSlots(b) = {}
       /\ \A p \in Procs : ~LiveTask(p, b) /\ b \notin starts[p] \cup pending_starts[p]

\* Nobody works while the rows are reconciled.
OwnerIsAlone ==
  \A p \in Procs : acquiring[p] =>
    mode[p] \in {"starting", "up"} /\ \A b \in Batches : tasks[p][b].pc \in {"idle", "loop"}

ExecutorInv == OwnerIsAlone /\ \A b \in Batches : StageIsSound(b)

LEMMA ExecutorInit == Init => ExecutorInv
<1> SUFFICES ASSUME Init PROVE ExecutorInv
  OBVIOUS
<1>1. ASSUME NEW b \in Batches PROVE StageIsSound(b)
  <2>1. ClaimedSlots(b) = {}
    <3>1. \A k \in SlotIds : call[<<b, k>>] = NoCall
      BY DEF Init, Calls
    <3>2. QED
      BY <3>1 DEF ClaimedSlots, NoCall
  <2>2. batch[b].next = 0 /\ batch[b].state.failed = 0 /\ batch[b].state.done = 0
    BY DEF Init, NoBatch, NoState
  <2>3. \A p \in Procs : tasks[p][b].pc = "idle" /\ starts[p] = {} /\ pending_starts[p] = {}
    BY DEF Init, Idle
  <2>4. CallsInOrder(b) /\ ResendsNothing(b) /\ StepsFollow(b) /\ LastFollows(b)
    BY <2>1 DEF CallsInOrder, ResendsNothing, StepsFollow, LastFollows
  <2>5. DoneIsCompleted(b) /\ NextIsDue(b, batch[b]) /\ ReplayIsDue(b, batch[b])
    BY <2>1, <2>2 DEF DoneIsCompleted, CompletedIn, NextIsDue, Fresh, ReplayIsDue, Pending
  <2>6. \A p \in Procs : SeenIsSound(b, tasks[p][b]) /\ WorksOnLast(b, tasks[p][b])
    BY <2>3 DEF SeenIsSound, Remembering, WorksOnLast, Slotted
  <2>7. QED
    BY <2>1, <2>3, <2>4, <2>5, <2>6 DEF StageIsSound, LiveTask
<1>2. OwnerIsAlone
  BY DEF Init, OwnerIsAlone
<1>3. QED
  BY <1>1, <1>2 DEF ExecutorInv

-----------------------------------------------------------------------------
(* Calm steps: those that claim and complete nothing in a stage, and leave *)
(* its receipt and its next action as they were, in the row or in a memory *)
(* of it.                                                                  *)

CallsCalm(b) ==
  \A k \in SlotIds :
    LET old == call[<<b, k>>]
        new == call'[<<b, k>>]
    IN
    /\ new.at = old.at /\ new.action = old.action
    /\ new.status = "none" <=> old.status = "none"
    /\ new.status = "completed" <=> old.status = "completed"
    /\ old.status \in Closed => new.status \in Closed
    /\ new.status = "executing" => old.status = "executing" /\ new.response = old.response

SameReceipt(row, old) ==
  row.state.failed = old.state.failed /\ row.state.replacement = old.state.replacement

RowCalm(b) ==
  /\ batch'[b].state.done = batch[b].state.done
  /\ batch'[b].state.compiled = batch[b].state.compiled
  /\ batch'[b].next \in {0, batch[b].next}
  /\ \/ SameReceipt(batch'[b], batch[b])
     \/ \E p \in Procs : /\ tasks[p][b].pc \in Remembering
                         /\ SameReceipt(batch'[b], tasks[p][b].seen)

\* Tasks go on with the call they have, or leave it; they remember what they did, or the row.
TasksCalm(b) ==
  \A p \in Procs :
    LET old == tasks[p][b]
        new == tasks'[p][b]
    IN
    /\ new.pc \in Slotted => /\ old.pc \in Slotted /\ new.slot = old.slot
                             /\ call'[<<b, new.slot>>].status = Waiting(new.pc)
    /\ new.pc \in Remembering => \/ new.pc = old.pc /\ new.seen = old.seen
                                 \/ new.seen = batch[b] /\ batch'[b] = batch[b]

\* A stage that does not exist has nobody who works on it.
Known(b) ==
  batch'[b].status = "none" =>
    /\ batch[b].status = "none"
    /\ \A p \in Procs : tasks'[p][b].pc = "idle" /\ b \notin starts'[p] \cup pending_starts'[p]

Calm(b) == CallsCalm(b) /\ RowCalm(b) /\ TasksCalm(b) /\ Known(b)

LEMMA CalmCalls ==
  ASSUME NEW b \in Batches, CallsCalm(b)
  PROVE  /\ ClaimedSlots(b)' = ClaimedSlots(b)
         /\ CompletedIn(b)' = CompletedIn(b)
         /\ \A k \in SlotIds : IsLast(b, k)' <=> IsLast(b, k)
         /\ \A k \in ClaimedSlots(b) : /\ call'[<<b, k>>].at = call[<<b, k>>].at
                                       /\ call'[<<b, k>>].action = call[<<b, k>>].action
<1>1. ClaimedSlots(b)' = ClaimedSlots(b)
  BY DEF CallsCalm, ClaimedSlots
<1>2. ClaimedSlots(b) \subseteq SlotIds
  BY DEF ClaimedSlots
<1>3. CompletedIn(b)' = CompletedIn(b)
  BY <1>1, <1>2 DEF CallsCalm, CompletedIn
<1>4. \A k \in SlotIds : IsLast(b, k)' <=> IsLast(b, k)
  BY <1>1, <1>2 DEF CallsCalm, IsLast
<1>5. QED
  BY <1>1, <1>2, <1>3, <1>4 DEF CallsCalm

LEMMA CalmOrder ==
  ASSUME NEW b \in Batches, CallsCalm(b), CallsInOrder(b), ResendsNothing(b), StepsFollow(b),
         LastFollows(b)
  PROVE  CallsInOrder(b)' /\ ResendsNothing(b)' /\ StepsFollow(b)' /\ LastFollows(b)'
<1>1. CallsInOrder(b)'
  <2>1. \A k \in ClaimedSlots(b) : call'[<<b, k>>].status = "executing" =>
                                     call'[<<b, k>>].response = "none"
    BY DEF CallsInOrder, CallsCalm, ClaimedSlots
  <2>2. QED
    BY <2>1, CalmCalls DEF CallsInOrder
<1>2. ResendsNothing(b)'
  <2>1. ClaimedSlots(b) \subseteq SlotIds
    BY DEF ClaimedSlots
  <2>2. QED
    BY <2>1, CalmCalls DEF ResendsNothing, CallsCalm
<1>3. StepsFollow(b)'
  <2>1. CompletedIn(b) \subseteq ClaimedSlots(b)
    BY DEF CompletedIn
  <2>2. QED
    BY <2>1, CalmCalls DEF StepsFollow
<1>4. LastFollows(b)'
  BY CalmCalls DEF LastFollows
<1>5. QED
  BY <1>1, <1>2, <1>3, <1>4

LEMMA CalmStage ==
  ASSUME TypeInv, NEW b \in Batches, StageIsSound(b), Calm(b)
  PROVE  StageIsSound(b)'
<1> DEFINE row  == batch[b]
           row2 == batch'[b]
           done == row.state.done
<1>0. ClaimedSlots(b) \subseteq SlotIds
  BY DEF ClaimedSlots
<1>1. CallsInOrder(b)' /\ ResendsNothing(b)' /\ StepsFollow(b)' /\ LastFollows(b)'
  BY CalmOrder DEF StageIsSound, Calm
<1>2. DoneIsCompleted(b)'
  <2>1. CompletedIn(b) \subseteq ClaimedSlots(b)
    BY DEF CompletedIn
  <2>2. QED
    BY <1>0, <2>1, CalmCalls DEF StageIsSound, Calm, RowCalm, DoneIsCompleted
<1>3. ASSUME NEW r, NEW s, r.next = s.next \/ r.next = 0, r.state.done = s.state.done,
             NextIsDue(b, s)
      PROVE  r.next # 0 /\ r.next \notin ClaimedSlots(b) =>
               \/ /\ r.next = r.state.done + 1
                  /\ \A k \in ClaimedSlots(b) : call'[<<b, k>>].action <= r.state.done
               \/ /\ Reader /\ r.next = Steps
                  /\ {2, r.state.done + 1} \subseteq ClaimedSlots(b)
  BY <1>3, CalmCalls DEF NextIsDue, Fresh, Calm
<1>4. NextIsDue(b, batch[b])'
  <2>1. row2.next = row.next \/ row2.next = 0
    BY DEF Calm, RowCalm
  <2>2. QED
    BY <1>3, <2>1, CalmCalls DEF StageIsSound, Calm, RowCalm, NextIsDue, Fresh
<1>5. ASSUME NEW r, NEW s, SameReceipt(r, s), ReplayIsDue(b, s)
      PROVE  /\ r.state.failed # 0 => /\ r.state.failed \in ClaimedSlots(b)
                                      /\ r.state.replacement \in Steps + 1 .. Slots
             /\ r.state.failed # 0 /\ r.state.replacement \notin ClaimedSlots(b) =>
                  /\ IsLast(b, r.state.failed)'
                  /\ call'[<<b, r.state.failed>>].status \in Closed
                  /\ Pending(b, s)
  BY <1>0, <1>5, CalmCalls DEF ReplayIsDue, SameReceipt, Pending, Calm, CallsCalm
<1>6. ReplayIsDue(b, batch[b])'
  <2>1. CASE SameReceipt(row2, row)
    <3>1. ReplayIsDue(b, row)
      BY DEF StageIsSound
    <3>2. Pending(b, row) => ~Fresh(b, row)
      BY <3>1 DEF ReplayIsDue
    <3>3. Fresh(b, batch[b])' => Fresh(b, row)
      BY CalmCalls DEF Calm, RowCalm, Fresh
    <3>4. QED
      BY <1>5, <2>1, <3>1, <3>2, <3>3, CalmCalls DEF ReplayIsDue, Pending, Fresh, Calm
  <2>2. ASSUME NEW p \in Procs, tasks[p][b].pc \in Remembering,
               SameReceipt(row2, tasks[p][b].seen)
        PROVE  ReplayIsDue(b, batch[b])'
    <3> DEFINE seen == tasks[p][b].seen
    <3>1. ReplayIsDue(b, seen) /\ (Pending(b, seen) => ~Fresh(b, row))
      BY <2>2 DEF StageIsSound, SeenIsSound
    <3>2. Fresh(b, batch[b])' => Fresh(b, row)
      BY CalmCalls DEF Calm, RowCalm, Fresh
    <3>3. QED
      BY <1>5, <2>2, <3>1, <3>2, CalmCalls DEF ReplayIsDue, Pending, Fresh, Calm
  <2>3. QED
    BY <2>1, <2>2 DEF Calm, RowCalm
<1>7. ASSUME NEW p \in Procs PROVE WorksOnLast(b, tasks[p][b])'
  <2> SUFFICES ASSUME tasks'[p][b].pc \in Slotted
               PROVE  /\ IsLast(b, tasks[p][b].slot)'
                      /\ call'[<<b, tasks'[p][b].slot>>].status = Waiting(tasks'[p][b].pc)
    BY DEF WorksOnLast
  <2>1. /\ tasks[p][b].pc \in Slotted /\ tasks'[p][b].slot = tasks[p][b].slot
        /\ call'[<<b, tasks'[p][b].slot>>].status = Waiting(tasks'[p][b].pc)
    BY DEF Calm, TasksCalm
  <2>2. IsLast(b, tasks[p][b].slot) /\ tasks[p][b].slot \in SlotIds
    BY <2>1, SlottedTask DEF StageIsSound, WorksOnLast, TypeInv
  <2>3. QED
    <3>1. IsLast(b, tasks[p][b].slot)' <=> IsLast(b, tasks[p][b].slot)
      BY <2>1, <2>2, CalmCalls DEF Calm, IsLast
    <3>2. QED
      BY <2>1, <2>2, <3>1
<1>8. ASSUME NEW p \in Procs, tasks'[p][b].pc \in Remembering
      PROVE  SeenIsSound(b, tasks[p][b])'
  <2> DEFINE t == tasks'[p][b]
             s == t.seen
  <2>1. /\ s.state.done = done /\ s.state.compiled = row.state.compiled
        /\ ReplayIsDue(b, s)
        /\ Pending(b, s) => ~Fresh(b, row)
        /\ t.pc = "claim" => NextIsDue(b, s)
        /\ t.pc = "compile" => row.next \in {0, s.next}
    <3>1. CASE t.pc = tasks[p][b].pc /\ s = tasks[p][b].seen
      BY <1>8, <3>1 DEF StageIsSound, SeenIsSound
    <3>2. CASE s = row
      BY <3>2 DEF StageIsSound, ReplayIsDue
    <3>3. QED
      BY <1>8, <3>1, <3>2 DEF Calm, TasksCalm
  <2>2. Fresh(b, batch[b])' => Fresh(b, row)
    BY CalmCalls DEF Calm, RowCalm, Fresh
  <2>3. ReplayIsDue(b, tasks[p][b].seen)'
    <3>1. SameReceipt(s, s)
      BY DEF SameReceipt
    <3>2. Pending(b, s) => ~Fresh(b, s)
      BY <2>1 DEF ReplayIsDue
    <3>3. QED
      BY <1>5, <2>1, <3>1, <3>2, CalmCalls DEF ReplayIsDue, Pending, Fresh, Calm
  <2>4. Pending(b, tasks[p][b].seen)' => ~Fresh(b, batch[b])'
    BY <2>1, <2>2, CalmCalls DEF Pending, Calm
  <2>5. t.pc = "claim" => NextIsDue(b, tasks[p][b].seen)'
    BY <1>3, <2>1, CalmCalls DEF NextIsDue, Fresh, Calm
  <2>6. row2.next \in {0, row.next} /\ row2.state.done = done /\ row2.state.compiled = row.state.compiled
    BY DEF Calm, RowCalm
  <2>7. QED
    BY <2>1, <2>3, <2>4, <2>5, <2>6 DEF SeenIsSound
<1>9. ASSUME row2.status = "none"
      PROVE  /\ ClaimedSlots(b)' = {}
             /\ \A p \in Procs : /\ ~LiveTask(p, b)'
                                 /\ b \notin starts'[p] \cup pending_starts'[p]
  BY <1>9, CalmCalls DEF Calm, Known, StageIsSound, LiveTask
<1>10. \A p \in Procs : SeenIsSound(b, tasks[p][b])'
  BY <1>8 DEF SeenIsSound
<1>11. QED
  BY <1>1, <1>2, <1>4, <1>6, <1>7, <1>9, <1>10 DEF StageIsSound

\* What a task or a command of a stage leaves alone: the other stages.
LEMMA Untouched ==
  ASSUME ExecutorInv, NEW x \in Batches, batch'[x] = batch[x],
         \A k \in SlotIds : call'[<<x, k>>] = call[<<x, k>>],
         \A p \in Procs : tasks'[p][x] = tasks[p][x],
         \A p \in Procs : x \in starts'[p] \cup pending_starts'[p] =>
                            x \in starts[p] \cup pending_starts[p],
         TypeInv
  PROVE  Calm(x)
<1>0. StageIsSound(x)
  BY DEF ExecutorInv
<1>1. CallsCalm(x)
  BY DEF CallsCalm
<1>2. RowCalm(x)
  BY DEF RowCalm, SameReceipt
<1>3. TasksCalm(x)
  <2>1. ASSUME NEW p \in Procs, tasks[p][x].pc \in Slotted
        PROVE  call'[<<x, tasks[p][x].slot>>].status = Waiting(tasks[p][x].pc)
    <3>1. tasks[p][x].slot \in SlotIds
      BY <2>1, SlottedTask DEF TypeInv
    <3>2. QED
      BY <1>0, <2>1, <3>1 DEF StageIsSound, WorksOnLast
  <2>2. QED
    BY <2>1 DEF TasksCalm
<1>4. Known(x)
  BY <1>0 DEF Known, StageIsSound, LiveTask
<1>5. QED
  BY <1>1, <1>2, <1>3, <1>4 DEF Calm

LEMMA CalmStep ==
  ASSUME TypeInv, ExecutorInv, \A x \in Batches : Calm(x), OwnerIsAlone'
  PROVE  ExecutorInv'
BY CalmStage DEF ExecutorInv

LEMMA OnlyStage ==
  ASSUME ExecutorInv, TypeInv, NEW b \in Batches,
         \A x \in Batches \ {b} : batch'[x] = batch[x],
         \A x \in Batches \ {b}, k \in SlotIds : call'[<<x, k>>] = call[<<x, k>>],
         \A p \in Procs, x \in Batches \ {b} : tasks'[p][x] = tasks[p][x],
         \A p \in Procs, x \in Batches \ {b} : x \in starts'[p] \cup pending_starts'[p] =>
                                                 x \in starts[p] \cup pending_starts[p],
         OwnerIsAlone', StageIsSound(b)'
  PROVE  ExecutorInv'
<1>1. ASSUME NEW x \in Batches \ {b} PROVE StageIsSound(x)'
  <2>1. Calm(x)
    BY <1>1, Untouched
  <2>2. QED
    BY <1>1, <2>1, CalmStage DEF ExecutorInv
<1>2. QED
  BY <1>1 DEF ExecutorInv

\* One task that moves; only its own process works on the stage.
LEMMA TaskAlone ==
  ASSUME OwnerIsAlone, TypeInv, NEW p \in Procs, NEW b \in Batches, NEW t,
         tasks' = [tasks EXCEPT ![p][b] = t], UNCHANGED <<acquiring, mode>>,
         ~acquiring[p] \/ t.pc \in {"idle", "loop"}
  PROVE  OwnerIsAlone'
<1>1. tasks \in [Procs -> [Batches -> TaskRows]]
  BY DEF TypeInv, TaskTypes
<1>2. \A q \in Procs, x \in Batches : tasks'[q][x] = IF q = p /\ x = b THEN t ELSE tasks[q][x]
  BY <1>1
<1>3. QED
  BY <1>2 DEF OwnerIsAlone

LEMMA TaskStep ==
  ASSUME LedgerInv, ExecutorInv, OneExecutor, NEW p \in Procs, NEW b \in Batches, NEW t,
         tasks' = [tasks EXCEPT ![p][b] = t],
         \A x \in Batches \ {b} : batch'[x] = batch[x],
         \A x \in Batches \ {b}, k \in SlotIds : call'[<<x, k>>] = call[<<x, k>>],
         CallsCalm(b), RowCalm(b), batch'[b].status # "none",
         t.pc \in Slotted => /\ tasks[p][b].pc \in Slotted /\ t.slot = tasks[p][b].slot
                             /\ call'[<<b, t.slot>>].status = Waiting(t.pc),
         t.pc \in Remembering => \/ t.pc = tasks[p][b].pc /\ t.seen = tasks[p][b].seen
                                 \/ t.seen = batch[b] /\ batch'[b] = batch[b],
         \A q \in Procs, x \in Batches \ {b} : x \in starts'[q] \cup pending_starts'[q] =>
                                                 x \in starts[q] \cup pending_starts[q],
         UNCHANGED <<acquiring, mode>>, ~acquiring[p] \/ t.pc \in {"idle", "loop"}
  PROVE  ExecutorInv'
<1>0. tasks \in [Procs -> [Batches -> TaskRows]] /\ TypeInv
  BY DEF LedgerInv, TypeInv, TaskTypes
<1>1. \A q \in Procs, x \in Batches : tasks'[q][x] = IF q = p /\ x = b THEN t ELSE tasks[q][x]
  BY <1>0
<1>2. \A q \in Procs : tasks'[q][b] = t /\ tasks[q][b] = tasks[p][b]
  BY <1>1 DEF OneExecutor
<1>3. TasksCalm(b)
  BY <1>2 DEF TasksCalm
<1>4. Calm(b)
  BY <1>3 DEF Calm, Known
<1>5. StageIsSound(b)'
  BY <1>0, <1>4, CalmStage DEF ExecutorInv
<1>6. OwnerIsAlone'
  BY <1>0, TaskAlone DEF ExecutorInv
<1>7. QED
  BY <1>0, <1>1, <1>5, <1>6, OnlyStage

\* The stage of a task exists, and nobody reconciles while it is on its way.
LEMMA LiveStage ==
  ASSUME ExecutorInv, NEW p \in Procs, NEW b \in Batches
  PROVE  /\ tasks[p][b].pc # "idle" => batch[b].status # "none"
         /\ tasks[p][b].pc \notin {"idle", "loop"} => ~acquiring[p]
         /\ mode[p] = "draining" => ~acquiring[p]
BY DEF ExecutorInv, StageIsSound, LiveTask, OwnerIsAlone

\* A task that only moves on, with the call it has or without one.
LEMMA GotoStep ==
  ASSUME LedgerInv, ExecutorInv, OneExecutor, NEW p \in Procs, NEW b \in Batches,
         NEW pc \in TaskPc, Goto(p, b, pc), tasks[p][b].pc # "idle",
         pc \notin Remembering, UNCHANGED <<batch, starts, pending_starts, acquiring, mode>>,
         CallsCalm(b), \A x \in Batches \ {b}, k \in SlotIds : call'[<<x, k>>] = call[<<x, k>>],
         pc \in Slotted => /\ tasks[p][b].pc \in Slotted
                           /\ call'[CallOf(p, b)].status = Waiting(pc),
         ~acquiring[p]
  PROVE  ExecutorInv'
<1> DEFINE t == [tasks[p][b] EXCEPT !.pc = pc]
<1>0. tasks[p][b] \in TaskRow /\ tasks \in [Procs -> [Batches -> TaskRows]]
  BY SlottedTask DEF LedgerInv, TypeInv, TaskTypes, TaskRows
<1>1. tasks' = [tasks EXCEPT ![p][b] = t] /\ t.pc = pc /\ t.slot = tasks[p][b].slot
  BY <1>0 DEF Goto, TaskRow
<1>2. batch'[b].status # "none"
  BY LiveStage
<1>3. RowCalm(b)
  BY DEF RowCalm, SameReceipt
<1> HIDE DEF t
<1>4. QED
  BY <1>1, <1>2, <1>3, TaskStep DEF CallOf

\* A task that reads the row of its stage.
LEMMA ReadStep ==
  ASSUME LedgerInv, ExecutorInv, OneExecutor, NEW p \in Procs, NEW b \in Batches, NEW t,
         tasks' = [tasks EXCEPT ![p][b] = t], t.seen = batch[b], tasks[p][b].pc # "idle",
         t.pc \in Slotted => /\ tasks[p][b].pc \in Slotted /\ t.slot = tasks[p][b].slot
                             /\ Waiting(t.pc) = Waiting(tasks[p][b].pc),
         UNCHANGED <<batch, call, starts, pending_starts, acquiring, mode>>, ~acquiring[p]
  PROVE  ExecutorInv'
<1>1. batch'[b].status # "none"
  BY LiveStage
<1>2. RowCalm(b) /\ CallsCalm(b)
  BY DEF RowCalm, SameReceipt, CallsCalm
<1>3. tasks[p][b].pc \in Slotted => call[<<b, tasks[p][b].slot>>].status = Waiting(tasks[p][b].pc)
  BY DEF ExecutorInv, StageIsSound, WorksOnLast
<1>4. QED
  BY <1>1, <1>2, <1>3, TaskStep

\* A task that ends, or begins anew.
LEMMA EndStep ==
  ASSUME LedgerInv, ExecutorInv, OneExecutor, NEW p \in Procs, NEW b \in Batches,
         EndTask(p, b), tasks[p][b].pc # "idle",
         \A x \in Batches \ {b} : batch'[x] = batch[x],
         \A x \in Batches \ {b}, k \in SlotIds : call'[<<x, k>>] = call[<<x, k>>],
         CallsCalm(b), RowCalm(b), batch'[b].status # "none",
         UNCHANGED <<starts, acquiring, mode>>
  PROVE  ExecutorInv'
<1> DEFINE t == IF b \in pending_starts[p] THEN [Idle EXCEPT !.pc = "loop"] ELSE Idle
<1>1. tasks' = [tasks EXCEPT ![p][b] = t] /\ t.pc \in {"idle", "loop"}
  BY DEF EndTask, Idle
<1>2. \A q \in Procs : pending_starts'[q] \subseteq pending_starts[q]
  BY DEF EndTask, LedgerInv, TypeInv, ControlTypes
<1> HIDE DEF t
<1>3. QED
  BY <1>1, <1>2, TaskStep DEF Slotted, Remembering

\* The flush of a remembered row that is given a status, and perhaps no next action.
LEMMA FlushCalm ==
  ASSUME ExecutorInv, NEW p \in Procs, NEW b \in Batches, tasks[p][b].pc \in Remembering,
         NEW new, new.state = tasks[p][b].seen.state, new.next \in {0, tasks[p][b].seen.next},
         new.status # "none", batch[b].status # "none",
         batch'[b] = Flush(batch[b], tasks[p][b].seen, new)
  PROVE  RowCalm(b) /\ batch'[b].status # "none"
<1> DEFINE seen == tasks[p][b].seen
<1>1. /\ batch'[b].state = new.state
      /\ batch'[b].next = Column(batch[b].next, seen.next, new.next)
      /\ batch'[b].status = Column(batch[b].status, seen.status, new.status)
  BY DEF Flush
<1>2. seen.state.done = batch[b].state.done /\ seen.state.compiled = batch[b].state.compiled
  BY DEF ExecutorInv, StageIsSound, SeenIsSound
<1>3. QED
  BY <1>1, <1>2 DEF RowCalm, SameReceipt, Column

-----------------------------------------------------------------------------
(* The life of the process.                                                *)

LEMMA StillAlone ==
  ASSUME OwnerIsAlone, UNCHANGED <<acquiring, mode, tasks>>
  PROVE  OwnerIsAlone'
BY DEF OwnerIsAlone

\* Rows, calls and tasks stay as they are, and nobody is asked to start anything.
LEMMA QuietStage ==
  ASSUME TypeInv, ExecutorInv, UNCHANGED <<batch, call, tasks>>, OwnerIsAlone',
         \A p \in Procs : starts'[p] \cup pending_starts'[p] \subseteq starts[p] \cup pending_starts[p]
  PROVE  ExecutorInv'
BY Untouched, CalmStep

LEMMA ReconcileCalm ==
  ASSUME TypeInv, ExecutorInv, NEW b \in Batches, Reconcile
  PROVE  CallsCalm(b) /\ RowCalm(b) /\ (batch'[b].status = "none" => batch[b].status = "none")
<1>1. CallsCalm(b)
  <2>1. \A k \in SlotIds : <<b, k>> \in Calls
    BY DEF Calls
  <2>2. \A c \in Calls : call[c] \in CallRow
    BY DEF TypeInv, CallTypes
  <2>3. ASSUME NEW c \in Calls
        PROVE  call'[c] = IF call[c].status = "executing"
                          THEN [call[c] EXCEPT !.status = "outcome_uncertain", !.interrupted = TRUE]
                          ELSE call[c]
    BY DEF Reconcile
  <2>4. ASSUME NEW k \in SlotIds, NEW old, old = call[<<b, k>>], NEW new, new = call'[<<b, k>>]
        PROVE  /\ new.at = old.at /\ new.action = old.action /\ new.status # "executing"
               /\ new.status = IF old.status = "executing" THEN "outcome_uncertain" ELSE old.status
    <3>1. /\ old \in CallRow
          /\ new = IF old.status = "executing"
                   THEN [old EXCEPT !.status = "outcome_uncertain", !.interrupted = TRUE] ELSE old
      BY <2>1, <2>2, <2>3, <2>4
    <3>2. QED
      BY <3>1 DEF CallRow
  <2>5. QED
    BY <2>4 DEF CallsCalm, Closed, Failures
<1>2. batch[b] \in BatchRow /\ batch'[b] = Reconciled(b)
  BY DEF Reconcile, TypeInv, BatchTypes, Rows
<1>3. QED
  BY <1>1, <1>2 DEF RowCalm, SameReceipt, Reconciled, BatchRow

LEMMA OpenServiceSound ==
  ASSUME LedgerInv, ExecutorInv, OneExecutor, NEW p \in Procs, OpenService(p)
  PROVE  ExecutorInv'
<1>0. TypeInv
  BY DEF LedgerInv
<1>1. OwnerIsAlone'
  <2>1. \A q \in Procs : acquiring'[q] => acquiring[q] /\ mode'[q] = mode[q]
    BY <1>0 DEF OpenService, TypeInv, ControlTypes
  <2>2. UNCHANGED tasks
    BY DEF OpenService
  <2>3. QED
    BY <2>1, <2>2 DEF ExecutorInv, OwnerIsAlone
<1>2. CASE UNCHANGED <<batch, call>>
  BY <1>0, <1>1, <1>2, QuietStage DEF OpenService, startVars
<1>3. CASE Reconcile
  <2> SUFFICES ASSUME NEW b \in Batches PROVE Calm(b)
    BY <1>0, <1>1, CalmStep
  <2>1. \A q \in Procs : tasks[q][b].pc \in {"idle", "loop"} /\ UNCHANGED tasks
    BY DEF OpenService, ExecutorInv, OwnerIsAlone, OneExecutor
  <2>2. TasksCalm(b)
    BY <2>1 DEF TasksCalm, Slotted, Remembering
  <2>3. CallsCalm(b) /\ RowCalm(b) /\ (batch'[b].status = "none" => batch[b].status = "none")
    BY <1>0, <1>3, ReconcileCalm
  <2>4. Known(b)
    BY <2>3 DEF OpenService, startVars, Known, ExecutorInv, StageIsSound, LiveTask
  <2>5. QED
    BY <2>2, <2>3, <2>4 DEF Calm
<1>4. QED
  BY <1>2, <1>3 DEF OpenService

LEMMA GoneSound ==
  ASSUME LedgerInv, ExecutorInv, OneExecutor, NEW p \in Procs, Gone(p),
         Reconcile \/ UNCHANGED <<batch, call>>
  PROVE  ExecutorInv'
<1>0. TypeInv
  BY DEF LedgerInv
<1>1. \A q \in Procs : /\ \A b \in Batches : tasks'[q][b].pc = "idle"
                       /\ ~acquiring'[q] /\ starts'[q] = {} /\ pending_starts'[q] = {}
  BY <1>0 DEF Gone, OneExecutor, Idle, TypeInv, TaskTypes, ControlTypes
<1>2. OwnerIsAlone'
  BY <1>1 DEF OwnerIsAlone
<1> SUFFICES ASSUME NEW b \in Batches PROVE Calm(b)
  BY <1>0, <1>2, CalmStep
<1>3. TasksCalm(b)
  BY <1>1 DEF TasksCalm, Slotted, Remembering
<1>4. CallsCalm(b) /\ RowCalm(b) /\ (batch'[b].status = "none" => batch[b].status = "none")
  BY <1>0, ReconcileCalm DEF CallsCalm, RowCalm, SameReceipt
<1>5. QED
  BY <1>1, <1>3, <1>4 DEF Calm, Known

LEMMA StartSound ==
  ASSUME LedgerInv, ExecutorInv, OneExecutor, NEW p \in Procs, NEW b \in Batches, Start(p, b)
  PROVE  ExecutorInv'
<1>0. TypeInv /\ OwnerIsAlone
  BY DEF LedgerInv, ExecutorInv
<1>1. /\ UNCHANGED <<batch, call, acquiring, mode>> /\ b \in starts[p]
      /\ \A q \in Procs : starts'[q] \subseteq starts[q]
  BY <1>0 DEF Start, dbVars, procVars, TypeInv, ControlTypes
<1>2. batch[b].status # "none"
  BY <1>1 DEF ExecutorInv, StageIsSound
<1>3. CASE UNCHANGED <<tasks, pending_starts>>
  BY <1>0, <1>1, <1>3, StillAlone, QuietStage
<1>4. CASE /\ LiveTask(p, b) /\ UNCHANGED tasks
           /\ pending_starts' = [pending_starts EXCEPT ![p] = @ \cup {b}]
  <2>1. \A q \in Procs, x \in Batches \ {b} : x \in pending_starts'[q] => x \in pending_starts[q]
    BY <1>0, <1>4 DEF TypeInv, ControlTypes
  <2>2. CallsCalm(b) /\ RowCalm(b) /\ Known(b)
    BY <1>1, <1>2 DEF CallsCalm, RowCalm, SameReceipt, Known
  <2>3. TasksCalm(b)
    BY <1>0, <1>1, <1>4 DEF TasksCalm, ExecutorInv, StageIsSound, WorksOnLast
  <2>4. StageIsSound(b)'
    BY <1>0, <2>2, <2>3, CalmStage DEF Calm, ExecutorInv
  <2>5. QED
    BY <1>0, <1>1, <1>4, <2>1, <2>4, StillAlone, OnlyStage
<1>5. CASE /\ tasks' = [tasks EXCEPT ![p][b] = [Idle EXCEPT !.pc = "loop"]]
           /\ UNCHANGED pending_starts
  <2> DEFINE t == [Idle EXCEPT !.pc = "loop"]
  <2>1. tasks' = [tasks EXCEPT ![p][b] = t] /\ t.pc = "loop"
    BY <1>5 DEF Idle
  <2>2. CallsCalm(b) /\ RowCalm(b)
    BY <1>1 DEF CallsCalm, RowCalm, SameReceipt
  <2> HIDE DEF t
  <2>3. QED
    BY <1>1, <1>2, <1>5, <2>1, <2>2, TaskStep DEF Slotted, Remembering
<1>6. QED
  BY <1>3, <1>4, <1>5 DEF Start, StartRun

LEMMA CancelSound ==
  ASSUME LedgerInv, ExecutorInv, OneExecutor, NEW p \in Procs, NEW b \in Batches, Cancel(p, b)
  PROVE  ExecutorInv'
<1>1. /\ UNCHANGED <<batch, call, starts, pending_starts, acquiring, mode>>
      /\ tasks[p][b].pc # "idle" /\ ~acquiring[p]
  BY LiveStage DEF Cancel, dbVars, procVars, startVars, LiveTask
<1>2. CallsCalm(b) /\ RowCalm(b)
  BY <1>1 DEF CallsCalm, RowCalm, SameReceipt
<1>3. CASE tasks' = [tasks EXCEPT ![p][b] = Idle]
  <2>1. Idle.pc = "idle" /\ batch'[b].status # "none"
    BY <1>1, LiveStage DEF Idle
  <2>2. QED
    BY <1>1, <1>2, <1>3, <2>1, TaskStep DEF Slotted, Remembering
<1>4. CASE Goto(p, b, "fail")
  BY <1>1, <1>2, <1>4, GotoStep DEF TaskPc, Slotted, Remembering
<1>5. CASE Goto(p, b, "unknown") /\ tasks[p][b].pc \in {"send", "flight"}
  <2>1. call[CallOf(p, b)].status = "executing"
    BY <1>5 DEF ExecutorInv, StageIsSound, WorksOnLast, Slotted, Waiting, CallOf
  <2>2. QED
    BY <1>1, <1>2, <1>5, <2>1, GotoStep DEF TaskPc, Slotted, Remembering, Waiting
<1>6. QED
  BY <1>3, <1>4, <1>5 DEF Cancel, CancelPc

\* A stored answer waits for its compilation; what was closed stays closed.
LEMMA PersistCalm ==
  ASSUME LedgerInv, NEW b \in Batches, NEW k \in SlotIds, Bindable(<<b, k>>), Persist(<<b, k>>)
  PROVE  /\ CallsCalm(b)
         /\ \A x \in Batches \ {b}, j \in SlotIds : call'[<<x, j>>] = call[<<x, j>>]
         /\ call[<<b, k>>].response = "none" => call'[<<b, k>>].status = "response_saved"
<1>1. call \in [Calls -> CallRow] /\ <<b, k>> \in Calls
  BY DEF LedgerInv, TypeInv, CallTypes, Calls
<1>2. CASE call[<<b, k>>].response # "none"
  BY <1>2 DEF Persist, CallsCalm
<1>3. CASE call[<<b, k>>].response = "none"
  <2> DEFINE new == [call[<<b, k>>] EXCEPT !.response = got[<<b, k>>], !.status = "response_saved"]
  <2>1. call' = [call EXCEPT ![<<b, k>>] = new]
    BY <1>1, <1>3 DEF Persist, CallRow
  <2>2. new.status = "response_saved" /\ new.at = call[<<b, k>>].at
        /\ new.action = call[<<b, k>>].action
    BY <1>1 DEF CallRow
  <2>3. call[<<b, k>>].status \in {"executing", "outcome_uncertain"}
    BY <1>3 DEF Bindable
  <2> HIDE DEF new
  <2>4. call'[<<b, k>>] = new /\ \A j \in SlotIds \ {k} : call'[<<b, j>>] = call[<<b, j>>]
    BY <1>1, <2>1 DEF Calls
  <2>5. CallsCalm(b)
    BY <2>2, <2>3, <2>4 DEF CallsCalm, Closed, Failures
  <2>6. \A x \in Batches \ {b}, j \in SlotIds : call'[<<x, j>>] = call[<<x, j>>]
    BY <1>1, <2>1 DEF Calls
  <2>7. QED
    BY <2>2, <2>4, <2>5, <2>6
<1>4. QED
  BY <1>2, <1>3

LEMMA RecoverSound ==
  ASSUME LedgerInv, ExecutorInv, OneExecutor, NEW p \in Procs, NEW c \in Calls, Recover(p, c)
  PROVE  ExecutorInv'
<1>0. TypeInv /\ OwnerIsAlone
  BY DEF LedgerInv, ExecutorInv
<1>1. PICK b \in Batches, k \in SlotIds : c = <<b, k>>
  BY DEF Calls
<1>2. /\ CallsCalm(b)
      /\ \A x \in Batches \ {b}, j \in SlotIds : call'[<<x, j>>] = call[<<x, j>>]
  BY <1>1, PersistCalm DEF Recover
<1>3. \A q \in Procs : tasks[q][b].pc = "idle"
  BY <1>1 DEF Recover, LiveTask, OneExecutor
<1>4. UNCHANGED <<tasks, starts, pending_starts, acquiring, mode>>
  BY DEF Recover, startVars, procVars
<1>5. /\ \A x \in Batches \ {b} : batch'[x] = batch[x]
      /\ RowCalm(b) /\ (batch'[b].status = "none" => batch[b].status = "none")
  <2>1. batch \in [Batches -> BatchRow]
    BY <1>0 DEF TypeInv, BatchTypes, Rows
  <2>2. CASE UNCHANGED batch
    BY <2>2 DEF RowCalm, SameReceipt
  <2>3. CASE batch' = [batch EXCEPT ![b].pause = TRUE, ![b].status = "needs_attention",
                                    ![b].next = 0]
    BY <2>1, <2>3 DEF RowCalm, SameReceipt, BatchRow
  <2>4. QED
    BY <1>1, <2>2, <2>3 DEF Recover
<1>6. TasksCalm(b)
  BY <1>3, <1>4 DEF TasksCalm, Slotted, Remembering
<1>7. Known(b)
  BY <1>4, <1>5 DEF Known, ExecutorInv, StageIsSound, LiveTask
<1>8. StageIsSound(b)'
  BY <1>0, <1>2, <1>5, <1>6, <1>7, CalmStage DEF Calm, ExecutorInv
<1>9. QED
  BY <1>0, <1>2, <1>4, <1>5, <1>8, StillAlone, OnlyStage

LEMMA ProcessSound ==
  ASSUME LedgerInv, ExecutorInv, OneExecutor, NEW p \in Procs, Process(p)
  PROVE  ExecutorInv'
<1>0. TypeInv /\ OwnerIsAlone
  BY DEF LedgerInv, ExecutorInv
<1>1. CASE Boot(p) \/ AcquireOwner(p) \/ Drain(p)
  <2>1. OwnerIsAlone'
    BY <1>0, <1>1
       DEF Boot, AcquireOwner, Drain, OwnerIsAlone, LiveTasks, LiveTask, TypeInv, ControlTypes
  <2>2. \A q \in Procs : starts'[q] \cup pending_starts'[q] \subseteq starts[q] \cup pending_starts[q]
    BY <1>0, <1>1 DEF Boot, AcquireOwner, Drain, startVars, TypeInv, ControlTypes
  <2>3. QED
    BY <1>0, <1>1, <2>1, <2>2, QuietStage DEF Boot, AcquireOwner, Drain, dbVars
<1>2. CASE DiscardOwner(p) \/ LoseOwner(p)
  BY <1>0, <1>2, StillAlone, QuietStage DEF DiscardOwner, LoseOwner, dbVars, startVars
<1>3. CASE Crash(p) \/ Close(p)
  BY <1>3, GoneSound DEF Crash, Close
<1>4. QED
  BY <1>1, <1>2, <1>3, OpenServiceSound, StartSound, CancelSound, RecoverSound DEF Process

-----------------------------------------------------------------------------
(* The steps of a task that claim and complete nothing.                    *)

\* What holds of the call of a task at work.
LEMMA WorkingCall ==
  ASSUME LedgerInv, ExecutorInv, NEW p \in Procs, NEW b \in Batches, tasks[p][b].pc \in Slotted
  PROVE  /\ tasks[p][b].slot \in SlotIds /\ CallOf(p, b) = <<b, tasks[p][b].slot>>
         /\ CallOf(p, b) \in Calls /\ tasks[p][b].slot \in ClaimedSlots(b)
         /\ call[CallOf(p, b)].status = Waiting(tasks[p][b].pc)
         /\ IsLast(b, tasks[p][b].slot)
<1>1. /\ tasks[p][b].slot \in SlotIds /\ CallOf(p, b) = <<b, tasks[p][b].slot>>
      /\ CallOf(p, b) \in Calls
  BY SlottedTask DEF LedgerInv, TypeInv, CallOf
<1>2. call[CallOf(p, b)].status = Waiting(tasks[p][b].pc) /\ IsLast(b, tasks[p][b].slot)
  BY <1>1 DEF ExecutorInv, StageIsSound, WorksOnLast
<1>3. QED
  BY <1>1, <1>2 DEF Waiting, ClaimedSlots

LEMMA MovingSound ==
  ASSUME LedgerInv, ExecutorInv, OneExecutor, NEW p \in Procs, NEW b \in Batches,
         \/ ClaimRefused(p, b) \/ SendRefused(p, b) \/ Send(p, b)
         \/ \E reply \in Replies : Receive(p, b, reply)
         \/ NoAnswer(p, b) \/ SaveJournal(p, b) \/ Forget(p, b) \/ CompileRaises(p, b)
         \/ FinishErrorFails(p, b)
  PROVE  ExecutorInv'
<1>1. /\ UNCHANGED <<batch, call, starts, pending_starts, acquiring, mode>>
      /\ tasks[p][b].pc \notin {"idle", "loop"} /\ ~acquiring[p]
  <2>1. /\ UNCHANGED <<batch, call, starts, pending_starts, acquiring, mode>>
        /\ tasks[p][b].pc \notin {"idle", "loop"}
    BY DEF ClaimRefused, Claiming, SendRefused, Send, Receive, NoAnswer, SaveJournal, Forget,
           CompileRaises, FinishErrorFails, dbVars, procVars, startVars, At
  <2>2. QED
    BY <2>1, LiveStage
<1>2. CallsCalm(b)
  BY <1>1 DEF CallsCalm
<1>3. \/ Goto(p, b, "fail")
      \/ \E pc \in {"flight", "unknown", "refused", "journal", "store", "check"} :
           /\ Goto(p, b, pc)
           /\ tasks[p][b].pc \in Slotted /\ Waiting(pc) = Waiting(tasks[p][b].pc)
  BY DEF ClaimRefused, Claiming, SendRefused, Send, Receive, NoAnswer, SaveJournal, Forget,
         CompileRaises, FinishErrorFails, At, Slotted, Waiting
<1>4. CASE Goto(p, b, "fail")
  BY <1>1, <1>2, <1>4, GotoStep DEF TaskPc, Slotted, Remembering
<1>5. ASSUME NEW pc \in {"flight", "unknown", "refused", "journal", "store", "check"},
             Goto(p, b, pc), tasks[p][b].pc \in Slotted, Waiting(pc) = Waiting(tasks[p][b].pc)
      PROVE  ExecutorInv'
  <2>1. call'[CallOf(p, b)].status = Waiting(pc)
    BY <1>1, <1>5, WorkingCall
  <2>2. pc \in TaskPc /\ pc \notin Remembering
    BY <1>5 DEF TaskPc, Remembering
  <2>3. QED
    BY <1>1, <1>2, <1>5, <2>1, <2>2, GotoStep
<1>6. QED
  BY <1>3, <1>4, <1>5

LEMMA ReadingSound ==
  ASSUME LedgerInv, ExecutorInv, OneExecutor, NEW p \in Procs, NEW b \in Batches,
         \/ ClaimRead(p, b) \/ CompileRead(p, b) \/ FailRead(p, b) \/ FinishErrorRead(p, b)
  PROVE  ExecutorInv'
<1>0. tasks[p][b] \in TaskRow /\ tasks \in [Procs -> [Batches -> TaskRows]]
  BY SlottedTask DEF LedgerInv, TypeInv, TaskTypes, TaskRows
<1>1. /\ UNCHANGED <<batch, call, starts, acquiring, mode>>
      /\ tasks[p][b].pc # "idle" /\ ~acquiring[p]
  <2>1. UNCHANGED <<batch, call, starts, acquiring, mode>> /\ tasks[p][b].pc # "idle"
    BY DEF ClaimRead, CompileRead, FailRead, FinishErrorRead, ErrorRead, dbVars, procVars,
           startVars, At
  <2>2. ~acquiring[p]
    BY LiveStage DEF ClaimRead, CompileRead, FailRead, FinishErrorRead, ErrorRead, At
  <2>3. QED
    BY <2>1, <2>2
<1>2. CallsCalm(b) /\ RowCalm(b) /\ batch'[b].status # "none"
  BY <1>1, LiveStage DEF CallsCalm, RowCalm, SameReceipt
<1>3. CASE EndTask(p, b)
  BY <1>1, <1>2, <1>3, EndStep
<1>4. CASE Goto(p, b, "fail") /\ UNCHANGED pending_starts
  BY <1>1, <1>2, <1>4, GotoStep DEF TaskPc, Slotted, Remembering
<1>5. ASSUME UNCHANGED pending_starts, NEW t, tasks' = [tasks EXCEPT ![p][b] = t],
             t.seen = batch[b], t.slot = tasks[p][b].slot,
             \/ t.pc = "claim"
             \/ /\ t.pc \in Slotted /\ tasks[p][b].pc \in Slotted
                /\ Waiting(t.pc) = Waiting(tasks[p][b].pc)
      PROVE  ExecutorInv'
  BY <1>1, <1>5, ReadStep DEF Slotted
<1>6. CASE ClaimRead(p, b)
  <2>1. CASE tasks' = [tasks EXCEPT ![p][b].pc = "claim", ![p][b].seen = batch[b]]
             /\ UNCHANGED startVars
    <3> DEFINE t == [tasks[p][b] EXCEPT !.pc = "claim", !.seen = batch[b]]
    <3>1. /\ tasks' = [tasks EXCEPT ![p][b] = t] /\ t.seen = batch[b] /\ t.pc = "claim"
          /\ t.slot = tasks[p][b].slot
      BY <1>0, <2>1 DEF TaskRow
    <3> HIDE DEF t
    <3>2. QED
      BY <1>5, <2>1, <3>1 DEF startVars
  <2>2. QED
    BY <1>3, <1>4, <1>6, <2>1 DEF ClaimRead
<1>7. CASE CompileRead(p, b)
  <2>1. CASE tasks' = [tasks EXCEPT ![p][b].pc = "compile", ![p][b].seen = batch[b],
                                    ![p][b].callStatus = call[CallOf(p, b)].status]
    <3> DEFINE t == [tasks[p][b] EXCEPT !.pc = "compile", !.seen = batch[b],
                                        !.callStatus = call[CallOf(p, b)].status]
    <3>1. /\ tasks' = [tasks EXCEPT ![p][b] = t] /\ t.seen = batch[b] /\ t.pc = "compile"
          /\ t.slot = tasks[p][b].slot
      BY <1>0, <2>1 DEF TaskRow
    <3> HIDE DEF t
    <3>2. tasks[p][b].pc = "check" /\ UNCHANGED pending_starts
      BY <1>7 DEF CompileRead, At, startVars
    <3>3. QED
      BY <1>5, <3>1, <3>2 DEF Slotted, Waiting
  <2>2. QED
    BY <1>4, <1>7, <2>1 DEF CompileRead, startVars
<1>8. CASE FailRead(p, b)
  <2> DEFINE t == [Idle EXCEPT !.pc = "fail_write", !.seen = batch[b]]
  <2>1. tasks' = [tasks EXCEPT ![p][b] = t] /\ t.seen = batch[b] /\ t.pc = "fail_write"
    BY <1>8 DEF FailRead, Idle
  <2> HIDE DEF t
  <2>2. UNCHANGED pending_starts
    BY <1>8 DEF FailRead, startVars
  <2>3. QED
    BY <1>1, <2>1, <2>2, ReadStep DEF Slotted
<1>9. CASE FinishErrorRead(p, b)
  <2>1. PICK from \in {"refused", "unknown"}, to \in {"refused_write", "unknown_write"} :
          ErrorRead(p, b, from, to)
    BY <1>9 DEF FinishErrorRead
  <2> DEFINE t == [tasks[p][b] EXCEPT !.pc = to, !.seen = batch[b],
                                      !.callStatus = call[CallOf(p, b)].status]
  <2>2. /\ tasks' = [tasks EXCEPT ![p][b] = t] /\ t.seen = batch[b] /\ t.pc = to
        /\ t.slot = tasks[p][b].slot
    BY <1>0, <2>1 DEF ErrorRead, TaskRow
  <2> HIDE DEF t
  <2>3. tasks[p][b].pc = from /\ UNCHANGED pending_starts
    BY <2>1 DEF ErrorRead, At, startVars
  <2>4. QED
    BY <1>5, <2>2, <2>3 DEF Slotted, Waiting
<1>10. QED
  BY <1>6, <1>7, <1>8, <1>9

LEMMA StoreSound ==
  ASSUME LedgerInv, ExecutorInv, OneExecutor, NEW p \in Procs, NEW b \in Batches, Store(p, b)
  PROVE  ExecutorInv'
<1> DEFINE k == tasks[p][b].slot
<1>1. /\ UNCHANGED <<batch, starts, pending_starts, acquiring, mode>>
      /\ tasks[p][b].pc = "store" /\ ~acquiring[p]
  BY LiveStage DEF Store, At, procVars, startVars
<1>2. /\ k \in SlotIds /\ CallOf(p, b) = <<b, k>> /\ k \in ClaimedSlots(b)
      /\ call[<<b, k>>].status = "executing"
  BY <1>1, WorkingCall DEF Slotted, Waiting
<1>3. call[<<b, k>>].response = "none"
  BY <1>2 DEF ExecutorInv, StageIsSound, CallsInOrder
<1> HIDE DEF k
<1>4. CASE UNCHANGED call /\ Goto(p, b, "fail")
  BY <1>1, <1>4, GotoStep DEF CallsCalm, TaskPc, Slotted, Remembering
<1>5. CASE Bindable(<<b, k>>) /\ Persist(<<b, k>>)
           /\ (Goto(p, b, "forget") \/ Goto(p, b, "fail"))
  <2>1. /\ CallsCalm(b)
        /\ \A x \in Batches \ {b}, j \in SlotIds : call'[<<x, j>>] = call[<<x, j>>]
        /\ call'[<<b, k>>].status = "response_saved"
    BY <1>2, <1>3, <1>5, PersistCalm
  <2>2. CASE Goto(p, b, "fail")
    BY <1>1, <2>1, <2>2, GotoStep DEF TaskPc, Slotted, Remembering
  <2>3. CASE Goto(p, b, "forget")
    BY <1>1, <1>2, <2>1, <2>3, GotoStep DEF TaskPc, Slotted, Remembering, Waiting
  <2>4. QED
    BY <1>5, <2>2, <2>3
<1>6. QED
  BY <1>2, <1>4, <1>5 DEF Store

LEMMA WritingSound ==
  ASSUME LedgerInv, ExecutorInv, OneExecutor, NEW p \in Procs, NEW b \in Batches,
         ClaimNothing(p, b) \/ ClaimTooLarge(p, b) \/ FailWrite(p, b) \/ FinishError(p, b)
  PROVE  ExecutorInv'
<1> DEFINE seen == tasks[p][b].seen
<1>0. /\ batch \in [Batches -> BatchRow] /\ seen \in BatchRow /\ call \in [Calls -> CallRow]
  BY SlottedTask DEF LedgerInv, TypeInv, BatchTypes, Rows, CallTypes
<1>1. /\ EndTask(p, b) /\ tasks[p][b].pc \in Remembering /\ tasks[p][b].pc # "idle"
      /\ UNCHANGED <<starts, acquiring, mode>> /\ batch[b].status # "none"
  <2>1. tasks[p][b].pc \in Remembering /\ tasks[p][b].pc # "idle"
    BY DEF ClaimNothing, ClaimTooLarge, Claiming, FailWrite, FinishError, ErrorWrite, At,
           Remembering
  <2>2. EndTask(p, b) /\ UNCHANGED <<starts, acquiring, mode>>
    BY DEF ClaimNothing, ClaimTooLarge, FailWrite, FinishError, ErrorWrite, procVars
  <2>3. QED
    BY <2>1, <2>2, LiveStage
<1>2. CASE UNCHANGED batch /\ UNCHANGED call
  <2>1. CallsCalm(b) /\ RowCalm(b)
    BY <1>2 DEF CallsCalm, RowCalm, SameReceipt
  <2>2. QED
    BY <1>1, <1>2, <2>1, EndStep
<1>3. ASSUME NEW new, new.state = seen.state, new.next \in {0, seen.next}, new.status # "none",
             batch' = [batch EXCEPT ![b] = Flush(@, seen, new)], CallsCalm(b),
             \A x \in Batches \ {b}, k \in SlotIds : call'[<<x, k>>] = call[<<x, k>>]
      PROVE  ExecutorInv'
  <2>1. batch'[b] = Flush(batch[b], seen, new) /\ \A x \in Batches \ {b} : batch'[x] = batch[x]
    BY <1>0, <1>3
  <2>2. RowCalm(b) /\ batch'[b].status # "none"
    BY <1>1, <1>3, <2>1, FlushCalm
  <2>3. QED
    BY <1>1, <1>3, <2>1, <2>2, EndStep
<1>4. CASE ClaimNothing(p, b)
  <2>1. UNCHANGED call
    BY <1>4 DEF ClaimNothing
  <2>2. CASE batch' = [batch EXCEPT ![b].status = Column(@, seen.status, "paused")]
    <3>1. RowCalm(b) /\ batch'[b].status # "none" /\ \A x \in Batches \ {b} : batch'[x] = batch[x]
      BY <1>0, <1>1, <2>2 DEF RowCalm, SameReceipt, BatchRow, Column
    <3>2. CallsCalm(b)
      BY <2>1 DEF CallsCalm
    <3>3. QED
      BY <1>1, <2>1, <3>1, <3>2, EndStep
  <2>3. QED
    BY <1>2, <1>4, <2>1, <2>2 DEF ClaimNothing
<1>5. CASE ClaimTooLarge(p, b)
  <2> DEFINE new == [seen EXCEPT !.status = "needs_attention"]
  <2>1. new.state = seen.state /\ new.next = seen.next /\ new.status = "needs_attention"
    BY <1>0 DEF BatchRow
  <2>2. batch' = [batch EXCEPT ![b] = Flush(@, seen, new)] /\ UNCHANGED call
    BY <1>5 DEF ClaimTooLarge
  <2> HIDE DEF new
  <2>3. QED
    BY <1>3, <2>1, <2>2 DEF CallsCalm
<1>6. CASE FailWrite(p, b)
  <2> DEFINE new == [seen EXCEPT !.status = "needs_attention", !.next = 0]
  <2>1. new.state = seen.state /\ new.next = 0 /\ new.status = "needs_attention"
    BY <1>0 DEF BatchRow
  <2>2. UNCHANGED call
    BY <1>6 DEF FailWrite
  <2>3. \/ UNCHANGED batch
        \/ batch' = [batch EXCEPT ![b] = Flush(@, seen, new)]
    BY <1>0, <1>6 DEF FailWrite, NeedsAttention
  <2> HIDE DEF new
  <2>4. QED
    BY <1>2, <1>3, <2>1, <2>2, <2>3 DEF CallsCalm
<1>7. CASE FinishError(p, b)
  <2>1. PICK pc \in {"refused_write", "unknown_write"},
             callStatus \in {"not_dispatched", "outcome_uncertain"},
             batchStatus \in {"failed", "outcome_uncertain"} :
               ErrorWrite(p, b, pc, callStatus, batchStatus)
    BY <1>7 DEF FinishError
  <2>2. /\ tasks[p][b].slot \in SlotIds /\ CallOf(p, b) = <<b, tasks[p][b].slot>>
        /\ CallOf(p, b) \in Calls /\ call[CallOf(p, b)].status = "executing"
    BY <2>1, WorkingCall DEF ErrorWrite, At, Slotted, Waiting
  <2>3. /\ CallsCalm(b)
        /\ \A x \in Batches \ {b}, k \in SlotIds : call'[<<x, k>>] = call[<<x, k>>]
    <3> DEFINE c == CallOf(p, b)
               status == Column(call[c].status, tasks[p][b].callStatus, callStatus)
               other == [call[c] EXCEPT !.status = status, !.interrupted = FALSE]
    <3>1. status \in {"executing", "not_dispatched", "outcome_uncertain"}
      BY <2>2 DEF Column
    <3>2. call' = [call EXCEPT ![c] = other]
      BY <1>0, <2>1, <2>2 DEF ErrorWrite, CallRow
    <3> HIDE DEF status
    <3>3. /\ other.status = status /\ other.at = call[c].at /\ other.action = call[c].action
          /\ other.response = call[c].response
      BY <1>0, <2>2 DEF CallRow
    <3> HIDE DEF other
    <3>4. \A d \in Calls : call'[d] = IF d = c THEN other ELSE call[d]
      BY <1>0, <3>2
    <3>5. \A x \in Batches, k \in SlotIds : <<x, k>> \in Calls
      BY DEF Calls
    <3>6. CallsCalm(b)
      BY <2>2, <3>1, <3>3, <3>4, <3>5 DEF CallsCalm, Closed, Failures
    <3>7. QED
      BY <2>2, <3>4, <3>5, <3>6
  <2> DEFINE new == [seen EXCEPT !.status = batchStatus, !.next = 0]
  <2>4. new.state = seen.state /\ new.next = 0 /\ new.status = batchStatus
    BY <1>0 DEF BatchRow
  <2>5. \/ UNCHANGED batch
        \/ batch' = [batch EXCEPT ![b] = Flush(@, seen, new)]
    BY <1>0, <2>1 DEF ErrorWrite, Errored
  <2> HIDE DEF new
  <2>6. CASE UNCHANGED batch
    <3>1. RowCalm(b) /\ batch'[b].status # "none"
      BY <1>1, <2>6 DEF RowCalm, SameReceipt
    <3>2. QED
      BY <1>1, <2>3, <2>6, <3>1, EndStep
  <2>7. QED
    BY <1>3, <2>3, <2>4, <2>5, <2>6
<1>8. QED
  BY <1>4, <1>5, <1>6, <1>7

-----------------------------------------------------------------------------
(* The commands of the author.                                             *)

\* A calm command, which changes one stage and moves no task.
LEMMA CommandStep ==
  ASSUME LedgerInv, ExecutorInv, NEW b \in Batches, UNCHANGED <<tasks, acquiring, mode>>,
         \A x \in Batches \ {b} : batch'[x] = batch[x],
         \A x \in Batches \ {b}, k \in SlotIds : call'[<<x, k>>] = call[<<x, k>>],
         \A p \in Procs, x \in Batches \ {b} : x \in starts'[p] \cup pending_starts'[p] =>
                                                 x \in starts[p] \cup pending_starts[p],
         CallsCalm(b), RowCalm(b), batch'[b].status # "none",
         \A p \in Procs : tasks[p][b].pc \in Slotted =>
           call'[<<b, tasks[p][b].slot>>].status = call[<<b, tasks[p][b].slot>>].status
  PROVE  ExecutorInv'
<1>0. TypeInv /\ OwnerIsAlone
  BY DEF LedgerInv, ExecutorInv
<1>1. TasksCalm(b)
  BY DEF TasksCalm, ExecutorInv, StageIsSound, WorksOnLast
<1>2. StageIsSound(b)'
  BY <1>0, <1>1, CalmStage DEF Calm, Known, ExecutorInv
<1>3. QED
  BY <1>0, <1>2, StillAlone, OnlyStage

\* ... and one that leaves the calls alone.
LEMMA RowStep ==
  ASSUME LedgerInv, ExecutorInv, NEW b \in Batches, NEW row,
         batch' = [batch EXCEPT ![b] = row], UNCHANGED <<call, tasks, acquiring, mode>>,
         \A p \in Procs, x \in Batches \ {b} : x \in starts'[p] \cup pending_starts'[p] =>
                                                 x \in starts[p] \cup pending_starts[p],
         row.status # "none", row.next \in {0, batch[b].next},
         row.state.done = batch[b].state.done, row.state.compiled = batch[b].state.compiled,
         SameReceipt(row, batch[b])
  PROVE  ExecutorInv'
<1>1. batch'[b] = row /\ \A x \in Batches \ {b} : batch'[x] = batch[x]
  BY DEF LedgerInv, TypeInv, BatchTypes
<1>2. CallsCalm(b) /\ RowCalm(b)
  BY <1>1 DEF CallsCalm, RowCalm
<1>3. QED
  BY <1>1, <1>2, CommandStep

\* No task is started but of one stage.
NothingElseStarts(b) ==
  \A q \in Procs, x \in Batches \ {b} : x \in starts'[q] \cup pending_starts'[q] =>
                                            x \in starts[q] \cup pending_starts[q]

LEMMA AuthorizedStarts ==
  ASSUME LedgerInv, NEW p \in Procs, NEW b \in Batches, NEW row, NEW calls,
         Authorized(p, b, row, calls)
  PROVE  NothingElseStarts(b)
<1>1. starts \in [Procs -> SUBSET Batches]
  BY DEF LedgerInv, TypeInv, ControlTypes
<1>2. /\ \A q \in Procs : starts'[q] = IF q = p THEN starts[q] \cup {b} ELSE starts[q]
      /\ UNCHANGED pending_starts
  BY <1>1 DEF Authorized
<1>3. QED
  BY <1>2 DEF NothingElseStarts

LEMMA CalmCommandSound ==
  ASSUME LedgerInv, ExecutorInv, NEW p \in Procs, NEW b \in Batches,
         Authorize(p, b) \/ Pause(p, b) \/ EditCandidate(p, b)
  PROVE  ExecutorInv'
<1>0. batch \in [Batches -> BatchRow] /\ batch[b] \in BatchRow /\ batch[b].state \in State
  BY DEF LedgerInv, TypeInv, BatchTypes, Rows, BatchRow
<1>1. UNCHANGED <<acquiring, mode>>
  BY DEF Authorize, Pause, EditCandidate, procVars
<1>2. CASE Authorize(p, b)
  <2> DEFINE row == [batch[b] EXCEPT !.authorized = TRUE, !.pause = FALSE, !.status = "queued"]
  <2>1. /\ row.status = "queued" /\ row.next = batch[b].next /\ row.state = batch[b].state
    BY <1>0 DEF BatchRow
  <2>2. /\ batch' = [batch EXCEPT ![b] = row] /\ UNCHANGED <<call, tasks>>
        /\ \A q \in Procs, x \in Batches \ {b} : x \in starts'[q] \cup pending_starts'[q] =>
                                                   x \in starts[q] \cup pending_starts[q]
    <3>1. batch' = [batch EXCEPT ![b] = row] /\ UNCHANGED <<call, tasks>>
      BY <1>2 DEF Authorize, Authorized
    <3>2. NothingElseStarts(b)
      BY <1>2, AuthorizedStarts DEF Authorize
    <3>3. QED
      BY <3>1, <3>2 DEF NothingElseStarts
  <2> HIDE DEF row
  <2>3. QED
    BY <1>1, <2>1, <2>2, RowStep DEF SameReceipt
<1>3. CASE Pause(p, b)
  <2> DEFINE row == [batch[b] EXCEPT !.pause = TRUE,
                                     !.status = IF @ = "queued" THEN "paused" ELSE @]
  <2>1. row.status # "none" /\ row.next = batch[b].next /\ row.state = batch[b].state
    BY <1>0, <1>3 DEF BatchRow, Pause
  <2>2. batch' = [batch EXCEPT ![b] = row] /\ UNCHANGED <<call, tasks, starts, pending_starts>>
    BY <1>0, <1>3 DEF Pause, startVars
  <2> HIDE DEF row
  <2>3. QED
    BY <1>1, <2>1, <2>2, RowStep DEF SameReceipt
<1>4. CASE EditCandidate(p, b)
  <2> DEFINE state == [batch[b].state EXCEPT !.text = "frozen", !.rewritten = TRUE, !.rev = @ + 1]
             row   == [batch[b] EXCEPT !.status = "needs_attention", !.next = 0, !.state = state]
  <2>1. /\ state.done = batch[b].state.done /\ state.compiled = batch[b].state.compiled
        /\ state.failed = batch[b].state.failed /\ state.replacement = batch[b].state.replacement
    BY <1>0 DEF State
  <2>2. batch' = [batch EXCEPT ![b] = row]
    BY <1>0, <1>4 DEF EditCandidate, BatchRow, State
  <2>3. UNCHANGED <<call, tasks, starts, pending_starts>>
    BY <1>4 DEF EditCandidate, startVars
  <2> HIDE DEF state
  <2>4. row.status = "needs_attention" /\ row.next = 0 /\ row.state = state
    BY <1>0 DEF BatchRow
  <2> HIDE DEF row
  <2>5. QED
    BY <1>1, <2>1, <2>2, <2>3, <2>4, RowStep DEF SameReceipt
<1>5. QED
  BY <1>2, <1>3, <1>4

\* Closing the unknown calls of a stage, which has none executing.
LEMMA ResolveUnknownSound ==
  ASSUME LedgerInv, ExecutorInv, NEW p \in Procs, NEW b \in Batches, ResolveUnknown(p, b)
  PROVE  ExecutorInv'
<1>0. /\ batch \in [Batches -> BatchRow] /\ batch[b] \in BatchRow /\ call \in [Calls -> CallRow]
      /\ \A x \in Batches, k \in SlotIds : <<x, k>> \in Calls
  BY DEF LedgerInv, TypeInv, BatchTypes, Rows, CallTypes, Calls
<1>1. UNCHANGED <<tasks, starts, pending_starts, acquiring, mode>>
  BY DEF ResolveUnknown, procVars, startVars
<1>2. \A c \in Calls : call'[c] = IF c[1] = b /\ call[c].status = "outcome_uncertain"
                                  THEN [call[c] EXCEPT !.status = "uncertain_closed"] ELSE call[c]
  BY DEF ResolveUnknown
<1>3. CallsCalm(b) /\ \A x \in Batches \ {b}, k \in SlotIds : call'[<<x, k>>] = call[<<x, k>>]
  <2>1. ASSUME NEW k \in SlotIds, NEW old, old = call[<<b, k>>], NEW new, new = call'[<<b, k>>]
        PROVE  /\ new.at = old.at /\ new.action = old.action /\ new.response = old.response
               /\ new.status = IF old.status = "outcome_uncertain" THEN "uncertain_closed"
                               ELSE old.status
    <3>1. /\ old \in CallRow
          /\ new = IF old.status = "outcome_uncertain"
                   THEN [old EXCEPT !.status = "uncertain_closed"] ELSE old
      BY <1>0, <1>2, <2>1
    <3>2. QED
      BY <3>1 DEF CallRow
  <2>2. CallsCalm(b)
    BY <2>1 DEF CallsCalm, Closed, Failures
  <2>3. QED
    BY <1>0, <1>2, <2>2
<1>4. ASSUME NEW q \in Procs, tasks[q][b].pc \in Slotted
      PROVE  call'[<<b, tasks[q][b].slot>>].status = call[<<b, tasks[q][b].slot>>].status
  <2>1. <<b, tasks[q][b].slot>> \in Calls
        /\ call[<<b, tasks[q][b].slot>>].status = Waiting(tasks[q][b].pc)
    BY <1>4, WorkingCall
  <2>2. QED
    BY <1>2, <2>1 DEF Waiting
<1> DEFINE row == [batch[b] EXCEPT !.status = "needs_attention", !.next = 0, !.authorized = FALSE]
<1>5. row.status = "needs_attention" /\ row.next = 0 /\ row.state = batch[b].state
  BY <1>0 DEF BatchRow
<1>6. batch' = [batch EXCEPT ![b] = row]
  BY <1>0 DEF ResolveUnknown
<1> HIDE DEF row
<1>7. /\ RowCalm(b) /\ batch'[b].status # "none"
      /\ \A x \in Batches \ {b} : batch'[x] = batch[x]
  BY <1>0, <1>5, <1>6 DEF RowCalm, SameReceipt
<1>8. QED
  BY <1>1, <1>3, <1>4, <1>7, CommandStep

\* Adoption changes statuses and takes next actions away.
LEMMA AdoptSound ==
  ASSUME LedgerInv, ExecutorInv, NEW p \in Procs, NEW b \in Batches, Adopt(p, b)
  PROVE  ExecutorInv'
<1>0. batch \in [Batches -> BatchRow] /\ TypeInv /\ OwnerIsAlone
  BY DEF LedgerInv, TypeInv, BatchTypes, Rows, ExecutorInv
<1>1. UNCHANGED <<call, tasks, starts, pending_starts, acquiring, mode>>
  BY DEF Adopt, procVars, startVars
<1> SUFFICES ASSUME NEW x \in Batches PROVE Calm(x)
  BY <1>0, <1>1, StillAlone, CalmStep
<1>2. /\ batch'[x].state = batch[x].state /\ batch'[x].next \in {0, batch[x].next}
      /\ batch'[x].status = "none" => batch[x].status = "none"
  BY <1>0 DEF Adopt, BatchRow
<1>3. RowCalm(x) /\ CallsCalm(x)
  BY <1>1, <1>2 DEF RowCalm, SameReceipt, CallsCalm
<1>4. TasksCalm(x)
  BY <1>1 DEF TasksCalm, ExecutorInv, StageIsSound, WorksOnLast,
              Remembering
<1>5. Known(x)
  BY <1>1, <1>2 DEF Known, ExecutorInv, StageIsSound, LiveTask
<1>6. QED
  BY <1>3, <1>4, <1>5 DEF Calm

\* A new stage begins at its first action; it has no calls, and nobody works on it.
LEMMA CreateSound ==
  ASSUME LedgerInv, ExecutorInv, NEW p \in Procs, NEW b \in Batches, NEW replace \in BOOLEAN,
         Create(p, b, replace)
  PROVE  ExecutorInv'
<1>0. batch \in [Batches -> BatchRow] /\ TypeInv /\ OwnerIsAlone
  BY DEF LedgerInv, TypeInv, BatchTypes, Rows, ExecutorInv
<1>1. /\ UNCHANGED <<call, tasks, starts, pending_starts, acquiring, mode>>
      /\ batch[b].status = "none"
  BY DEF Create, procVars, startVars
<1>2. ASSUME NEW x \in Batches \ {b} PROVE StageIsSound(x)'
  <2>1. /\ batch'[x].state.done = batch[x].state.done
        /\ batch'[x].state.compiled = batch[x].state.compiled
        /\ SameReceipt(batch'[x], batch[x])
        /\ batch'[x].next \in {0, batch[x].next}
        /\ batch'[x].status = "none" => batch[x].status = "none"
    <3>1. batch[x] \in BatchRow /\ batch[x].state \in State
      BY <1>0 DEF BatchRow
    <3> DEFINE state == [batch[x].state EXCEPT !.superseded = TRUE]
    <3>2. /\ state.done = batch[x].state.done /\ state.compiled = batch[x].state.compiled
          /\ SameReceipt([state |-> state], batch[x])
      BY <3>1 DEF State, SameReceipt
    <3>3. Superseded(batch[x]) = [batch[x] EXCEPT !.status = "archived", !.next = 0,
                                    !.authorized = FALSE, !.pause = TRUE, !.state = state]
      BY <3>1 DEF Superseded, BatchRow, State
    <3> HIDE DEF state
    <3>4. /\ Superseded(batch[x]).state = state /\ Superseded(batch[x]).next = 0
          /\ Superseded(batch[x]).status = "archived"
      BY <3>1, <3>3 DEF BatchRow
    <3>5. batch'[x] \in {batch[x], Superseded(batch[x])}
      BY <1>2 DEF Create
    <3>6. QED
      BY <3>2, <3>4, <3>5 DEF SameReceipt
  <2>2. RowCalm(x) /\ CallsCalm(x)
    BY <1>1, <2>1 DEF RowCalm, CallsCalm
  <2>3. TasksCalm(x)
    BY <1>1, <1>2 DEF TasksCalm, ExecutorInv, StageIsSound, WorksOnLast
  <2>4. Known(x)
    BY <1>1, <1>2, <2>1 DEF Known, ExecutorInv, StageIsSound, LiveTask
  <2>5. QED
    BY <1>0, <1>2, <2>2, <2>3, <2>4, CalmStage DEF Calm, ExecutorInv
<1>3. /\ ClaimedSlots(b) = {} /\ ClaimedSlots(b)' = {}
      /\ \A q \in Procs : tasks'[q][b].pc = "idle"
  <2>1. ClaimedSlots(b)' = ClaimedSlots(b)
    BY <1>1 DEF ClaimedSlots
  <2>2. QED
    BY <1>1, <2>1 DEF ExecutorInv, StageIsSound, LiveTask
<1>4. /\ batch'[b].status = "draft" /\ batch'[b].next = 1 /\ batch'[b].state = NoState
  BY DEF Create, NewBatch, NoBatch
<1>5. StageIsSound(b)'
  <2>1. CallsInOrder(b)' /\ ResendsNothing(b)' /\ StepsFollow(b)' /\ LastFollows(b)'
    BY <1>3 DEF CallsInOrder, ResendsNothing, StepsFollow, LastFollows
  <2>2. DoneIsCompleted(b)'
    BY <1>3, <1>4 DEF DoneIsCompleted, CompletedIn, NoState
  <2>3. NextIsDue(b, batch[b])' /\ ReplayIsDue(b, batch[b])'
    BY <1>3, <1>4 DEF NextIsDue, ReplayIsDue, Fresh, Pending, NoState
  <2>4. \A q \in Procs : SeenIsSound(b, tasks[q][b])' /\ WorksOnLast(b, tasks[q][b])'
    BY <1>3 DEF SeenIsSound, WorksOnLast, Remembering, Slotted
  <2>5. QED
    BY <1>4, <2>1, <2>2, <2>3, <2>4 DEF StageIsSound
<1>6. QED
  BY <1>0, <1>1, <1>2, <1>5, StillAlone DEF ExecutorInv

\* A command on a stage at rest, which may make its row claimable anew.
LEMMA RestStage ==
  ASSUME TypeInv, NEW b \in Batches, StageIsSound(b), CallsCalm(b), UNCHANGED tasks,
         batch'[b].state.done = batch[b].state.done,
         batch'[b].state.compiled = batch[b].state.compiled,
         batch'[b].status # "none",
         \A p \in Procs : tasks[p][b].pc \notin Slotted,
         \A p \in Procs : /\ tasks[p][b].pc \in Remembering
                          /\ Pending(b, tasks[p][b].seen)
                          => ~Fresh(b, batch[b])',
         NextIsDue(b, batch[b])', ReplayIsDue(b, batch[b])'
  PROVE  StageIsSound(b)'
<1>0. ClaimedSlots(b) \subseteq SlotIds /\ CompletedIn(b) \subseteq ClaimedSlots(b)
  BY DEF ClaimedSlots, CompletedIn
<1>1. CallsInOrder(b)' /\ ResendsNothing(b)' /\ StepsFollow(b)' /\ LastFollows(b)'
  BY CalmOrder DEF StageIsSound
<1>2. DoneIsCompleted(b)'
  BY <1>0, CalmCalls DEF StageIsSound, DoneIsCompleted
<1>3. ASSUME NEW p \in Procs
      PROVE  SeenIsSound(b, tasks[p][b])' /\ WorksOnLast(b, tasks[p][b])'
  <2> DEFINE s == tasks[p][b].seen
  <2>1. tasks' = tasks /\ tasks[p][b].pc # "compile"
    BY DEF Slotted
  <2>2. WorksOnLast(b, tasks[p][b])'
    BY <2>1 DEF WorksOnLast
  <2> SUFFICES ASSUME tasks[p][b].pc \in Remembering
               PROVE  SeenIsSound(b, tasks[p][b])'
    BY <2>1, <2>2 DEF SeenIsSound
  <2>3. /\ s.state.done = batch[b].state.done /\ s.state.compiled = batch[b].state.compiled
        /\ ReplayIsDue(b, s)
        /\ tasks[p][b].pc = "claim" => NextIsDue(b, s)
    BY DEF StageIsSound, SeenIsSound
  <2>4. ReplayIsDue(b, tasks[p][b].seen)'
    BY <1>0, <2>1, <2>3, CalmCalls DEF ReplayIsDue, Pending, Fresh, CallsCalm
  <2>5. tasks[p][b].pc = "claim" => NextIsDue(b, tasks[p][b].seen)'
    BY <2>1, <2>3, CalmCalls DEF NextIsDue, Fresh
  <2>6. Pending(b, tasks[p][b].seen)' => Pending(b, s)
    BY <2>1, CalmCalls DEF Pending
  <2>7. QED
    BY <2>1, <2>3, <2>4, <2>5, <2>6 DEF SeenIsSound
<1>4. QED
  BY <1>1, <1>2, <1>3 DEF StageIsSound

LEMMA AuthorizeStepSound ==
  ASSUME LedgerInv, ExecutorInv, NEW p \in Procs, NEW b \in Batches, AuthorizeStep(p, b)
  PROVE  ExecutorInv'
<1>0. /\ batch \in [Batches -> BatchRow] /\ batch[b] \in BatchRow /\ batch[b].state \in State
      /\ call \in [Calls -> CallRow] /\ TypeInv /\ OwnerIsAlone /\ StageIsSound(b)
      /\ \A x \in Batches, j \in SlotIds : <<x, j>> \in Calls
  BY DEF LedgerInv, TypeInv, BatchTypes, Rows, BatchRow, CallTypes, ExecutorInv, Calls
<1>1. PICK f \in ClaimedSlots(b), k \in FreeReplacement(b) :
        /\ IsLast(b, f)
        /\ call[<<b, f>>].status \in Failures
        /\ Authorized(p, b,
             [batch[b] EXCEPT !.status = "awaiting_plan", !.next = call[<<b, f>>].action,
                              !.state.text = call[<<b, f>>].text,
                              !.state.failed = f, !.state.replacement = k],
             IF call[<<b, f>>].status = "outcome_uncertain"
             THEN [call EXCEPT ![<<b, f>>].status = "uncertain_closed"] ELSE call)
  BY DEF AuthorizeStep
<1> DEFINE action == call[<<b, f>>].action
           state == [batch[b].state EXCEPT !.text = call[<<b, f>>].text, !.failed = f,
                                           !.replacement = k]
           row   == [batch[b] EXCEPT !.status = "awaiting_plan", !.next = action,
                                     !.state = state]
           calls == IF call[<<b, f>>].status = "outcome_uncertain"
                    THEN [call EXCEPT ![<<b, f>>].status = "uncertain_closed"] ELSE call
           row2  == [row EXCEPT !.authorized = TRUE, !.pause = FALSE, !.status = "queued"]
<1>2. /\ state.done = batch[b].state.done /\ state.compiled = batch[b].state.compiled
      /\ state.failed = f /\ state.replacement = k
  BY <1>0 DEF State
<1>3. Authorized(p, b, row, calls)
  BY <1>0, <1>1 DEF BatchRow, State
<1> HIDE DEF state
<1>4. row2.status = "queued" /\ row2.next = action /\ row2.state = state
  BY <1>0 DEF BatchRow
<1> HIDE DEF row, calls
<1>5. /\ batch' = [batch EXCEPT ![b] = row2] /\ call' = calls /\ UNCHANGED tasks
      /\ \A q \in Procs, x \in Batches \ {b} : x \in starts'[q] \cup pending_starts'[q] =>
                                                 x \in starts[q] \cup pending_starts[q]
  <2>1. batch' = [batch EXCEPT ![b] = row2] /\ call' = calls /\ UNCHANGED tasks
    BY <1>3 DEF Authorized
  <2>2. NothingElseStarts(b)
    BY <1>3, AuthorizedStarts
  <2>3. QED
    BY <2>1, <2>2 DEF NothingElseStarts
<1> HIDE DEF row2
<1>6. /\ batch'[b] = row2 /\ \A x \in Batches \ {b} : batch'[x] = batch[x]
      /\ UNCHANGED <<acquiring, mode>>
  BY <1>0, <1>5 DEF AuthorizeStep, procVars
<1>7. /\ f \in SlotIds /\ k \in Steps + 1 .. Slots
      /\ action \in ClaimedSlots(b) /\ action # 0
  <2>1. f \in SlotIds
    BY DEF ClaimedSlots
  <2>2. k \in Steps + 1 .. Slots
    BY DEF FreeReplacement
  <2>3. action \in ClaimedSlots(b) /\ action \in Actions
    BY <1>0, <1>1 DEF StageIsSound, CallsInOrder
  <2>4. QED
    BY <2>1, <2>2, <2>3 DEF Actions
<1>8. /\ CallsCalm(b) /\ call'[<<b, f>>].status \in Closed
      /\ \A x \in Batches \ {b}, j \in SlotIds : call'[<<x, j>>] = call[<<x, j>>]
  <2>1. CASE call[<<b, f>>].status # "outcome_uncertain"
    BY <1>1, <1>5, <2>1 DEF calls, CallsCalm, Closed
  <2>2. CASE call[<<b, f>>].status = "outcome_uncertain"
    <3> DEFINE new == [call[<<b, f>>] EXCEPT !.status = "uncertain_closed"]
    <3>1. new.status = "uncertain_closed" /\ new.at = call[<<b, f>>].at
          /\ new.action = call[<<b, f>>].action
      BY <1>0, <1>7 DEF CallRow
    <3>2. call' = [call EXCEPT ![<<b, f>>] = new]
      BY <1>5, <2>2 DEF calls
    <3> HIDE DEF new
    <3>3. call'[<<b, f>>] = new /\ \A c \in Calls \ {<<b, f>>} : call'[c] = call[c]
      BY <1>0, <1>7, <3>2
    <3>4. QED
      BY <1>0, <1>7, <2>2, <3>1, <3>3 DEF CallsCalm, Closed, Failures
  <2>3. QED
    BY <2>1, <2>2
<1>9. ~Fresh(b, batch[b])' /\ NextIsDue(b, batch[b])'
  BY <1>4, <1>6, <1>7, <1>8, CalmCalls DEF Fresh, NextIsDue
<1>10. ReplayIsDue(b, batch[b])'
  BY <1>1, <1>2, <1>4, <1>6, <1>7, <1>8, <1>9, CalmCalls DEF ReplayIsDue
<1>11. \A q \in Procs : tasks[q][b].pc \notin Slotted
  <2>1. ASSUME NEW q \in Procs, tasks[q][b].pc \in Slotted PROVE FALSE
    <3>1. /\ tasks[q][b].slot \in SlotIds
          /\ call[<<b, tasks[q][b].slot>>].status = Waiting(tasks[q][b].pc)
      BY <2>1, WorkingCall
    <3>2. QED
      BY <3>1 DEF AuthorizeStep, HasCall, Waiting
  <2>2. QED
    BY <2>1
<1>12. StageIsSound(b)'
  BY <1>0, <1>2, <1>4, <1>5, <1>6, <1>8, <1>9, <1>10, <1>11, RestStage
<1>13. QED
  BY <1>0, <1>5, <1>6, <1>8, <1>12, StillAlone, OnlyStage

\* Every call of the stage is completed, or was retried.
Settled(b) ==
  \A k \in ClaimedSlots(b) : call[<<b, k>>].status = "completed" \/ Resolved(b, k)

\* In a settled stage nobody works on a call, no replay waits, and "done" covers all calls.
LEMMA SettledStage ==
  ASSUME LedgerInv, ExecutorInv, NEW b \in Batches, Settled(b)
  PROVE  /\ \A k \in ClaimedSlots(b) : call[<<b, k>>].action <= batch[b].state.done
         /\ \A p \in Procs : tasks[p][b].pc \notin Slotted
         /\ ~Pending(b, batch[b])
         /\ \A p \in Procs : tasks[p][b].pc \in Remembering => ~Pending(b, tasks[p][b].seen)
<1>0. StageIsSound(b) /\ call \in [Calls -> CallRow]
      /\ \A j \in ClaimedSlots(b) : call[<<b, j>>].at \in Nat
  BY DEF ExecutorInv, LedgerInv, TypeInv, CallTypes, CallRow, Calls, ClaimedSlots
<1>1. ASSUME NEW k \in ClaimedSlots(b), IsLast(b, k) PROVE call[<<b, k>>].status = "completed"
  <2>1. ~Resolved(b, k)
    <3>1. \A j \in ClaimedSlots(b) : ~(call[<<b, j>>].at > call[<<b, k>>].at)
      BY <1>0, <1>1 DEF IsLast
    <3>2. QED
      BY <3>1 DEF Resolved
  <2>2. QED
    BY <1>1, <2>1 DEF Settled
<1>2. ASSUME NEW k \in ClaimedSlots(b) PROVE call[<<b, k>>].action <= batch[b].state.done
  <2>1. CASE call[<<b, k>>].status = "completed"
    BY <1>0, <2>1 DEF StageIsSound, DoneIsCompleted, CompletedIn
  <2>2. CASE Resolved(b, k)
    <3>1. PICK j \in ClaimedSlots(b) : /\ call[<<b, j>>].action = call[<<b, k>>].action
                                       /\ IsLast(b, j) \/ call[<<b, j>>].status = "completed"
      BY <2>2 DEF Resolved
    <3>2. call[<<b, j>>].status = "completed"
      BY <1>1, <3>1
    <3>3. QED
      BY <1>0, <3>1, <3>2 DEF StageIsSound, DoneIsCompleted, CompletedIn
  <2>3. QED
    BY <2>1, <2>2 DEF Settled
<1>3. ASSUME NEW p \in Procs, tasks[p][b].pc \in Slotted PROVE FALSE
  <2>1. /\ tasks[p][b].slot \in ClaimedSlots(b) /\ IsLast(b, tasks[p][b].slot)
        /\ call[<<b, tasks[p][b].slot>>].status = Waiting(tasks[p][b].pc)
    BY <1>3, WorkingCall
  <2>2. QED
    BY <1>1, <2>1 DEF Waiting
<1>4. ASSUME NEW row, ReplayIsDue(b, row) PROVE ~Pending(b, row)
  <2> SUFFICES ASSUME Pending(b, row) PROVE FALSE
    OBVIOUS
  <2>1. /\ row.state.failed \in ClaimedSlots(b) /\ IsLast(b, row.state.failed)
        /\ call[<<b, row.state.failed>>].status \in Closed
    BY <1>4 DEF ReplayIsDue, Pending
  <2>2. QED
    BY <1>1, <2>1 DEF Closed, Failures
<1>5. QED
  BY <1>0, <1>2, <1>3, <1>4 DEF StageIsSound, SeenIsSound

\* A command that leaves the calls alone and gives a settled stage a next action.
LEMMA SettledStep ==
  ASSUME LedgerInv, ExecutorInv, NEW b \in Batches, NEW row, Settled(b),
         batch' = [batch EXCEPT ![b] = row], UNCHANGED <<call, tasks, acquiring, mode>>,
         \A p \in Procs, x \in Batches \ {b} : x \in starts'[p] \cup pending_starts'[p] =>
                                                 x \in starts[p] \cup pending_starts[p],
         row.status # "none", NextIsDue(b, row), SameReceipt(row, batch[b]),
         row.state.done = batch[b].state.done, row.state.compiled = batch[b].state.compiled
  PROVE  ExecutorInv'
<1>0. TypeInv /\ OwnerIsAlone /\ StageIsSound(b)
  BY DEF LedgerInv, ExecutorInv
<1>1. batch'[b] = row /\ \A x \in Batches \ {b} : batch'[x] = batch[x]
  BY DEF LedgerInv, TypeInv, BatchTypes
<1>2. CallsCalm(b)
  BY DEF CallsCalm
<1>3. ClaimedSlots(b)' = ClaimedSlots(b)
  BY DEF ClaimedSlots
<1>4. NextIsDue(b, batch[b])'
  BY <1>1, <1>3 DEF NextIsDue, Fresh
<1>5. ReplayIsDue(b, batch[b])'
  <2>1. ReplayIsDue(b, batch[b]) /\ ~Pending(b, batch[b])
    BY <1>0, SettledStage DEF StageIsSound
  <2>2. QED
    BY <1>1, <1>3, <2>1 DEF ReplayIsDue, Pending, SameReceipt
<1>6. StageIsSound(b)'
  BY <1>0, <1>1, <1>2, <1>4, <1>5, SettledStage, RestStage
<1>7. QED
  BY <1>0, <1>1, <1>6, StillAlone, OnlyStage

LEMMA AuthorizeInputSound ==
  ASSUME LedgerInv, ExecutorInv, NEW p \in Procs, NEW b \in Batches, AuthorizeInput(p, b)
  PROVE  ExecutorInv'
<1> DEFINE old    == batch[b]
           action == IF old.next = 0 THEN 2 ELSE old.next
           row    == [old EXCEPT !.status = "awaiting_plan", !.next = action]
           row2   == [row EXCEPT !.authorized = TRUE, !.pause = FALSE, !.status = "queued"]
<1>0. /\ batch[b] \in BatchRow /\ old.state \in State /\ StageIsSound(b)
      /\ call \in [Calls -> CallRow] /\ \A j \in SlotIds : <<b, j>> \in Calls
      /\ ClaimedSlots(b) \subseteq SlotIds
  BY DEF LedgerInv, TypeInv, BatchTypes, Rows, BatchRow, CallTypes, ExecutorInv, Calls,
         ClaimedSlots
<1>1. Authorized(p, b, row, call) /\ old.state.done >= 1 /\ UNCHANGED <<acquiring, mode>>
  BY DEF AuthorizeInput, procVars
<1>2. Settled(b)
  BY <1>0 DEF AuthorizeInput, HasCall, Settled, ClaimedSlots, CallRow
<1>3. row2.status = "queued" /\ row2.next = action /\ row2.state = old.state
  BY <1>0 DEF BatchRow
<1> HIDE DEF row
<1>4. /\ batch' = [batch EXCEPT ![b] = row2] /\ UNCHANGED <<call, tasks>>
      /\ \A q \in Procs, x \in Batches \ {b} : x \in starts'[q] \cup pending_starts'[q] =>
                                                 x \in starts[q] \cup pending_starts[q]
  <2>1. batch' = [batch EXCEPT ![b] = row2] /\ UNCHANGED <<call, tasks>>
    BY <1>1 DEF Authorized
  <2>2. NothingElseStarts(b)
    BY <1>1, AuthorizedStarts
  <2>3. QED
    BY <2>1, <2>2 DEF NothingElseStarts
<1> HIDE DEF row2
<1>5. NextIsDue(b, row2)
  <2> SUFFICES ASSUME Fresh(b, row2) PROVE NextIsDue(b, row2)
    BY DEF NextIsDue
  <2>1. CASE old.next # 0
    BY <1>0, <1>3, <2>1 DEF StageIsSound, NextIsDue, Fresh
  <2>2. CASE old.next = 0
    <3>1. 2 \notin ClaimedSlots(b)
      BY <1>3, <2>2 DEF Fresh
    <3>2. old.state.done = 1
      <4>1. PICK k \in CompletedIn(b) : call[<<b, k>>].action = old.state.done
        BY <1>0, <1>1 DEF StageIsSound, DoneIsCompleted
      <4>2. ~(call[<<b, k>>].action > 1)
        BY <1>0, <3>1 DEF StageIsSound, CallsInOrder, CompletedIn
      <4>3. QED
        BY <1>0, <1>1, <4>1, <4>2, ConstantsAssumption DEF State
    <3>3. \A k \in ClaimedSlots(b) : call[<<b, k>>].action <= old.state.done
      BY <1>2, SettledStage
    <3>4. QED
      BY <1>3, <2>2, <3>2, <3>3 DEF NextIsDue
  <2>3. QED
    BY <2>1, <2>2
<1>6. QED
  BY <1>1, <1>2, <1>3, <1>4, <1>5, SettledStep DEF SameReceipt

LEMMA EditPlanSound ==
  ASSUME LedgerInv, ExecutorInv, NEW p \in Procs, NEW b \in Batches, EditPlan(p, b)
  PROVE  ExecutorInv'
<1> DEFINE old   == batch[b]
           next  == Following(old)
           state == [old.state EXCEPT !.rev = @ + 1]
           row   == [old EXCEPT !.status = "awaiting_plan", !.next = next, !.state = state]
<1>0. old \in BatchRow /\ old.state \in State
  BY DEF LedgerInv, TypeInv, BatchTypes, Rows, BatchRow
<1>1. /\ state.done = old.state.done /\ state.compiled = old.state.compiled
      /\ state.failed = old.state.failed /\ state.replacement = old.state.replacement
  BY <1>0 DEF State
<1>2. batch' = [batch EXCEPT ![b] = row]
  BY <1>0 DEF EditPlan, BatchRow, State
<1>3. UNCHANGED <<call, tasks, starts, pending_starts, acquiring, mode>> /\ Settled(b)
  BY DEF EditPlan, startVars, procVars, Settled
<1> HIDE DEF state
<1>4. row.status = "awaiting_plan" /\ row.next = next /\ row.state = state
  BY <1>0 DEF BatchRow
<1> HIDE DEF row
<1>5. NextIsDue(b, row)
  <2>1. next = 0 \/ next = old.state.done + 1
    BY DEF Following, NextAction
  <2>2. \A k \in ClaimedSlots(b) : call[<<b, k>>].action <= old.state.done
    BY <1>3, SettledStage
  <2>3. QED
    BY <1>1, <1>4, <2>1, <2>2 DEF NextIsDue, Fresh
<1>6. QED
  BY <1>1, <1>2, <1>3, <1>4, <1>5, SettledStep DEF SameReceipt

-----------------------------------------------------------------------------
(* The claim of a call, by the row the task remembers.                     *)

\* What the claimed call is: the replay of the last, closed call of its stage, or the call
\* of the next action that is due.
ClaimIsReplay(b, seen, slot) ==
  LET f == seen.state.failed IN
  /\ f \in ClaimedSlots(b) /\ IsLast(b, f)
  /\ call[<<b, f>>].status \in Closed /\ call[<<b, f>>].action = seen.next
  /\ slot > Steps /\ slot = seen.state.replacement

ClaimIsNext(b, seen, slot) == Fresh(b, seen) /\ slot = seen.next

LEMMA ClaimKind ==
  ASSUME LedgerInv, ExecutorInv, NEW p \in Procs, NEW b \in Batches, NEW slot, NEW seen,
         seen = tasks[p][b].seen, slot = SlotFor(b, seen),
         Claiming(p, b), SlotOpen(b, seen)
  PROVE  /\ slot \in SlotIds \ ClaimedSlots(b) /\ seen.next \in Actions
         /\ ClaimIsReplay(b, seen, slot) \/ ClaimIsNext(b, seen, slot)
         /\ slot <= Steps => slot = seen.next
<1>0. seen \in BatchRow /\ StageIsSound(b) /\ SeenIsSound(b, tasks[p][b])
  BY SlottedTask DEF LedgerInv, TypeInv, Rows, ExecutorInv, StageIsSound
<1>1. seen.next \in 1 .. Steps /\ tasks[p][b].pc = "claim"
  BY <1>0, ConstantsAssumption DEF BatchRow, Claiming, MayClaim, At
<1>2. ReplayIsDue(b, seen)
  BY <1>0, <1>1 DEF SeenIsSound, Remembering
<1>3. CASE Replays(b, seen)
  <2>1. /\ seen.state.failed # 0 /\ slot = seen.state.replacement
        /\ call[<<b, seen.state.failed>>].action = seen.next
    BY <1>3 DEF Replays, SlotFor
  <2>2. seen.state.failed \in ClaimedSlots(b) /\ slot \in Steps + 1 .. Slots
    BY <1>2, <2>1 DEF ReplayIsDue
  <2>3. slot \in SlotIds /\ slot \notin ClaimedSlots(b) /\ slot > Steps
    BY <2>2, ConstantsAssumption DEF SlotIds, SlotOpen, ClaimedSlots
  <2>4. Pending(b, seen)
    BY <2>1, <2>3 DEF Pending
  <2>5. IsLast(b, seen.state.failed) /\ call[<<b, seen.state.failed>>].status \in Closed
    BY <1>2, <2>4 DEF ReplayIsDue
  <2>6. ClaimIsReplay(b, seen, slot)
    BY <2>1, <2>2, <2>3, <2>5 DEF ClaimIsReplay
  <2>7. ~(slot <= Steps)
    BY <2>2, ConstantsAssumption
  <2>8. QED
    BY <1>1, <2>3, <2>6, <2>7 DEF Actions
<1>4. CASE ~Replays(b, seen)
  <2>1. slot = seen.next
    BY <1>4 DEF SlotFor
  <2>2. slot \in SlotIds /\ slot \notin ClaimedSlots(b)
    BY <1>1, <2>1, ConstantsAssumption DEF SlotIds, SlotOpen, ClaimedSlots
  <2>3. QED
    BY <1>1, <2>1, <2>2 DEF ClaimIsNext, Fresh, Actions
<1>5. QED
  BY <1>3, <1>4

\* The calls of the stage after a claim.
LEMMA ClaimedCall ==
  ASSUME LedgerInv, NEW b \in Batches, NEW slot \in SlotIds \ ClaimedSlots(b), NEW new,
         call' = [call EXCEPT ![<<b, slot>>] = new], new.status = "executing",
         new.at = Cardinality(ClaimedSlots(b)) + 1
  PROVE  /\ call'[<<b, slot>>] = new
         /\ \A k \in SlotIds \ {slot} : call'[<<b, k>>] = call[<<b, k>>]
         /\ \A x \in Batches \ {b}, k \in SlotIds : call'[<<x, k>>] = call[<<x, k>>]
         /\ ClaimedSlots(b)' = ClaimedSlots(b) \cup {slot}
         /\ CompletedIn(b)' = CompletedIn(b)
         /\ Cardinality(ClaimedSlots(b)) \in Nat
         /\ Cardinality(ClaimedSlots(b)') = Cardinality(ClaimedSlots(b)) + 1
         /\ \A k \in ClaimedSlots(b) : call[<<b, k>>].at \in Nat
         /\ ClaimedSlots(b) \subseteq SlotIds
<1>1. call \in [Calls -> CallRow] /\ \A x \in Batches, k \in SlotIds : <<x, k>> \in Calls
  BY DEF LedgerInv, TypeInv, CallTypes, Calls
<1>2. /\ call'[<<b, slot>>] = new
      /\ \A k \in SlotIds \ {slot} : call'[<<b, k>>] = call[<<b, k>>]
      /\ \A x \in Batches \ {b}, k \in SlotIds : call'[<<x, k>>] = call[<<x, k>>]
  BY <1>1
<1>3. ClaimedSlots(b) \subseteq SlotIds /\ ClaimedSlots(b)' = ClaimedSlots(b) \cup {slot}
  BY <1>2 DEF ClaimedSlots
<1>4. CompletedIn(b)' = CompletedIn(b)
  BY <1>2, <1>3 DEF CompletedIn
<1>5. IsFiniteSet(SlotIds)
  BY FS_Interval, ConstantsAssumption DEF SlotIds
<1>6. IsFiniteSet(ClaimedSlots(b)) /\ Cardinality(ClaimedSlots(b)) \in Nat
  BY <1>3, <1>5, FS_Subset, FS_CardinalityType
<1>7. Cardinality(ClaimedSlots(b)') = Cardinality(ClaimedSlots(b)) + 1
  BY <1>3, <1>6, FS_AddElement
<1>8. \A k \in ClaimedSlots(b) : call[<<b, k>>].at \in Nat
  BY <1>1, <1>3 DEF CallRow
<1>9. QED
  BY <1>2, <1>3, <1>4, <1>6, <1>7, <1>8

\* The claimed calls stay in order: the new one comes last, at an action that is due.
LEMMA ClaimOrder ==
  ASSUME LedgerInv, NEW b \in Batches, StageIsSound(b),
         NEW slot \in SlotIds \ ClaimedSlots(b), NEW new, NEW seen, seen.next \in Actions,
         call' = [call EXCEPT ![<<b, slot>>] = new], new.status = "executing",
         new.response = "none", new.action = seen.next,
         new.at = Cardinality(ClaimedSlots(b)) + 1,
         slot <= Steps => slot = seen.next,
         seen.state.done = batch[b].state.done, NextIsDue(b, seen),
         ClaimIsReplay(b, seen, slot) \/ ClaimIsNext(b, seen, slot)
  PROVE  /\ CallsInOrder(b)' /\ ResendsNothing(b)' /\ StepsFollow(b)' /\ LastFollows(b)'
         /\ \A k \in ClaimedSlots(b) : ~IsLast(b, k)'
         /\ IsLast(b, slot)' /\ slot > 0
         /\ batch[b].state.done + 1 \in ClaimedSlots(b) \cup {slot}
<1> DEFINE n    == Cardinality(ClaimedSlots(b))
           a    == seen.next
           done == batch[b].state.done
<1>0. /\ call'[<<b, slot>>] = new
      /\ \A k \in SlotIds \ {slot} : call'[<<b, k>>] = call[<<b, k>>]
      /\ ClaimedSlots(b)' = ClaimedSlots(b) \cup {slot}
      /\ CompletedIn(b)' = CompletedIn(b)
      /\ n \in Nat /\ Cardinality(ClaimedSlots(b)') = n + 1
      /\ \A k \in ClaimedSlots(b) : call[<<b, k>>].at \in Nat
      /\ ClaimedSlots(b) \subseteq SlotIds
      /\ new.at = n + 1
  <2>1. call'[<<b, slot>>] = new /\ \A k \in SlotIds \ {slot} : call'[<<b, k>>] = call[<<b, k>>]
    BY DEF LedgerInv, TypeInv, CallTypes, Calls
  <2>2. ClaimedSlots(b)' = ClaimedSlots(b) \cup {slot} /\ CompletedIn(b)' = CompletedIn(b)
    BY ClaimedCall
  <2>3. /\ Cardinality(ClaimedSlots(b)) \in Nat
        /\ Cardinality(ClaimedSlots(b)') = Cardinality(ClaimedSlots(b)) + 1
    BY ClaimedCall
  <2>4. /\ \A k \in ClaimedSlots(b) : call[<<b, k>>].at \in Nat
        /\ ClaimedSlots(b) \subseteq SlotIds
    BY ClaimedCall
  <2>5. QED
    BY <2>1, <2>2, <2>3, <2>4
<1>1. CallsInOrder(b) /\ ResendsNothing(b) /\ StepsFollow(b) /\ LastFollows(b)
      /\ DoneIsCompleted(b) /\ CompletedIn(b) \subseteq ClaimedSlots(b)
  BY DEF StageIsSound, CompletedIn
<1>2. \A k \in ClaimedSlots(b) : /\ call'[<<b, k>>] = call[<<b, k>>] /\ k # slot
                                 /\ call[<<b, k>>].at <= n
                                 /\ call[<<b, k>>].action \in Actions
  BY <1>0, <1>1 DEF CallsInOrder
<1>3. done \in Nat /\ a \in 1 .. Steps /\ Steps \in Nat
  BY ConstantsAssumption DEF LedgerInv, TypeInv, BatchTypes, Rows, BatchRow, State, Actions
<1> HIDE DEF n
\* What is known of the action, whichever call it is.
<1>4. /\ \A k \in ClaimedSlots(b) : call[<<b, k>>].action <= a
      /\ \A k \in ClaimedSlots(b) : call[<<b, k>>].action = a => call[<<b, k>>].status \in Closed
      /\ a \in ClaimedSlots(b) \cup {slot}
      /\ a > 1 => 2 \in ClaimedSlots(b) \cup {slot}
      /\ a > 1 /\ ~(Reader /\ a = Steps) => \E j \in CompletedIn(b) : call[<<b, j>>].action = a - 1
      /\ \A k \in ClaimedSlots(b) : call[<<b, k>>].action = Steps => a = Steps
      /\ done + 1 \in ClaimedSlots(b) \cup {slot}
  <2>1. CASE ClaimIsReplay(b, seen, slot)
    <3> DEFINE f == seen.state.failed
    <3>1. /\ f \in ClaimedSlots(b) /\ IsLast(b, f) /\ call[<<b, f>>].status \in Closed
          /\ call[<<b, f>>].action = a
      BY <2>1 DEF ClaimIsReplay
    <3> HIDE DEF f
    <3>2. \A k \in ClaimedSlots(b) : k = f \/ call[<<b, k>>].at < call[<<b, f>>].at
      BY <1>0, <1>1, <3>1 DEF IsLast, CallsInOrder
    <3>3. \A k \in ClaimedSlots(b) : call[<<b, k>>].action <= a
      BY <1>1, <1>2, <1>3, <3>1, <3>2 DEF CallsInOrder
    <3>4. \A k \in ClaimedSlots(b) : call[<<b, k>>].action = a => call[<<b, k>>].status \in Closed
      BY <1>1, <3>1, <3>2 DEF ResendsNothing
    <3>5. a \in ClaimedSlots(b) /\ (a > 1 => 2 \in ClaimedSlots(b))
      BY <1>1, <3>1 DEF CallsInOrder
    <3>6. a > 1 /\ ~(Reader /\ a = Steps) => \E j \in CompletedIn(b) : call[<<b, j>>].action = a - 1
      BY <1>1, <3>1 DEF StepsFollow
    <3>7. \A k \in ClaimedSlots(b) : call[<<b, k>>].action = Steps => a = Steps
      BY <1>1, <3>1, <3>2 DEF LastFollows
    <3>8. done + 1 \in ClaimedSlots(b)
      <4>1. f \notin CompletedIn(b)
        BY <3>1 DEF CompletedIn, Closed, Failures
      <4>2. QED
        BY <1>1, <3>1, <4>1 DEF DoneIsCompleted
    <3>9. QED
      BY <3>3, <3>4, <3>5, <3>6, <3>7, <3>8
  <2>2. CASE ClaimIsNext(b, seen, slot)
    <3>1. Fresh(b, seen) /\ slot = a /\ a \notin ClaimedSlots(b)
      BY <2>2 DEF ClaimIsNext, Fresh
    <3>2. \/ a = done + 1 /\ \A k \in ClaimedSlots(b) : call[<<b, k>>].action <= done
          \/ Reader /\ a = Steps /\ 2 \in ClaimedSlots(b) /\ done + 1 \in ClaimedSlots(b)
      BY <3>1 DEF NextIsDue
    <3>3. \A k \in ClaimedSlots(b) : call[<<b, k>>].action # a
      BY <1>1, <3>1 DEF CallsInOrder
    <3>4. CASE a = done + 1 /\ \A k \in ClaimedSlots(b) : call[<<b, k>>].action <= done
      <4>1. done # 0 => \E j \in CompletedIn(b) : call[<<b, j>>].action = done
        BY <1>1 DEF DoneIsCompleted
      <4>2. a > 2 => 2 \in ClaimedSlots(b)
        <5>1. a > 2 => done # 0 /\ done > 1
          BY <1>3, <3>4
        <5>2. \A j \in CompletedIn(b) : call[<<b, j>>].action > 1 => 2 \in ClaimedSlots(b)
          BY <1>1 DEF CallsInOrder
        <5>3. QED
          BY <4>1, <5>1, <5>2
      <4>3. \A k \in ClaimedSlots(b) : call[<<b, k>>].action \in 1 .. Steps
        BY <1>2 DEF Actions
      <4>4. /\ \A k \in ClaimedSlots(b) : call[<<b, k>>].action <= a
            /\ \A k \in ClaimedSlots(b) : call[<<b, k>>].action # Steps
        BY <1>3, <3>4, <4>3
      <4>5. a > 1 => \E j \in CompletedIn(b) : call[<<b, j>>].action = a - 1
        BY <1>3, <3>4, <4>1
      <4>6. a > 1 => 2 \in ClaimedSlots(b) \cup {slot}
        BY <1>3, <3>1, <4>2
      <4>7. QED
        BY <3>1, <3>3, <3>4, <4>4, <4>5, <4>6
    <3>5. CASE Reader /\ a = Steps /\ 2 \in ClaimedSlots(b) /\ done + 1 \in ClaimedSlots(b)
      <4>1. \A k \in ClaimedSlots(b) : call[<<b, k>>].action <= a
        BY <1>2, <3>5 DEF Actions
      <4>2. QED
        BY <3>1, <3>3, <3>5, <4>1
    <3>6. QED
      BY <3>2, <3>4, <3>5
  <2>3. QED
    BY <2>1, <2>2
<1>5. CallsInOrder(b)'
  <2>1. ASSUME NEW k \in ClaimedSlots(b)'
        PROVE  /\ call'[<<b, k>>].at <= n + 1
               /\ call'[<<b, k>>].action \in Actions /\ (k <= Steps => call'[<<b, k>>].action = k)
               /\ call'[<<b, k>>].action \in ClaimedSlots(b)'
               /\ call'[<<b, k>>].action > 1 => 2 \in ClaimedSlots(b)'
               /\ call'[<<b, k>>].status = "executing" => call'[<<b, k>>].response = "none"
    <3>1. CASE k = slot
      BY <1>0, <1>4, <3>1
    <3>2. CASE k \in ClaimedSlots(b)
      BY <1>0, <1>1, <1>2, <3>2 DEF CallsInOrder
    <3>3. QED
      BY <1>0, <2>1, <3>1, <3>2
  <2>2. ASSUME NEW k \in ClaimedSlots(b)', NEW j \in ClaimedSlots(b)'
        PROVE  /\ j # k => call'[<<b, j>>].at # call'[<<b, k>>].at
               /\ call'[<<b, j>>].at < call'[<<b, k>>].at =>
                    call'[<<b, j>>].action <= call'[<<b, k>>].action
    <3>1. CASE k \in ClaimedSlots(b) /\ j \in ClaimedSlots(b)
      BY <1>1, <1>2, <3>1 DEF CallsInOrder
    <3>2. CASE k = slot /\ j \in ClaimedSlots(b)
      BY <1>0, <1>2, <1>4, <3>2
    <3>3. CASE k \in ClaimedSlots(b) /\ j = slot
      BY <1>0, <1>2, <3>3
    <3>4. CASE k = slot /\ j = slot
      BY <1>0, <3>4
    <3>5. QED
      BY <1>0, <2>2, <3>1, <3>2, <3>3, <3>4
  <2>3. QED
    BY <1>0, <2>1, <2>2 DEF CallsInOrder
<1>6. ASSUME NEW k \in ClaimedSlots(b) PROVE ~(call'[<<b, slot>>].at < call'[<<b, k>>].at)
  BY <1>0, <1>2
<1>7. ResendsNothing(b)'
  <2>1. ASSUME NEW j \in ClaimedSlots(b)', NEW k \in ClaimedSlots(b)',
               call'[<<b, j>>].action = call'[<<b, k>>].action,
               call'[<<b, j>>].at < call'[<<b, k>>].at
        PROVE  call'[<<b, j>>].status \in Closed
    <3>1. CASE k \in ClaimedSlots(b) /\ j \in ClaimedSlots(b)
      BY <1>1, <1>2, <2>1, <3>1 DEF ResendsNothing
    <3>2. CASE k = slot /\ j \in ClaimedSlots(b)
      BY <1>0, <1>2, <1>4, <2>1, <3>2
    <3>3. CASE k \in ClaimedSlots(b) /\ j = slot
      BY <1>6, <2>1, <3>3
    <3>4. CASE k = slot /\ j = slot
      BY <1>0, <2>1, <3>4
    <3>5. QED
      BY <1>0, <2>1, <3>1, <3>2, <3>3, <3>4
  <2>2. QED
    BY <2>1 DEF ResendsNothing
<1>8. StepsFollow(b)'
  <2>1. ASSUME NEW k \in ClaimedSlots(b)', call'[<<b, k>>].action > 1,
               ~(Reader /\ call'[<<b, k>>].action = Steps)
        PROVE  \E j \in CompletedIn(b) : /\ call'[<<b, j>>].action = call'[<<b, k>>].action - 1
                                         /\ call'[<<b, j>>].at < call'[<<b, k>>].at
    <3>1. CASE k \in ClaimedSlots(b)
      BY <1>1, <1>2, <2>1, <3>1 DEF StepsFollow
    <3>2. CASE k = slot
      <4>1. PICK j \in CompletedIn(b) : call[<<b, j>>].action = a - 1
        BY <1>0, <1>4, <2>1, <3>2
      <4>2. j \in ClaimedSlots(b)
        BY <1>1
      <4>3. call'[<<b, j>>].at < call'[<<b, k>>].at
        BY <1>0, <1>2, <3>2, <4>2
      <4>4. QED
        BY <1>0, <1>2, <3>2, <4>1, <4>2, <4>3
    <3>3. QED
      BY <1>0, <2>1, <3>1, <3>2
  <2>2. QED
    BY <1>0, <2>1 DEF StepsFollow
<1>9. LastFollows(b)'
  <2>1. ASSUME NEW j \in ClaimedSlots(b)', NEW k \in ClaimedSlots(b)',
               call'[<<b, j>>].action = Steps, call'[<<b, j>>].at < call'[<<b, k>>].at
        PROVE  call'[<<b, k>>].action = Steps
    <3>1. CASE k \in ClaimedSlots(b) /\ j \in ClaimedSlots(b)
      BY <1>1, <1>2, <2>1, <3>1 DEF LastFollows
    <3>2. CASE k = slot /\ j \in ClaimedSlots(b)
      BY <1>0, <1>2, <1>4, <2>1, <3>2
    <3>3. CASE k \in ClaimedSlots(b) /\ j = slot
      BY <1>6, <2>1, <3>3
    <3>4. CASE k = slot /\ j = slot
      BY <2>1, <3>4
    <3>5. QED
      BY <1>0, <2>1, <3>1, <3>2, <3>3, <3>4
  <2>2. QED
    BY <2>1 DEF LastFollows
<1>10. (\A k \in ClaimedSlots(b) : ~IsLast(b, k)') /\ IsLast(b, slot)'
  BY <1>0, <1>2 DEF IsLast
<1>11. QED
  BY <1>4, <1>5, <1>7, <1>8, <1>9, <1>10 DEF SlotIds

LEMMA ClaimSound ==
  ASSUME LedgerInv, ExecutorInv, OneExecutor, NEW p \in Procs, NEW b \in Batches, Claim(p, b)
  PROVE  ExecutorInv'
<1> SUFFICES ASSUME NEW seen, seen = tasks[p][b].seen, NEW slot, slot = SlotFor(b, seen)
             PROVE  ExecutorInv'
  OBVIOUS
<1> DEFINE new  == [NoCall EXCEPT !.status = "executing", !.action = seen.next,
                                  !.at = Cardinality(ClaimedSlots(b)) + 1,
                                  !.rev = seen.state.rev, !.text = seen.state.text]
           row  == [seen EXCEPT !.status = "running"]
           task == [Idle EXCEPT !.pc = "send", !.slot = slot]
<1>0. /\ TypeInv /\ OwnerIsAlone /\ StageIsSound(b) /\ seen \in BatchRow
      /\ batch \in [Batches -> BatchRow] /\ tasks \in [Procs -> [Batches -> TaskRows]]
  BY SlottedTask DEF LedgerInv, TypeInv, Rows, BatchTypes, TaskTypes, ExecutorInv
<1>1. /\ Claiming(p, b) /\ SlotOpen(b, seen) /\ tasks[p][b].pc = "claim"
      /\ UNCHANGED <<starts, pending_starts, acquiring, mode>> /\ ~acquiring[p]
      /\ batch[b].status # "none"
  <2>1. /\ Claiming(p, b) /\ SlotOpen(b, seen) /\ tasks[p][b].pc = "claim"
        /\ UNCHANGED <<starts, pending_starts, acquiring, mode>>
    BY DEF Claim, Claiming, At, procVars, startVars
  <2>2. QED
    BY <2>1, LiveStage
<1>2. /\ seen.state.done = batch[b].state.done /\ seen.state.compiled = batch[b].state.compiled
      /\ ReplayIsDue(b, seen) /\ NextIsDue(b, seen)
      /\ Pending(b, seen) => ~Fresh(b, batch[b])
  BY <1>0, <1>1 DEF StageIsSound, SeenIsSound, Remembering
<1>3. /\ slot \in SlotIds \ ClaimedSlots(b) /\ seen.next \in Actions
      /\ ClaimIsReplay(b, seen, slot) \/ ClaimIsNext(b, seen, slot)
      /\ slot <= Steps => slot = seen.next
  BY <1>1, ClaimKind
<1>4. /\ new.status = "executing" /\ new.response = "none" /\ new.action = seen.next
      /\ new.at = Cardinality(ClaimedSlots(b)) + 1
      /\ row.state = seen.state /\ row.next = seen.next /\ row.status = "running"
      /\ task.pc = "send" /\ task.slot = slot
  BY <1>0 DEF NoCall, BatchRow, Idle
<1>5. /\ call' = [call EXCEPT ![<<b, slot>>] = new]
      /\ batch' = [batch EXCEPT ![b] = Flush(@, seen, row)]
      /\ tasks' = [tasks EXCEPT ![p][b] = task]
  BY DEF Claim
<1> HIDE DEF new, row, task
<1>6. /\ call'[<<b, slot>>] = new
      /\ \A x \in Batches \ {b}, k \in SlotIds : call'[<<x, k>>] = call[<<x, k>>]
  <2>1. call \in [Calls -> CallRow] /\ \A x \in Batches, k \in SlotIds : <<x, k>> \in Calls
    BY <1>0 DEF TypeInv, CallTypes, Calls
  <2>2. QED
    BY <1>3, <1>5, <2>1
<1>7. ClaimedSlots(b)' = ClaimedSlots(b) \cup {slot} /\ CompletedIn(b)' = CompletedIn(b)
  BY <1>3, <1>4, <1>5, ClaimedCall
<1>8. /\ CallsInOrder(b)' /\ ResendsNothing(b)' /\ StepsFollow(b)' /\ LastFollows(b)'
      /\ \A k \in ClaimedSlots(b) : ~IsLast(b, k)'
      /\ IsLast(b, slot)'
      /\ batch[b].state.done + 1 \in ClaimedSlots(b) \cup {slot}
  BY <1>0, <1>2, <1>3, <1>4, <1>5, ClaimOrder
<1>9. /\ batch'[b].state = seen.state /\ batch'[b].next = batch[b].next
      /\ batch'[b].status # "none"
      /\ \A x \in Batches \ {b} : batch'[x] = batch[x]
  <2>1. batch'[b] = Flush(batch[b], seen, row) /\ \A x \in Batches \ {b} : batch'[x] = batch[x]
    BY <1>0, <1>5
  <2>2. QED
    BY <1>1, <1>4, <2>1 DEF Flush, Column
<1>10. \A q \in Procs, x \in Batches :
         tasks'[q][x] = IF q = p /\ x = b THEN task ELSE tasks[q][x]
  BY <1>0, <1>5
<1>11. DoneIsCompleted(b)'
  <2>1. DoneIsCompleted(b) /\ CompletedIn(b) \subseteq ClaimedSlots(b)
    BY <1>0 DEF StageIsSound, CompletedIn
  <2>2. \A k \in CompletedIn(b) : call'[<<b, k>>] = call[<<b, k>>]
    BY <1>0, <1>3, <1>5, <2>1 DEF TypeInv, CallTypes, Calls, ClaimedSlots
  <2>3. QED
    BY <1>2, <1>7, <1>8, <1>9, <2>1, <2>2 DEF DoneIsCompleted
<1>12. ~Fresh(b, batch[b])'
  <2> SUFFICES ASSUME batch[b].next # 0, batch[b].next \notin ClaimedSlots(b),
                      batch[b].next # slot
               PROVE  FALSE
    BY <1>7, <1>9 DEF Fresh
  <2>1. Fresh(b, batch[b]) /\ NextIsDue(b, batch[b])
    BY <1>0 DEF Fresh, StageIsSound
  <2>2. ClaimIsNext(b, seen, slot)
    <3>1. CASE ClaimIsReplay(b, seen, slot)
      <4>1. Pending(b, seen)
        <5>1. ClaimedSlots(b) \subseteq SlotIds /\ 0 \notin SlotIds
          BY DEF ClaimedSlots, SlotIds
        <5>2. seen.state.failed \in ClaimedSlots(b) /\ slot = seen.state.replacement
          BY <3>1 DEF ClaimIsReplay
        <5>3. QED
          BY <1>3, <5>1, <5>2 DEF Pending
      <4>2. QED
        BY <1>2, <2>1, <4>1
    <3>2. QED
      BY <1>3, <3>1
  <2>3. Fresh(b, seen) /\ slot = seen.next /\ slot \notin ClaimedSlots(b)
    BY <1>3, <2>2 DEF ClaimIsNext
  <2>4. QED
    BY <1>2, <2>1, <2>3 DEF NextIsDue
<1>13. ReplayIsDue(b, batch[b])'
  <2>1. ASSUME Pending(b, batch[b])' PROVE FALSE
    <3>1. Pending(b, seen) /\ slot # seen.state.replacement
      BY <1>7, <1>9, <2>1 DEF Pending
    <3>2. ~Fresh(b, seen)
      BY <1>2, <3>1 DEF ReplayIsDue
    <3>3. QED
      BY <1>3, <3>1, <3>2 DEF ClaimIsReplay, ClaimIsNext
  <2>2. QED
    BY <1>2, <1>7, <1>9, <2>1 DEF ReplayIsDue
<1>14. \A q \in Procs : SeenIsSound(b, tasks[q][b])' /\ WorksOnLast(b, tasks[q][b])'
  <2>1. \A q \in Procs : tasks'[q][b].pc = "send" /\ tasks'[q][b].slot = slot
    BY <1>4, <1>10 DEF OneExecutor
  <2>2. call'[<<b, slot>>].status = "executing"
    BY <1>4, <1>6
  <2>3. QED
    BY <1>8, <2>1, <2>2 DEF SeenIsSound, WorksOnLast, Remembering, Waiting
<1>15. StageIsSound(b)'
  BY <1>8, <1>9, <1>11, <1>12, <1>13, <1>14 DEF StageIsSound, NextIsDue
<1>16. OwnerIsAlone'
  BY <1>0, <1>1, <1>5, TaskAlone
<1>17. QED
  BY <1>0, <1>1, <1>6, <1>9, <1>10, <1>15, <1>16, OnlyStage

-----------------------------------------------------------------------------
(* The compilation of an answer, by the row the task remembers.            *)

\* What the interpretation leaves of the row, and where it lets the stage go on.
LEMMA OutcomeGoesOn ==
  ASSUME NEW c \in Calls, NEW row \in BatchRow, NEW o \in Outcomes(c, row)
  PROVE  /\ o.row.state.compiled = row.state.compiled
         /\ o.row.state.failed = row.state.failed
         /\ o.row.state.replacement = row.state.replacement
         /\ o.row.status \in {"outcome_uncertain", "needs_attention", "queued", "awaiting_plan"}
         /\ \/ /\ o.status = "completed"
               /\ o.row.state.done = call[c].action
               /\ o.row.next = NextAction(call[c].action)
            \/ /\ o.status \in {"outcome_uncertain", "local_failure"}
               /\ o.row.state.done = row.state.done
               /\ o.row.next = 0 \/ (o.row.next = Steps /\ Skippable(c, row))
<1> DEFINE a == call[c].action
<1>0. row.state \in State
  BY DEF BatchRow
<1>1. ASSUME NEW left \in Remains(c, row)
      PROVE  /\ left.state.compiled = row.state.compiled /\ left.state.failed = row.state.failed
             /\ left.state.replacement = row.state.replacement
             /\ left.state.done = row.state.done
             /\ DOMAIN left = DOMAIN row
  <2>1. CASE left = row
    BY <2>1
  <2>2. CASE left = [row EXCEPT !.state.text = "partial"]
    <3> DEFINE state == [row.state EXCEPT !.text = "partial"]
    <3>1. left = [row EXCEPT !.state = state]
      BY <2>2
    <3>2. /\ state.compiled = row.state.compiled /\ state.failed = row.state.failed
          /\ state.replacement = row.state.replacement /\ state.done = row.state.done
      BY <1>0 DEF State
    <3> HIDE DEF state
    <3>3. left.state = state /\ DOMAIN left = DOMAIN row
      BY <3>1 DEF BatchRow
    <3>4. QED
      BY <3>2, <3>3
  <2>3. QED
    BY <2>1, <2>2 DEF Remains
<1>2. ASSUME NEW left \in Remains(c, row), NEW st
      PROVE  /\ [left EXCEPT !.status = st, !.next = 0].status = st
             /\ [left EXCEPT !.status = st, !.next = 0].next = 0
             /\ [left EXCEPT !.status = st, !.next = 0].state = left.state
  <2>1. "status" \in DOMAIN left /\ "next" \in DOMAIN left /\ "state" \in DOMAIN left
    BY <1>1 DEF BatchRow
  <2>2. QED
    BY <2>1
<1>3. CASE got[c] = "cut"
  <2>1. PICK left \in Remains(c, row) :
          o = [status |-> "outcome_uncertain",
               row |-> [left EXCEPT !.status = "outcome_uncertain", !.next = 0]]
    BY <1>3 DEF Outcomes
  <2>2. /\ o.status = "outcome_uncertain"
        /\ o.row = [left EXCEPT !.status = "outcome_uncertain", !.next = 0]
    BY <2>1
  <2>3. o.row.status = "outcome_uncertain" /\ o.row.next = 0 /\ o.row.state = left.state
    BY <1>2, <2>2
  <2>4. QED
    BY <1>1, <2>2, <2>3
<1>4. CASE got[c] # "cut" /\ Usable(c, row)
  <2> DEFINE n == NextAction(a)
             text == TextAfter(a, row.state.text)
             state == [row.state EXCEPT !.done = a, !.text = text]
  <2>1. PICK st \in After(a) :
          o = [status |-> "completed",
               row |-> [row EXCEPT !.status = st, !.next = n, !.state.done = a, !.state.text = text]]
    BY <1>4 DEF Outcomes
  <2>2. st \in {"needs_attention", "queued", "awaiting_plan"}
    BY DEF After
  <2>3. o.status = "completed" /\ o.row = [row EXCEPT !.status = st, !.next = n, !.state = state]
    BY <1>0, <2>1 DEF BatchRow, State
  <2>4. /\ state.compiled = row.state.compiled /\ state.failed = row.state.failed
        /\ state.replacement = row.state.replacement /\ state.done = a
    BY <1>0 DEF State
  <2> HIDE DEF n, state
  <2>5. o.row.status = st /\ o.row.next = n /\ o.row.state = state
    BY <2>3 DEF BatchRow
  <2>6. QED
    BY <2>2, <2>3, <2>4, <2>5 DEF n
<1>5. CASE got[c] # "cut" /\ ~Usable(c, row)
  <2>1. /\ o.status = "local_failure"
        /\ \/ \E left \in Remains(c, row) :
                o.row = [left EXCEPT !.status = "needs_attention", !.next = 0]
           \/ Skippable(c, row) /\ o.row = [row EXCEPT !.status = "queued", !.next = Steps]
    <3> DEFINE New == {[left EXCEPT !.status = "needs_attention", !.next = 0] :
                         left \in Remains(c, row)}
                      \cup (IF Skippable(c, row)
                            THEN {[row EXCEPT !.status = "queued", !.next = Steps]} ELSE {})
    <3>1. PICK new \in New : o = [status |-> "local_failure", row |-> new]
      BY <1>5 DEF Outcomes
    <3>2. QED
      BY <3>1
  <2>2. CASE Skippable(c, row) /\ o.row = [row EXCEPT !.status = "queued", !.next = Steps]
    <3>1. o.row.status = "queued" /\ o.row.next = Steps /\ o.row.state = row.state
      BY <2>2 DEF BatchRow
    <3>2. QED
      BY <2>1, <2>2, <3>1
  <2>3. CASE \E left \in Remains(c, row) :
               o.row = [left EXCEPT !.status = "needs_attention", !.next = 0]
    <3>1. PICK left \in Remains(c, row) :
            o.row = [left EXCEPT !.status = "needs_attention", !.next = 0]
      BY <2>3
    <3>2. o.row.status = "needs_attention" /\ o.row.next = 0 /\ o.row.state = left.state
      BY <1>2, <3>1
    <3>3. QED
      BY <1>1, <2>1, <3>2
  <2>4. QED
    BY <2>1, <2>2, <2>3
<1>6. QED
  BY <1>3, <1>4, <1>5

\* The last call of a stage completes, and the stage goes on after its action.
Completes(b, k) ==
  /\ \A j \in ClaimedSlots(b) : j = k \/ call[<<b, j>>].at < call[<<b, k>>].at
  /\ ClaimedSlots(b)' = ClaimedSlots(b)
  /\ \A j \in ClaimedSlots(b) : /\ call'[<<b, j>>].at = call[<<b, j>>].at
                                /\ call'[<<b, j>>].action = call[<<b, j>>].action
                                /\ j # k => call'[<<b, j>>] = call[<<b, j>>]
  /\ call'[<<b, k>>].status = "completed"
  /\ batch'[b].state.done = call[<<b, k>>].action
  /\ batch'[b].state.compiled = batch[b].state.compiled \cup {k}
  /\ batch'[b].next \in {0, NextAction(call[<<b, k>>].action)}

LEMMA CompletedStage ==
  ASSUME TypeInv, NEW b \in Batches, StageIsSound(b), NEW k \in ClaimedSlots(b), Completes(b, k)
  PROVE  /\ CallsInOrder(b)' /\ ResendsNothing(b)' /\ StepsFollow(b)' /\ LastFollows(b)'
         /\ DoneIsCompleted(b)' /\ NextIsDue(b, batch[b])'
<1> USE DEF Completes
<1>0. /\ CallsInOrder(b) /\ ResendsNothing(b) /\ StepsFollow(b) /\ LastFollows(b)
      /\ DoneIsCompleted(b)
  BY DEF StageIsSound
<1>1. \A j \in ClaimedSlots(b) : call[<<b, j>>].at \in Nat /\ call[<<b, j>>].action \in 1 .. Steps
  <2>1. \A j \in ClaimedSlots(b) : call[<<b, j>>] \in CallRow
    BY DEF TypeInv, CallTypes, Calls, ClaimedSlots
  <2>2. QED
    BY <1>0, <2>1 DEF CallRow, CallsInOrder, Actions
<1>2. \A j \in ClaimedSlots(b) : call[<<b, j>>].action <= call[<<b, k>>].action
  BY <1>0, <1>1 DEF CallsInOrder
<1>3. CompletedIn(b)' = CompletedIn(b) \cup {k} /\ CompletedIn(b) \subseteq ClaimedSlots(b)
  <2>1. \A j \in ClaimedSlots(b) : j # k => call'[<<b, j>>].status = call[<<b, j>>].status
    OBVIOUS
  <2>2. QED
    BY <2>1 DEF CompletedIn
<1>4. CallsInOrder(b)'
  <2>1. \A j \in ClaimedSlots(b) : call'[<<b, j>>].status = "executing" =>
                                     call'[<<b, j>>].response = "none"
    BY <1>0 DEF CallsInOrder
  <2>2. QED
    BY <1>0, <2>1 DEF CallsInOrder
<1>5. ResendsNothing(b)'
  <2>1. ASSUME NEW i \in ClaimedSlots(b), NEW j \in ClaimedSlots(b),
               call[<<b, i>>].at < call[<<b, j>>].at
        PROVE  call'[<<b, i>>] = call[<<b, i>>]
    BY <1>1, <2>1
  <2>2. QED
    BY <1>0, <2>1 DEF ResendsNothing
<1>6. StepsFollow(b)'
  BY <1>0, <1>3 DEF StepsFollow
<1>7. LastFollows(b)'
  BY <1>0 DEF LastFollows
<1>8. DoneIsCompleted(b)'
  <2>1. \A j \in ClaimedSlots(b) : IsLast(b, j)' => j = k
    BY <1>1 DEF IsLast
  <2>2. \A j \in CompletedIn(b) : j \in batch[b].state.compiled
    BY <1>0 DEF DoneIsCompleted
  <2>3. QED
    BY <1>2, <1>3, <2>1, <2>2 DEF DoneIsCompleted
<1>9. NextIsDue(b, batch[b])'
  BY <1>2 DEF NextIsDue, Fresh, NextAction
<1>10. QED
  BY <1>4, <1>5, <1>6, <1>7, <1>8, <1>9

LEMMA CompileSound ==
  ASSUME LedgerInv, ExecutorInv, OneExecutor, NEW p \in Procs, NEW b \in Batches, Compile(p, b)
  PROVE  ExecutorInv'
<1> SUFFICES ASSUME NEW seen, seen = tasks[p][b].seen, NEW k, k = tasks[p][b].slot,
                    NEW callStatus, callStatus = tasks[p][b].callStatus
             PROVE  ExecutorInv'
  OBVIOUS
<1> DEFINE c    == <<b, k>>
           a    == call[c].action
           done == batch[b].state.done
           task == [Idle EXCEPT !.pc = "loop"]
<1>0. /\ TypeInv /\ OwnerIsAlone /\ StageIsSound(b) /\ seen \in Rows /\ seen \in BatchRow
      /\ seen.state \in State /\ CallTypes
      /\ batch \in [Batches -> BatchRow] /\ tasks \in [Procs -> [Batches -> TaskRows]]
      /\ call \in [Calls -> CallRow] /\ \A x \in Batches, j \in SlotIds : <<x, j>> \in Calls
  BY SlottedTask DEF LedgerInv, TypeInv, Rows, BatchRow, BatchTypes, TaskTypes, CallTypes,
                     ExecutorInv, Calls
<1>1. /\ tasks[p][b].pc = "compile" /\ CompileResponse(CallOf(p, b), seen, callStatus)
      /\ tasks' = [tasks EXCEPT ![p][b] = task] /\ task.pc = "loop"
      /\ UNCHANGED <<starts, pending_starts, acquiring, mode>> /\ ~acquiring[p]
      /\ batch[b].status # "none"
  <2>1. /\ tasks[p][b].pc = "compile" /\ CompileResponse(CallOf(p, b), seen, callStatus)
        /\ tasks' = [tasks EXCEPT ![p][b] = task] /\ task.pc = "loop"
        /\ UNCHANGED <<starts, pending_starts, acquiring, mode>>
    BY DEF Compile, At, procVars, startVars, Idle
  <2>2. QED
    BY <2>1, LiveStage
<1>2. /\ k \in SlotIds /\ k \in ClaimedSlots(b) /\ CallOf(p, b) = c /\ c \in Calls /\ c[2] = k
      /\ call[c].status = "response_saved" /\ IsLast(b, k)
  BY <1>1, WorkingCall DEF Slotted, Waiting
<1>3. /\ seen.state.done = done /\ seen.state.compiled = batch[b].state.compiled
      /\ ReplayIsDue(b, seen) /\ batch[b].next \in {0, seen.next}
  BY <1>0, <1>1 DEF StageIsSound, SeenIsSound, Remembering
<1> HIDE DEF task
<1>4. OwnerIsAlone' /\ \A q \in Procs, x \in Batches :
                         tasks'[q][x] = IF q = p /\ x = b THEN task ELSE tasks[q][x]
  BY <1>0, <1>1, TaskAlone
<1>5. CASE UNCHANGED <<batch, call>>
  <2>1. CallsCalm(b) /\ RowCalm(b)
    BY <1>5 DEF CallsCalm, RowCalm, SameReceipt
  <2>2. QED
    BY <1>1, <1>5, <2>1, TaskStep DEF Slotted, Remembering
<1>6. CASE ~NothingToCompile(c, seen, callStatus)
  <2> DEFINE state == [seen.state EXCEPT !.compiled = @ \cup {k}]
             row   == [seen EXCEPT !.state.compiled = @ \cup {c[2]}]
  <2>1. PICK o \in Outcomes(c, row) :
          /\ batch' = [batch EXCEPT ![b] = Flush(@, seen, Honoured(o.row))]
          /\ call' = [call EXCEPT ![c].status = Column(@, callStatus, o.status),
                                  ![c].interrupted = FALSE]
    <3>1. CompileResponse(c, seen, callStatus) /\ c[1] = b
      BY <1>1, <1>2
    <3> HIDE DEF c
    <3>2. QED
      BY <1>6, <3>1 DEF CompileResponse
  <2>2. /\ row \in Rows /\ row \in BatchRow
        /\ row.state.done = done /\ row.state.compiled = batch[b].state.compiled \cup {k}
        /\ row.state.failed = seen.state.failed /\ row.state.replacement = seen.state.replacement
    <3>1. /\ state \in State /\ state.done = done
          /\ state.compiled = batch[b].state.compiled \cup {k}
          /\ state.failed = seen.state.failed /\ state.replacement = seen.state.replacement
      BY <1>0, <1>2, <1>3 DEF State
    <3>2. row = [seen EXCEPT !.state = state]
      BY <1>0, <1>2 DEF BatchRow, State
    <3> HIDE DEF state, row
    <3>3. row.state = state /\ row \in BatchRow
      BY <1>0, <3>1, <3>2 DEF BatchRow
    <3>4. QED
      BY <1>0, <3>1, <3>3 DEF Rows
  <2> HIDE DEF row, state
  <2>3. o.row \in BatchRow
    BY <1>0, <1>2, <2>1, <2>2, OutcomeType DEF Rows
  <2>4. /\ o.row.state.compiled = batch[b].state.compiled \cup {k}
        /\ o.row.state.failed = seen.state.failed
        /\ o.row.state.replacement = seen.state.replacement
        /\ o.row.status \in {"outcome_uncertain", "needs_attention", "queued", "awaiting_plan"}
        /\ \/ /\ o.status = "completed"
              /\ o.row.state.done = a /\ o.row.next = NextAction(a)
           \/ /\ o.status \in {"outcome_uncertain", "local_failure"}
              /\ o.row.state.done = done
              /\ o.row.next = 0 \/ (o.row.next = Steps /\ Skippable(c, row))
    <3>1. c \in Calls /\ row \in BatchRow /\ o \in Outcomes(c, row)
      BY <1>2, <2>1, <2>2
    <3>2. /\ o.row.state.compiled = row.state.compiled
          /\ o.row.state.failed = row.state.failed
          /\ o.row.state.replacement = row.state.replacement
          /\ o.row.status \in {"outcome_uncertain", "needs_attention", "queued", "awaiting_plan"}
          /\ \/ /\ o.status = "completed"
                /\ o.row.state.done = a /\ o.row.next = NextAction(a)
             \/ /\ o.status \in {"outcome_uncertain", "local_failure"}
                /\ o.row.state.done = row.state.done
                /\ o.row.next = 0 \/ (o.row.next = Steps /\ Skippable(c, row))
      BY <3>1, OutcomeGoesOn
    <3>3. QED
      BY <2>2, <3>2
  <2>5. /\ batch'[b].state = o.row.state /\ batch'[b].next \in {0, o.row.next}
        /\ batch'[b].status # "none"
        /\ \A x \in Batches \ {b} : batch'[x] = batch[x]
    <3> DEFINE new == Honoured(o.row)
    <3>1. new.state = o.row.state /\ new.next = o.row.next /\ new.status # "none"
      BY <2>3, <2>4 DEF Honoured, BatchRow
    <3> HIDE DEF new
    <3>2. batch'[b] = Flush(batch[b], seen, new) /\ \A x \in Batches \ {b} : batch'[x] = batch[x]
      BY <1>0, <2>1 DEF new
    <3>3. QED
      BY <1>1, <1>3, <3>1, <3>2 DEF Flush, Column
  <2> DEFINE status == Column(call[c].status, callStatus, o.status)
             other  == [call[c] EXCEPT !.status = status, !.interrupted = FALSE]
  <2>6. /\ other.status = status /\ other.at = call[c].at /\ other.action = a
        /\ o.status = "completed" => status = "completed"
        /\ o.status # "completed" => status \in {"response_saved", "outcome_uncertain",
                                                 "local_failure"}
    <3>1. callStatus # "completed"
      BY <1>6 DEF NothingToCompile
    <3>2. /\ o.status = "completed" => status = "completed"
          /\ o.status # "completed" => status \in {"response_saved", "outcome_uncertain",
                                                   "local_failure"}
      BY <1>2, <2>4, <3>1 DEF Column
    <3> HIDE DEF status
    <3>3. QED
      BY <1>0, <1>2, <3>2 DEF CallRow
  <2>7. call' = [call EXCEPT ![c] = other]
    BY <1>0, <1>2, <2>1 DEF CallRow
  <2> HIDE DEF other, status
  <2>8. /\ call'[c] = other /\ \A j \in SlotIds \ {k} : call'[<<b, j>>] = call[<<b, j>>]
        /\ \A x \in Batches \ {b}, j \in SlotIds : call'[<<x, j>>] = call[<<x, j>>]
    BY <1>0, <1>2, <2>7
  \* The last call of the stage waits for this compilation, so no replay does.
  <2>9. ~Pending(b, seen) /\ \A j \in ClaimedSlots(b) :
                               j = k \/ call[<<b, j>>].at < call[<<b, k>>].at
    <3>1. /\ \A j \in ClaimedSlots(b) : j = k \/ call[<<b, j>>].at # call[<<b, k>>].at
          /\ \A j \in ClaimedSlots(b) : call[<<b, j>>].at \in Nat
      <4>1. \A j \in ClaimedSlots(b) : call[<<b, j>>] \in CallRow
        BY <1>0 DEF ClaimedSlots
      <4>2. \A j \in ClaimedSlots(b) : call[<<b, j>>].at \in Nat
        BY <4>1 DEF CallRow
      <4>3. QED
        BY <1>0, <1>2, <4>2 DEF StageIsSound, CallsInOrder
    <3>2. \A j \in ClaimedSlots(b) : j = k \/ call[<<b, j>>].at < call[<<b, k>>].at
      BY <1>2, <3>1 DEF IsLast
    <3>3. ASSUME Pending(b, seen) PROVE FALSE
      <4>1. /\ seen.state.failed \in ClaimedSlots(b) /\ IsLast(b, seen.state.failed)
            /\ call[<<b, seen.state.failed>>].status \in Closed
        BY <1>3, <3>3 DEF ReplayIsDue, Pending
      <4>2. seen.state.failed = k
        BY <1>2, <3>1, <3>2, <4>1 DEF IsLast
      <4>3. QED
        BY <1>2, <4>1, <4>2 DEF Closed, Failures
    <3>4. QED
      BY <3>2, <3>3
  <2>10. ClaimedSlots(b)' = ClaimedSlots(b)
    BY <1>2, <2>4, <2>6, <2>8 DEF ClaimedSlots
  <2>11. ReplayIsDue(b, batch[b])'
    <3>1. batch'[b].state.failed = seen.state.failed
          /\ batch'[b].state.replacement = seen.state.replacement
      BY <2>4, <2>5
    <3>2. QED
      BY <1>3, <2>9, <2>10, <3>1 DEF ReplayIsDue, Pending
  <2>12. \A q \in Procs : SeenIsSound(b, tasks[q][b])' /\ WorksOnLast(b, tasks[q][b])'
    <3>1. \A q \in Procs : tasks'[q][b].pc = "loop"
      BY <1>1, <1>4 DEF OneExecutor
    <3>2. QED
      BY <3>1 DEF SeenIsSound, WorksOnLast, Remembering, Slotted
  <2>13. /\ CallsInOrder(b)' /\ ResendsNothing(b)' /\ StepsFollow(b)' /\ LastFollows(b)'
         /\ DoneIsCompleted(b)' /\ NextIsDue(b, batch[b])'
    <3>1. \A j \in ClaimedSlots(b) : /\ call'[<<b, j>>].at = call[<<b, j>>].at
                                     /\ call'[<<b, j>>].action = call[<<b, j>>].action
                                     /\ j # k => call'[<<b, j>>] = call[<<b, j>>]
      BY <1>2, <2>6, <2>8 DEF ClaimedSlots
    <3>2. CASE o.status = "completed"
      <4>1. Completes(b, k)
        <5>1. /\ batch'[b].state.done = a /\ batch'[b].next \in {0, NextAction(a)}
              /\ batch'[b].state.compiled = batch[b].state.compiled \cup {k}
              /\ call'[<<b, k>>].status = "completed" /\ a = call[<<b, k>>].action
          <6>1. o.row.state.done = a /\ o.row.next = NextAction(a) /\ a = call[<<b, k>>].action
            BY <1>2, <2>4, <3>2
          <6>2. call'[<<b, k>>].status = "completed"
            BY <1>2, <2>6, <2>8, <3>2
          <6>3. QED
            BY <2>4, <2>5, <6>1, <6>2
        <5>2. QED
          BY <2>9, <2>10, <3>1, <5>1 DEF Completes
      <4>2. QED
        BY <1>0, <1>2, <4>1, CompletedStage
    <3>3. CASE o.status # "completed"
      <4>1. CallsCalm(b)
        <5>1. /\ other.status \in {"response_saved", "outcome_uncertain", "local_failure"}
              /\ other.at = call[c].at /\ other.action = call[c].action
          BY <2>6, <3>3
        <5>2. \A j \in SlotIds : call'[<<b, j>>] = IF j = k THEN other ELSE call[<<b, j>>]
          BY <2>8
        <5>3. call[<<b, k>>].status = "response_saved"
          BY <1>2
        <5>4. QED
          BY <5>1, <5>2, <5>3 DEF CallsCalm, Closed, Failures
      <4>2. CallsInOrder(b)' /\ ResendsNothing(b)' /\ StepsFollow(b)' /\ LastFollows(b)'
        BY <1>0, <4>1, CalmOrder DEF StageIsSound
      <4>3. /\ batch'[b].state.done = done
            /\ batch'[b].state.compiled = batch[b].state.compiled \cup {k}
            /\ batch'[b].next = 0 \/ (batch'[b].next = Steps /\ Skippable(c, row))
        BY <2>4, <2>5, <3>3
      <4>4. DoneIsCompleted(b)'
        <5>1. CompletedIn(b) \subseteq ClaimedSlots(b) /\ ClaimedSlots(b) \subseteq SlotIds
          BY DEF CompletedIn, ClaimedSlots
        <5>2. QED
          BY <1>0, <3>1, <4>1, <4>3, <5>1, CalmCalls DEF StageIsSound, DoneIsCompleted
      <4>5. NextIsDue(b, batch[b])'
        <5>1. CASE batch'[b].next = 0
          BY <5>1 DEF NextIsDue, Fresh
        <5>2. CASE batch'[b].next = Steps /\ Skippable(c, row)
          <6>1. Reader /\ a > 1
            <7>1. Reader /\ 2 < a
              BY <5>2 DEF Skippable
            <7>2. a \in Nat
              BY <1>0, <1>2 DEF CallRow
            <7>3. QED
              BY <7>1, <7>2
          <6>2. 2 \in ClaimedSlots(b)
            BY <1>0, <1>2, <6>1 DEF StageIsSound, CallsInOrder
          <6>3. done + 1 \in ClaimedSlots(b)
            BY <1>0, <1>2 DEF StageIsSound, DoneIsCompleted, CompletedIn
          <6>4. QED
            BY <2>10, <4>3, <5>2, <6>1, <6>2, <6>3 DEF NextIsDue
        <5>3. QED
          BY <4>3, <5>1, <5>2
      <4>6. QED
        BY <4>2, <4>4, <4>5
    <3>4. QED
      BY <3>2, <3>3
  <2>14. StageIsSound(b)'
    BY <2>5, <2>11, <2>12, <2>13 DEF StageIsSound
  <2>15. QED
    BY <1>0, <1>1, <1>4, <2>5, <2>8, <2>14, OnlyStage
<1>7. QED
  BY <1>2, <1>5, <1>6, <1>1 DEF CompileResponse

LEMMA CommandSound ==
  ASSUME LedgerInv, ExecutorInv, NEW p \in Procs, NEW b \in Batches, Command(p, b)
  PROVE  ExecutorInv'
BY CreateSound, CalmCommandSound, AuthorizeInputSound, AuthorizeStepSound, ResolveUnknownSound,
   EditPlanSound, AdoptSound DEF Command

LEMMA RunSound ==
  ASSUME LedgerInv, ExecutorInv, OneExecutor, NEW p \in Procs, NEW b \in Batches, Run(p, b)
  PROVE  ExecutorInv'
<1>1. CASE \/ ClaimRefused(p, b) \/ SendRefused(p, b) \/ Send(p, b)
           \/ \E reply \in Replies : Receive(p, b, reply)
           \/ NoAnswer(p, b) \/ SaveJournal(p, b) \/ Forget(p, b) \/ CompileRaises(p, b)
           \/ FinishErrorFails(p, b)
  BY <1>1, MovingSound
<1>2. CASE ClaimRead(p, b) \/ CompileRead(p, b) \/ FailRead(p, b) \/ FinishErrorRead(p, b)
  BY <1>2, ReadingSound
<1>3. CASE ClaimNothing(p, b) \/ ClaimTooLarge(p, b) \/ FailWrite(p, b) \/ FinishError(p, b)
  BY <1>3, WritingSound
<1>4. CASE Claim(p, b) \/ Store(p, b) \/ Compile(p, b)
  BY <1>4, ClaimSound, StoreSound, CompileSound
<1>5. QED
  BY <1>1, <1>2, <1>3, <1>4 DEF Run

LEMMA ExecutorStep ==
  ASSUME LedgerInv, ExecutorInv, OneExecutor, [Next]_vars
  PROVE  ExecutorInv'
<1>1. CASE UNCHANGED vars
  <2>1. UNCHANGED <<batch, call, tasks, acquiring, mode, starts, pending_starts>>
    BY <1>1 DEF vars, dbVars, procVars, startVars
  <2>2. QED
    BY <2>1, StillAlone, QuietStage DEF ExecutorInv, LedgerInv
<1>2. ASSUME NEW p \in Procs, Process(p) PROVE ExecutorInv'
  BY <1>2, ProcessSound
<1>3. ASSUME NEW p \in Procs, NEW b \in Batches, Command(p, b) \/ Run(p, b) PROVE ExecutorInv'
  BY <1>3, CommandSound, RunSound
<1>4. QED
  BY <1>1, <1>2, <1>3 DEF Next, OneExecutor

LEMMA ExecutorAlways ==
  ASSUME OneExecutor
  PROVE  Spec => [](LedgerInv /\ ExecutorInv)
<1>1. Init => LedgerInv /\ ExecutorInv
  BY LedgerInit, ExecutorInit
<1>2. LedgerInv /\ ExecutorInv /\ [Next]_vars => LedgerInv' /\ ExecutorInv'
  BY LedgerStep, ExecutorStep DEF KeepsLedger
<1>3. QED
  BY <1>1, <1>2, PTL DEF Spec

-----------------------------------------------------------------------------
(* What the invariant says of the calls, in the words of the properties.   *)

LEMMA CallsAreNumbered ==
  ASSUME LedgerInv, ExecutorInv, NEW b \in Batches
  PROVE  /\ \A k \in ClaimedSlots(b) : call[<<b, k>>].at \in Nat /\ call[<<b, k>>].action \in 1 .. Steps
         /\ CallsInOrder(b) /\ ResendsNothing(b) /\ StepsFollow(b) /\ LastFollows(b)
         /\ DoneIsCompleted(b)
<1>1. StageIsSound(b)
  BY DEF ExecutorInv
<1>2. \A k \in ClaimedSlots(b) : call[<<b, k>>] \in CallRow
  BY DEF LedgerInv, TypeInv, CallTypes, Calls, ClaimedSlots
<1>3. QED
  BY <1>1, <1>2 DEF StageIsSound, CallsInOrder, CallRow, Actions

\* With one process that executes, an action is claimed again only after its earlier call was
\* closed as a failure: no call whose outcome is unknown is repeated, for any number of stages,
\* steps, slots, faults and edits of its author (step_recovery.py authorize_step).
THEOREM NothingResent ==
  ASSUME OneExecutor
  PROVE  Spec => []NoSilentResend
<1>1. LedgerInv /\ ExecutorInv => NoSilentResend
  BY CallsAreNumbered DEF NoSilentResend, ResendsNothing, Closed
<1>2. QED
  BY <1>1, ExecutorAlways, PTL

\* With one process that executes, every action is claimed after the one before it completed,
\* but for the independent cold read, and nothing follows the last action except its own
\* replays (runtime.py claim, longform.py choose_next).
THEOREM StepsSound ==
  ASSUME OneExecutor
  PROVE  Spec => []StepsAreSound
<1>1. ASSUME LedgerInv, ExecutorInv PROVE StepsInOrder
  BY <1>1, CallsAreNumbered DEF StepsInOrder, StepsFollow, CompletedIn
<1>2. ASSUME LedgerInv, ExecutorInv PROVE LastStepIsLast
  BY <1>2, CallsAreNumbered DEF LastStepIsLast, LastFollows
<1>3. LedgerInv /\ ExecutorInv => StepsAreSound
  BY <1>1, <1>2 DEF StepsAreSound
<1>4. QED
  BY <1>3, ExecutorAlways, PTL

\* With one process that executes, the JSON column of a stage never forgets a completed call,
\* although a task writes back the column it read before it waited for the model
\* (runtime.py local_failure, step_recovery.py authorize_step).
THEOREM CompletedRemembered ==
  ASSUME OneExecutor
  PROVE  Spec => []CompletedIsRemembered
<1>1. LedgerInv /\ ExecutorInv => CompletedIsRemembered
  BY CallsAreNumbered DEF CompletedIsRemembered, DoneIsCompleted, CompletedIn
<1>2. QED
  BY <1>1, ExecutorAlways, PTL

LEMMA LeastExists ==
  ASSUME NEW S \in SUBSET Nat, S # {}
  PROVE  \E x \in S : \A y \in S : x <= y
<1>1. PICK x \in S : \A y \in S : <<y, x>> \notin OpToRel(<, Nat)
  BY NatLessThanWellFounded, WFMin
<1>2. \A y \in S : ~(y < x)
  BY <1>1 DEF OpToRel
<1>3. QED
  BY <1>2

\* The action before the one of a later call completed after an unfinished call that is not of
\* the same action: so there is no first later action.
LEMMA NothingFollowsUnfinished ==
  ASSUME LedgerInv, ExecutorInv, ~Reader, NEW b \in Batches,
         NEW j \in ClaimedSlots(b), call[<<b, j>>].status \notin Closed \cup {"completed"},
         NEW k \in ClaimedSlots(b), call[<<b, j>>].at < call[<<b, k>>].at
  PROVE  FALSE
<1> DEFINE later == {i \in ClaimedSlots(b) : call[<<b, j>>].at < call[<<b, i>>].at}
           A == {call[<<b, i>>].action : i \in later}
<1>1. /\ \A i \in ClaimedSlots(b) : call[<<b, i>>].at \in Nat /\ call[<<b, i>>].action \in Nat
      /\ CallsInOrder(b) /\ ResendsNothing(b) /\ StepsFollow(b)
  BY CallsAreNumbered
<1>2. PICK a \in A : \A x \in A : a <= x
  <2>1. A \in SUBSET Nat /\ A # {}
    BY <1>1
  <2> HIDE DEF A
  <2>2. QED
    BY <2>1, LeastExists
<1>3. PICK i \in later : call[<<b, i>>].action = a
  BY <1>2
<1>4. call[<<b, j>>].action < a
  <2>1. call[<<b, j>>].action <= a
    BY <1>1, <1>3 DEF CallsInOrder
  <2>2. call[<<b, j>>].action # a
    BY <1>1, <1>3 DEF ResendsNothing
  <2>3. QED
    BY <1>1, <1>3, <2>1, <2>2
<1>5. PICK h \in CompletedIn(b) : call[<<b, h>>].action = a - 1
  <2>1. a > 1
    <3>1. call[<<b, j>>].action \in 1 .. Steps
      BY CallsAreNumbered
    <3>2. QED
      BY <1>1, <1>3, <1>4, <3>1
  <2>2. QED
    BY <1>1, <1>3, <2>1 DEF StepsFollow
<1>6. h \in ClaimedSlots(b) /\ h # j /\ call[<<b, h>>].status = "completed"
  BY <1>5 DEF CompletedIn
<1>7. call[<<b, h>>].at < call[<<b, j>>].at
  <2>1. h \notin later
    <3>1. a \in Nat /\ call[<<b, h>>].action \in Nat /\ call[<<b, h>>].action < a
      BY <1>1, <1>3, <1>5, <1>6
    <3>2. ASSUME h \in later PROVE FALSE
      <4>1. call[<<b, h>>].action \in A
        BY <3>2
      <4> HIDE DEF A, later
      <4>2. QED
        BY <1>2, <3>1, <4>1
    <3>3. QED
      BY <3>2
  <2>2. call[<<b, h>>].at # call[<<b, j>>].at
    BY <1>1, <1>6 DEF CallsInOrder
  <2>3. QED
    BY <1>1, <1>6, <2>1, <2>2
<1>8. call[<<b, h>>].action = call[<<b, j>>].action
  <2>1. call[<<b, h>>].action <= call[<<b, j>>].action
    BY <1>1, <1>6, <1>7 DEF CallsInOrder
  <2>2. QED
    BY <1>1, <1>3, <1>4, <1>5, <1>6, <2>1
<1>9. QED
  BY <1>1, <1>6, <1>7, <1>8 DEF ResendsNothing, Closed, Failures

\* With one process that executes and no cold read, a stage has one executing call at a time
\* (runtime.py claim, reconcile).
THEOREM OneExecutes ==
  ASSUME OneExecutor, ~Reader
  PROVE  Spec => []OneExecuting
<1>1. ASSUME LedgerInv, ExecutorInv, NEW b \in Batches, NEW j \in SlotIds, NEW k \in SlotIds,
             call[<<b, j>>].status = "executing", call[<<b, k>>].status = "executing"
      PROVE  j = k
  <2>1. {j, k} \subseteq ClaimedSlots(b)
    BY <1>1 DEF ClaimedSlots
  <2>2. "executing" \notin Closed \cup {"completed"}
    BY DEF Closed, Failures
  <2>3. ~(call[<<b, j>>].at < call[<<b, k>>].at) /\ ~(call[<<b, k>>].at < call[<<b, j>>].at)
    BY <1>1, <2>1, <2>2, NothingFollowsUnfinished
  <2>4. call[<<b, j>>].at = call[<<b, k>>].at
    BY <1>1, <2>1, <2>3, CallsAreNumbered
  <2>5. QED
    BY <1>1, <2>1, <2>4, CallsAreNumbered DEF CallsInOrder
<1>2. LedgerInv /\ ExecutorInv => OneExecuting
  BY <1>1 DEF OneExecuting
<1>3. QED
  BY <1>2, ExecutorAlways, PTL

-----------------------------------------------------------------------------
(* Active stages are driven.  A stage that the database calls queued or    *)
(* running has a task, or a route that will start one, while the process   *)
(* serves.  What endangers it is a task that ends by a row it read before  *)
(* its author authorized the stage anew: it finds nothing to claim, or     *)
(* writes columns of the remembered row that have not changed in it.  Then *)
(* the new authorization must have asked for another task.                 *)
(*                                                                         *)
(* Besides OneExecutor the hypotheses are one stage, since an adoption in  *)
(* another one archives a stage under its task, and a database that        *)
(* accepts the write that records an error and acknowledges its commits.   *)

OneStage == \A a, b \in Batches : a = b

Active  == {"queued", "running"}

\* Places of a task that holds its call and the row it read for it.
Holding == {"compile", "refused_write", "unknown_write"}

\* A compiled call has its answer and is not taken up again.
CompiledIsOver(b) ==
  \A k \in batch[b].state.compiled :
    /\ call[<<b, k>>].status \notin {"none", "executing", "response_saved"}
    /\ call[<<b, k>>].response # "none"

\* The stage of a call that is worked on is running, and only a pause is asked of it meanwhile;
\* a task that is about to claim comes to a stage that does not run yet.
Working(p, b) ==
  LET t   == tasks[p][b]
      row == batch[b]
  IN
  /\ t.pc \in Slotted => row.status = "running" /\ row.authorized
  /\ t.pc \in Holding => t.seen = [row EXCEPT !.pause = t.seen.pause]
  /\ t.pc = "compile" => t.callStatus = "response_saved"
  /\ t.pc = "claim" =>
       /\ t.seen.status # "running"
       /\ MayClaim(t.seen) => row.authorized /\ row.status # "outcome_uncertain"
  /\ t.pc = "fail_write" /\ row.status = "running" => t.seen.status = "running"

\* Where nobody has asked for a task, the one there is will see that the stage is active.
Noticed(p, b) ==
  LET t == tasks[p][b] IN
  mode[p] = "up" /\ batch[b].status \in Active /\ b \notin starts[p] \cup pending_starts[p] =>
    /\ t.pc = "claim" => MayClaim(t.seen)
    /\ t.pc = "fail_write" => t.seen.status \in Active

\* While the process serves, a stage without a task at its call is not running, and one
\* that is queued can be claimed and has somebody to start a task.
Driven(p, b) ==
  LET t   == tasks[p][b]
      row == batch[b]
  IN
  available[p] /\ mode[p] = "up" =>
    /\ t.pc \in {"idle", "loop", "claim"} => row.status # "running"
    /\ t.pc = "idle" /\ row.status = "queued" => b \in starts[p]
    /\ row.status = "queued" => row.authorized /\ row.next # 0
    /\ t.pc = "fail" \/ (t.pc = "claim" /\ MayClaim(t.seen)) =>
         ~(row.status = "needs_attention" /\ row.next # 0)
    /\ t.pc = "fail_write" => ~(t.seen.status = "needs_attention" /\ t.seen.next # 0)

Opened(p) == available[p] => mode[p] \in {"up", "draining"}

ActiveInv ==
  \A p \in Procs : Opened(p) /\ \A b \in Batches :
    CompiledIsOver(b) /\ Working(p, b) /\ Noticed(p, b) /\ Driven(p, b)

\* With one process and one stage there is one task to look at.
LEMMA ActiveTask ==
  ASSUME OneExecutor, OneStage, NEW p \in Procs, NEW b \in Batches,
         Opened(p)', CompiledIsOver(b)', Working(p, b)', Noticed(p, b)', Driven(p, b)'
  PROVE  ActiveInv'
<1>1. \A q \in Procs : q = p
  BY DEF OneExecutor
<1>2. \A x \in Batches : x = b
  BY DEF OneStage
<1>3. QED
  BY <1>1, <1>2 DEF ActiveInv

LEMMA CompiledStays ==
  ASSUME TypeInv, NEW b \in Batches, CompiledIsOver(b),
         batch'[b].state.compiled \subseteq batch[b].state.compiled,
         \A k \in SlotIds :
           /\ call[<<b, k>>].status \notin {"none", "executing", "response_saved"}
           /\ call[<<b, k>>].response # "none"
           => /\ call'[<<b, k>>].status \notin {"none", "executing", "response_saved"}
              /\ call'[<<b, k>>].response # "none"
  PROVE  CompiledIsOver(b)'
<1>1. batch[b].state.compiled \subseteq SlotIds
  BY DEF TypeInv, BatchTypes, Rows, BatchRow, State
<1>2. QED
  BY <1>1 DEF CompiledIsOver

\* A stage nothing changes in.
LEMMA ActiveStill ==
  ASSUME LedgerInv, ActiveInv, OneExecutor, OneStage, UNCHANGED <<batch, call, tasks>>,
         NEW p \in Procs, Opened(p)',
         mode'[p] = "up" => mode[p] = "up" /\ UNCHANGED <<starts, pending_starts>>,
         available'[p] /\ mode'[p] = "up" => available[p]
  PROVE  ActiveInv'
<1> SUFFICES ASSUME NEW b \in Batches
             PROVE  CompiledIsOver(b)' /\ Working(p, b)' /\ Noticed(p, b)' /\ Driven(p, b)'
  BY DEF ActiveInv, OneExecutor
<1>0. CompiledIsOver(b) /\ Working(p, b) /\ Noticed(p, b) /\ Driven(p, b)
  BY DEF ActiveInv
<1>1. CompiledIsOver(b)'
  BY <1>0 DEF CompiledIsOver
<1>2. Working(p, b)'
  BY <1>0 DEF Working, MayClaim
<1>3. Noticed(p, b)'
  BY <1>0 DEF Noticed, MayClaim
<1>4. Driven(p, b)'
  BY <1>0 DEF Driven, MayClaim
<1>5. QED
  BY <1>1, <1>2, <1>3, <1>4

\* Rows after which no task is at work, and nothing is left to drive.
LEMMA RestsAgain ==
  ASSUME OneExecutor, OneStage, NEW p \in Procs, NEW b \in Batches, Opened(p)', CompiledIsOver(b)',
         tasks'[p][b].pc \in {"idle", "loop"},
         mode'[p] = "up" => batch'[b].status \notin Active
  PROVE  ActiveInv'
<1>1. Working(p, b)'
  BY DEF Working, Slotted, Holding
<1>2. Noticed(p, b)' /\ Driven(p, b)'
  BY DEF Noticed, Driven, Active
<1>3. QED
  BY <1>1, <1>2, ActiveTask

LEMMA ReconcileOver ==
  ASSUME LedgerInv, NEW b \in Batches, CompiledIsOver(b), Reconcile
  PROVE  CompiledIsOver(b)' /\ batch'[b].status \notin Active
<1>0. /\ TypeInv /\ call \in [Calls -> CallRow] /\ batch[b] \in BatchRow
      /\ \A k \in SlotIds : <<b, k>> \in Calls
  BY DEF LedgerInv, TypeInv, CallTypes, BatchTypes, Rows, Calls
<1>1. batch'[b] = Reconciled(b)
  BY DEF Reconcile
<1>2. batch'[b].state = batch[b].state /\ batch'[b].status \notin Active
  BY <1>0, <1>1 DEF Reconciled, BatchRow, Active, Terminal
<1>3. \A k \in SlotIds : call[<<b, k>>].status # "executing" => call'[<<b, k>>] = call[<<b, k>>]
  BY <1>0 DEF Reconcile
<1>4. QED
  BY <1>0, <1>2, <1>3, CompiledStays

LEMMA OpenStays ==
  ASSUME ActiveInv, NEW p \in Procs, available'[p] => available[p], mode'[p] = mode[p]
  PROVE  Opened(p)'
BY DEF ActiveInv, Opened

\* What a process leaves of an answer that is stored.
LEMMA PersistOver ==
  ASSUME LedgerInv, NEW c \in Calls, Persist(c), NEW b \in Batches, CompiledIsOver(b),
         batch'[b].state = batch[b].state
  PROVE  CompiledIsOver(b)'
<1>1. call \in [Calls -> CallRow] /\ \A k \in SlotIds : <<b, k>> \in Calls
  BY DEF LedgerInv, TypeInv, CallTypes, Calls
<1>2. \A k \in SlotIds : call[<<b, k>>].response # "none" => call'[<<b, k>>] = call[<<b, k>>]
  BY <1>1 DEF Persist
<1>3. QED
  BY <1>2, CompiledStays DEF LedgerInv

LEMMA OwnerActive ==
  ASSUME LedgerInv, ExecutorInv, ActiveInv, OneExecutor, OneStage, "db" \notin Faults,
         NEW p \in Procs,
         Boot(p) \/ AcquireOwner(p) \/ OpenService(p) \/ DiscardOwner(p) \/ LoseOwner(p) \/ Drain(p)
  PROVE  ActiveInv'
<1>0. TypeInv /\ Opened(p)
  BY DEF LedgerInv, ActiveInv
<1>1. mode \in [Procs -> {"down", "starting", "up", "draining"}] /\ available \in [Procs -> BOOLEAN]
  BY <1>0 DEF TypeInv, ControlTypes
<1>2. CASE Boot(p)
  <2>1. mode'[p] = "starting" /\ UNCHANGED <<batch, call, tasks, available>> /\ mode[p] = "down"
    BY <1>1, <1>2 DEF Boot, dbVars
  <2>2. Opened(p)'
    BY <1>0, <2>1 DEF Opened
  <2>3. QED
    BY <2>1, <2>2, ActiveStill
<1>3. CASE AcquireOwner(p) \/ DiscardOwner(p)
  <2>1. /\ ~available'[p] /\ mode' = mode
        /\ UNCHANGED <<batch, call, tasks, starts, pending_starts>>
    BY <1>1, <1>3 DEF AcquireOwner, DiscardOwner, dbVars, startVars
  <2>2. QED
    BY <2>1, OpenStays, ActiveStill
<1>4. CASE LoseOwner(p)
  <2>1. UNCHANGED <<batch, call, tasks, starts, pending_starts, available, mode>>
    BY <1>4 DEF LoseOwner, dbVars, startVars
  <2>2. QED
    BY <2>1, OpenStays, ActiveStill
<1>5. CASE Drain(p)
  <2>1. mode'[p] = "draining" /\ UNCHANGED <<batch, call, tasks, available>>
    BY <1>1, <1>5 DEF Drain, dbVars
  <2>2. Opened(p)'
    BY <2>1 DEF Opened
  <2>3. QED
    BY <2>1, <2>2, ActiveStill
<1>6. CASE OpenService(p)
  <2>1. /\ acquiring[p] /\ Reconcile /\ mode' = [mode EXCEPT ![p] = "up"]
        /\ UNCHANGED tasks
    BY <1>6 DEF OpenService, Fault
  <2>2. Opened(p)'
    BY <1>1, <2>1 DEF Opened
  <2>3. ASSUME NEW b \in Batches PROVE ActiveInv'
    <3>1. tasks'[p][b].pc \in {"idle", "loop"}
      BY <2>1 DEF ExecutorInv, OwnerIsAlone
    <3>2. CompiledIsOver(b)
      BY DEF ActiveInv
    <3>3. QED
      BY <2>1, <2>2, <3>1, <3>2, ReconcileOver, RestsAgain
  <2>4. QED
    BY <2>2, <2>3 DEF ActiveInv, OneExecutor
<1>7. QED
  BY <1>2, <1>3, <1>4, <1>5, <1>6

LEMMA GoneActive ==
  ASSUME LedgerInv, ActiveInv, OneExecutor, OneStage, NEW p \in Procs, Gone(p),
         Reconcile \/ UNCHANGED <<batch, call>>
  PROVE  ActiveInv'
<1>1. /\ mode'[p] = "down" /\ ~available'[p]
      /\ \A b \in Batches : tasks'[p][b].pc = "idle"
  BY DEF Gone, Idle, LedgerInv, TypeInv, TaskTypes, ControlTypes
<1>2. Opened(p)'
  BY <1>1 DEF Opened
<1>3. ASSUME NEW b \in Batches PROVE ActiveInv'
  <2>1. CompiledIsOver(b)
    BY DEF ActiveInv
  <2>2. CompiledIsOver(b)'
    BY <2>1, ReconcileOver DEF CompiledIsOver
  <2>3. QED
    BY <1>1, <1>2, <2>2, RestsAgain
<1>4. QED
  BY <1>2, <1>3 DEF ActiveInv, OneExecutor

LEMMA StartActive ==
  ASSUME LedgerInv, ActiveInv, OneExecutor, OneStage, "db" \notin Faults, NEW p \in Procs,
         NEW b \in Batches, Start(p, b)
  PROVE  ActiveInv'
<1>0. /\ CompiledIsOver(b) /\ Working(p, b) /\ Noticed(p, b) /\ Driven(p, b)
      /\ tasks \in [Procs -> [Batches -> TaskRows]]
      /\ starts \in [Procs -> SUBSET Batches] /\ pending_starts \in [Procs -> SUBSET Batches]
  BY DEF ActiveInv, LedgerInv, TypeInv, TaskTypes, ControlTypes
<1>1. /\ UNCHANGED <<batch, call, mode, available>> /\ StartRun(p, b)
      /\ b \in starts[p]
  BY DEF Start, Fault, dbVars, procVars
<1>2. Opened(p)' /\ CompiledIsOver(b)'
  BY <1>0, <1>1, OpenStays DEF CompiledIsOver
<1>3. CASE mode[p] # "up"
  BY <1>1, <1>2, <1>3, ActiveStill DEF StartRun
<1>4. CASE /\ LiveTask(p, b) /\ UNCHANGED tasks
           /\ pending_starts' = [pending_starts EXCEPT ![p] = @ \cup {b}]
  <2>1. Working(p, b)'
    BY <1>0, <1>1, <1>4 DEF Working, MayClaim
  <2>2. Noticed(p, b)'
    BY <1>0, <1>4 DEF Noticed
  <2>3. Driven(p, b)'
    BY <1>0, <1>1, <1>4 DEF Driven, MayClaim, LiveTask
  <2>4. QED
    BY <1>2, <2>1, <2>2, <2>3, ActiveTask
<1>5. CASE /\ ~LiveTask(p, b)
           /\ tasks' = [tasks EXCEPT ![p][b] = [Idle EXCEPT !.pc = "loop"]]
  <2>1. tasks'[p][b].pc = "loop" /\ tasks[p][b].pc = "idle"
    BY <1>0, <1>5 DEF Idle, LiveTask
  <2>2. Working(p, b)' /\ Noticed(p, b)'
    BY <2>1 DEF Working, Noticed, Slotted, Holding
  <2>3. Driven(p, b)'
    BY <1>0, <1>1, <2>1 DEF Driven, MayClaim
  <2>4. QED
    BY <1>2, <2>2, <2>3, ActiveTask
<1>6. QED
  BY <1>1, <1>3, <1>4, <1>5 DEF StartRun

LEMMA CancelActive ==
  ASSUME LedgerInv, ActiveInv, OneExecutor, OneStage, NEW p \in Procs, NEW b \in Batches,
         Cancel(p, b)
  PROVE  ActiveInv'
<1>0. /\ CompiledIsOver(b) /\ Working(p, b)
      /\ tasks \in [Procs -> [Batches -> TaskRow]]
  BY SlottedTask DEF ActiveInv, LedgerInv, TypeInv, TaskTypes, TaskRows
<1>1. UNCHANGED <<batch, call, mode, available>> /\ mode[p] = "draining"
  BY DEF Cancel, dbVars, procVars
<1>2. Opened(p)' /\ CompiledIsOver(b)'
  BY <1>0, <1>1, OpenStays DEF CompiledIsOver
<1>3. tasks'[p][b].pc \in {"idle", "fail"} \/ (tasks'[p][b].pc = "unknown" /\ tasks[p][b].pc \in Slotted)
  BY <1>0 DEF Cancel, CancelPc, Goto, Idle, TaskRow, Slotted
<1>4. Working(p, b)'
  BY <1>0, <1>1, <1>3 DEF Working, Holding, Slotted
<1>5. Noticed(p, b)' /\ Driven(p, b)'
  BY <1>1 DEF Noticed, Driven
<1>6. QED
  BY <1>2, <1>4, <1>5, ActiveTask

LEMMA RecoverActive ==
  ASSUME LedgerInv, ActiveInv, OneExecutor, OneStage, NEW p \in Procs, NEW c \in Calls,
         Recover(p, c)
  PROVE  ActiveInv'
<1>1. PICK b \in Batches, k \in SlotIds : c = <<b, k>>
  BY DEF Calls
<1>2. /\ CompiledIsOver(b) /\ Driven(p, b) /\ batch \in [Batches -> BatchRow]
  BY DEF ActiveInv, LedgerInv, TypeInv, BatchTypes, Rows
<1>3. /\ UNCHANGED <<tasks, starts, mode, available>> /\ tasks[p][b].pc = "idle"
      /\ Persist(c)
  BY <1>1 DEF Recover, LiveTask, procVars, startVars
<1>4. /\ batch'[b].state = batch[b].state
      /\ batch'[b] = batch[b] \/ batch'[b].status = "needs_attention"
  BY <1>1, <1>2 DEF Recover, BatchRow
<1>5. Opened(p)' /\ CompiledIsOver(b)'
  BY <1>2, <1>3, <1>4, OpenStays, PersistOver
<1>6. Working(p, b)' /\ Noticed(p, b)'
  BY <1>3 DEF Working, Noticed, Slotted, Holding
<1>7. Driven(p, b)'
  BY <1>2, <1>3, <1>4 DEF Driven, MayClaim
<1>8. QED
  BY <1>5, <1>6, <1>7, ActiveTask

LEMMA ProcessActive ==
  ASSUME LedgerInv, ExecutorInv, ActiveInv, OneExecutor, OneStage, "db" \notin Faults,
         NEW p \in Procs, Process(p)
  PROVE  ActiveInv'
<1>1. CASE Crash(p)
  BY <1>1, GoneActive DEF Crash
<1>2. CASE Close(p)
  BY <1>2, GoneActive DEF Close
<1>3. QED
  BY <1>1, <1>2, OwnerActive, StartActive, CancelActive, RecoverActive DEF Process

\* A task that goes on with its call, or gives it up.
LEMMA MoveActive ==
  ASSUME LedgerInv, ActiveInv, OneExecutor, OneStage, NEW p \in Procs, NEW b \in Batches, NEW pc,
         Goto(p, b, pc), UNCHANGED <<batch, mode>>, available'[p] => available[p],
         CompiledIsOver(b)',
         \/ /\ pc \in {"flight", "journal", "store", "forget", "check", "refused", "unknown"}
            /\ tasks[p][b].pc \in Slotted
         \/ /\ pc = "fail"
            /\ \/ tasks[p][b].pc \in Slotted
               \/ tasks[p][b].pc = "claim" /\ MayClaim(tasks[p][b].seen)
               \/ ~available'[p]
  PROVE  ActiveInv'
<1>0. /\ Working(p, b) /\ Driven(p, b)
      /\ tasks \in [Procs -> [Batches -> TaskRows]] /\ tasks[p][b] \in TaskRow
  BY SlottedTask DEF ActiveInv, LedgerInv, TypeInv, TaskTypes, TaskRows
<1>1. tasks'[p][b].pc = pc
  BY <1>0 DEF Goto, TaskRow
<1>2. Working(p, b)'
  BY <1>0, <1>1 DEF Working, Slotted, Holding
<1>3. Noticed(p, b)'
  BY <1>1 DEF Noticed
<1>4. Driven(p, b)'
  <2>1. tasks[p][b].pc \in Slotted => batch[b].status = "running"
    BY <1>0 DEF Working
  <2>2. QED
    BY <1>0, <1>1, <2>1 DEF Driven, MayClaim
<1>5. Opened(p)'
  BY OpenStays
<1>6. QED
  BY <1>2, <1>3, <1>4, <1>5, ActiveTask

\* A task that ends leaves a stage at rest, or somebody who starts another one.
LEMMA EndActive ==
  ASSUME LedgerInv, ActiveInv, OneExecutor, OneStage, NEW p \in Procs, NEW b \in Batches,
         EndTask(p, b), UNCHANGED <<starts, mode>>, available'[p] => available[p],
         CompiledIsOver(b)',
         available'[p] /\ mode[p] = "up" =>
           /\ batch'[b].status # "running"
           /\ batch'[b].status = "queued" =>
                batch'[b].authorized /\ batch'[b].next # 0 /\ b \in starts[p] \cup pending_starts[p]
  PROVE  ActiveInv'
<1>1. tasks \in [Procs -> [Batches -> TaskRows]]
  BY DEF LedgerInv, TypeInv, TaskTypes
<1>2. tasks'[p][b].pc = IF b \in pending_starts[p] THEN "loop" ELSE "idle"
  BY <1>1 DEF EndTask, Idle
<1>3. Working(p, b)' /\ Noticed(p, b)'
  BY <1>2 DEF Working, Noticed, Slotted, Holding
<1>4. Driven(p, b)'
  BY <1>2 DEF Driven
<1>5. Opened(p)'
  BY OpenStays
<1>6. QED
  BY <1>3, <1>4, <1>5, ActiveTask

\* A task that reads the row of its stage.
LEMMA ReadActive ==
  ASSUME LedgerInv, ActiveInv, OneExecutor, OneStage, NEW p \in Procs, NEW b \in Batches, NEW t,
         tasks' = [tasks EXCEPT ![p][b] = t], t.seen = batch[b], UNCHANGED <<batch, call, mode>>,
         UNCHANGED <<starts, pending_starts, available>>,
         \/ t.pc = "claim" /\ tasks[p][b].pc = "loop" /\ available[p] /\ mode[p] # "draining"
         \/ t.pc \in Holding /\ tasks[p][b].pc \in Slotted
                             /\ (t.pc = "compile" => t.callStatus = "response_saved")
         \/ t.pc = "fail_write" /\ tasks[p][b].pc = "fail"
  PROVE  ActiveInv'
<1>0. /\ CompiledIsOver(b) /\ Working(p, b) /\ Driven(p, b) /\ Opened(p)
      /\ tasks \in [Procs -> [Batches -> TaskRows]] /\ batch[b] \in BatchRow
  BY DEF ActiveInv, LedgerInv, TypeInv, TaskTypes, BatchTypes, Rows
<1>1. tasks'[p][b] = t
  BY <1>0
<1>2. CompiledIsOver(b)' /\ Opened(p)'
  BY <1>0, OpenStays DEF CompiledIsOver
<1>3. t.pc = "claim" => mode[p] = "up"
  BY <1>0 DEF Opened, Holding
<1>4. batch[b] = [batch[b] EXCEPT !.pause = batch[b].pause]
  BY <1>0 DEF BatchRow
<1>5. Working(p, b)'
  BY <1>0, <1>1, <1>3, <1>4 DEF Working, Driven, MayClaim, Holding, Slotted
<1>6. Noticed(p, b)'
  BY <1>0, <1>1, <1>3 DEF Noticed, Driven, MayClaim, Active, Holding
<1>7. Driven(p, b)'
  BY <1>0, <1>1, <1>3 DEF Driven, MayClaim, Holding
<1>8. QED
  BY <1>2, <1>5, <1>6, <1>7, ActiveTask

LEMMA MovingActive ==
  ASSUME LedgerInv, ActiveInv, OneExecutor, OneStage, "db" \notin Faults,
         NEW p \in Procs, NEW b \in Batches,
         \/ ClaimRefused(p, b) \/ SendRefused(p, b) \/ Send(p, b)
         \/ \E reply \in Replies : Receive(p, b, reply)
         \/ NoAnswer(p, b) \/ SaveJournal(p, b) \/ Forget(p, b) \/ CompileRaises(p, b)
         \/ FinishErrorFails(p, b)
  PROVE  ActiveInv'
<1>1. UNCHANGED <<batch, call, mode, available>>
  BY DEF ClaimRefused, SendRefused, Send, Receive, NoAnswer, SaveJournal, Forget,
         CompileRaises, FinishErrorFails, dbVars, procVars
<1>2. CompiledIsOver(b)'
  BY <1>1 DEF ActiveInv, CompiledIsOver
<1>3. \/ /\ Goto(p, b, "fail")
         /\ tasks[p][b].pc = "claim" /\ MayClaim(tasks[p][b].seen)
      \/ \E pc \in {"flight", "journal", "store", "forget", "check", "refused", "unknown"} :
           Goto(p, b, pc) /\ tasks[p][b].pc \in Slotted
  BY DEF ClaimRefused, Claiming, SendRefused, Send, Receive, NoAnswer, SaveJournal, Forget,
         CompileRaises, FinishErrorFails, Fault, At, Slotted
<1>4. CASE /\ Goto(p, b, "fail")
           /\ tasks[p][b].pc = "claim" /\ MayClaim(tasks[p][b].seen)
  BY <1>1, <1>2, <1>4, MoveActive
<1>5. ASSUME NEW pc \in {"flight", "journal", "store", "forget", "check", "refused", "unknown"},
             Goto(p, b, pc), tasks[p][b].pc \in Slotted
      PROVE  ActiveInv'
  BY <1>1, <1>2, <1>5, MoveActive
<1>6. QED
  BY <1>3, <1>4, <1>5

LEMMA StoreActive ==
  ASSUME LedgerInv, ActiveInv, OneExecutor, OneStage, "db" \notin Faults,
         NEW p \in Procs, NEW b \in Batches, Store(p, b)
  PROVE  ActiveInv'
<1>1. /\ UNCHANGED <<batch, mode, available>> /\ tasks[p][b].pc \in Slotted
  BY DEF Store, At, Slotted, procVars
<1>2. CallOf(p, b) \in Calls
  BY <1>1, SlottedTask DEF LedgerInv, TypeInv
<1>3. \/ Persist(CallOf(p, b)) /\ Goto(p, b, "forget")
      \/ UNCHANGED call /\ Goto(p, b, "fail")
  BY DEF Store, Fault
<1>4. CompiledIsOver(b)'
  <2>1. CASE UNCHANGED call
    BY <1>1, <2>1 DEF ActiveInv, CompiledIsOver
  <2>2. CASE Persist(CallOf(p, b))
    BY <1>1, <1>2, <2>2, PersistOver DEF ActiveInv
  <2>3. QED
    BY <1>3, <2>1, <2>2
<1>5. QED
  BY <1>1, <1>3, <1>4, MoveActive

LEMMA ReadingActive ==
  ASSUME LedgerInv, ExecutorInv, ActiveInv, OneExecutor, OneStage,
         NEW p \in Procs, NEW b \in Batches,
         ClaimRead(p, b) \/ CompileRead(p, b) \/ FailRead(p, b) \/ FinishErrorRead(p, b)
  PROVE  ActiveInv'
<1>0. /\ tasks[p][b] \in TaskRow /\ tasks \in [Procs -> [Batches -> TaskRows]]
      /\ available \in [Procs -> BOOLEAN]
  BY SlottedTask DEF LedgerInv, TypeInv, TaskTypes, TaskRows, ControlTypes
<1>1. UNCHANGED <<batch, call, starts, mode>>
  BY DEF ClaimRead, CompileRead, FailRead, FinishErrorRead, ErrorRead, dbVars, procVars, startVars
<1>2. CompiledIsOver(b)'
  BY <1>1 DEF ActiveInv, CompiledIsOver
<1>3. CASE ClaimRead(p, b)
  <2>1. CASE mode[p] = "draining" /\ EndTask(p, b) /\ UNCHANGED available
    BY <1>1, <1>2, <2>1, EndActive
  <2>2. CASE Goto(p, b, "fail") /\ available' = [available EXCEPT ![p] = FALSE]
    BY <1>0, <1>1, <1>2, <2>2, MoveActive
  <2>3. CASE /\ tasks' = [tasks EXCEPT ![p][b].pc = "claim", ![p][b].seen = batch[b]]
             /\ CheckOwner(p) /\ mode[p] # "draining" /\ UNCHANGED <<startVars, available>>
    <3> DEFINE t == [tasks[p][b] EXCEPT !.pc = "claim", !.seen = batch[b]]
    <3>1. tasks' = [tasks EXCEPT ![p][b] = t] /\ t.seen = batch[b] /\ t.pc = "claim"
      BY <1>0, <2>3 DEF TaskRow
    <3>2. tasks[p][b].pc = "loop"
      BY <1>3 DEF ClaimRead, At
    <3> HIDE DEF t
    <3>3. QED
      BY <1>1, <2>3, <3>1, <3>2, ReadActive DEF CheckOwner, startVars
  <2>4. QED
    BY <1>3, <2>1, <2>2, <2>3 DEF ClaimRead
<1>4. CASE CompileRead(p, b)
  <2>1. tasks[p][b].pc = "check" /\ UNCHANGED <<starts, pending_starts>>
    BY <1>4 DEF CompileRead, At, startVars
  <2>2. CASE Goto(p, b, "fail") /\ available' = [available EXCEPT ![p] = FALSE]
    BY <1>0, <1>1, <1>2, <2>2, MoveActive
  <2>3. CASE /\ tasks' = [tasks EXCEPT ![p][b].pc = "compile", ![p][b].seen = batch[b],
                                       ![p][b].callStatus = call[CallOf(p, b)].status]
             /\ UNCHANGED available
    <3> DEFINE t == [tasks[p][b] EXCEPT !.pc = "compile", !.seen = batch[b],
                                        !.callStatus = call[CallOf(p, b)].status]
    <3>1. /\ tasks' = [tasks EXCEPT ![p][b] = t] /\ t.seen = batch[b] /\ t.pc = "compile"
          /\ t.callStatus = call[CallOf(p, b)].status
      BY <1>0, <2>3 DEF TaskRow
    <3> HIDE DEF t
    <3>2. call[CallOf(p, b)].status = "response_saved"
      BY <2>1, WorkingCall DEF Slotted, Waiting
    <3>3. t.pc \in Holding /\ tasks[p][b].pc \in Slotted /\ t.callStatus = "response_saved"
      BY <2>1, <3>1, <3>2 DEF Slotted, Holding
    <3>4. UNCHANGED <<batch, call, mode, starts, pending_starts, available>>
      BY <1>1, <2>1, <2>3
    <3>5. QED
      BY <3>1, <3>3, <3>4, ReadActive
  <2>4. QED
    BY <1>4, <2>2, <2>3 DEF CompileRead
<1>5. CASE FailRead(p, b)
  <2> DEFINE t == [Idle EXCEPT !.pc = "fail_write", !.seen = batch[b]]
  <2>1. tasks' = [tasks EXCEPT ![p][b] = t] /\ t.seen = batch[b] /\ t.pc = "fail_write"
    BY <1>5 DEF FailRead, Idle
  <2> HIDE DEF t
  <2>2. tasks[p][b].pc = "fail" /\ UNCHANGED <<starts, pending_starts, available>>
    BY <1>5 DEF FailRead, At, startVars, procVars
  <2>3. QED
    BY <1>1, <2>1, <2>2, ReadActive
<1>6. CASE FinishErrorRead(p, b)
  <2>1. PICK from \in {"refused", "unknown"}, to \in {"refused_write", "unknown_write"} :
          ErrorRead(p, b, from, to)
    BY <1>6 DEF FinishErrorRead
  <2> DEFINE t == [tasks[p][b] EXCEPT !.pc = to, !.seen = batch[b],
                                      !.callStatus = call[CallOf(p, b)].status]
  <2>2. tasks' = [tasks EXCEPT ![p][b] = t] /\ t.seen = batch[b] /\ t.pc = to
    BY <1>0, <2>1 DEF ErrorRead, TaskRow
  <2> HIDE DEF t
  <2>3. tasks[p][b].pc = from /\ UNCHANGED <<starts, pending_starts, available>>
    BY <2>1 DEF ErrorRead, At, startVars, procVars
  <2>4. QED
    BY <1>1, <2>2, <2>3, ReadActive DEF Slotted, Holding
<1>7. QED
  BY <1>3, <1>4, <1>5, <1>6

\* A task that leaves its stage.
LEMMA WritingActive ==
  ASSUME LedgerInv, ExecutorInv, ActiveInv, OneExecutor, OneStage, "db" \notin Faults,
         NEW p \in Procs, NEW b \in Batches,
         ClaimNothing(p, b) \/ ClaimTooLarge(p, b) \/ FailWrite(p, b)
  PROVE  ActiveInv'
<1> DEFINE seen == tasks[p][b].seen
           row  == batch[b]
<1>0. /\ CompiledIsOver(b) /\ Working(p, b) /\ Noticed(p, b) /\ Driven(p, b)
      /\ batch \in [Batches -> BatchRow] /\ seen \in BatchRow /\ row \in BatchRow
  BY SlottedTask DEF ActiveInv, LedgerInv, TypeInv, BatchTypes, Rows
<1>1. /\ EndTask(p, b) /\ UNCHANGED <<starts, mode, available, call>>
  BY DEF ClaimNothing, ClaimTooLarge, FailWrite, Fault, procVars
<1>2. ASSUME batch'[b].state.compiled = row.state.compiled,
             available[p] /\ mode[p] = "up" =>
               /\ batch'[b].status # "running"
               /\ batch'[b].status = "queued" =>
                    batch'[b].authorized /\ batch'[b].next # 0 /\ b \in starts[p] \cup pending_starts[p]
      PROVE  ActiveInv'
  <2>1. CompiledIsOver(b)'
    BY <1>0, <1>1, <1>2 DEF CompiledIsOver
  <2>2. QED
    BY <1>1, <1>2, <2>1, EndActive
<1>3. CASE ClaimNothing(p, b)
  <2>1. tasks[p][b].pc = "claim"
    BY <1>3 DEF ClaimNothing, At
  <2>2. CASE (mode[p] = "draining" \/ ~MayClaim(seen)) /\ UNCHANGED batch
    BY <1>0, <1>2, <2>1, <2>2 DEF Driven, Noticed, Active
  <2>3. CASE /\ MayClaim(seen)
             /\ batch' = [batch EXCEPT ![b].status = Column(@, seen.status, "paused")]
    <3>1. batch'[b].status = "paused" /\ batch'[b].state = row.state
      BY <1>0, <2>3 DEF BatchRow, Column, MayClaim
    <3>2. QED
      BY <1>2, <3>1
  <2>4. QED
    BY <1>3, <2>2, <2>3 DEF ClaimNothing
<1>4. CASE ClaimTooLarge(p, b)
  <2> DEFINE new == [seen EXCEPT !.status = "needs_attention"]
  <2>1. /\ batch' = [batch EXCEPT ![b] = Flush(@, seen, new)] /\ MayClaim(seen)
        /\ tasks[p][b].pc = "claim"
    BY <1>4 DEF ClaimTooLarge, Claiming, At
  <2>2. new.status = "needs_attention" /\ new.state = seen.state
    BY <1>0 DEF BatchRow
  <2> HIDE DEF new
  <2>3. batch'[b] = Flush(row, seen, new)
    BY <1>0, <2>1
  <2>4. batch'[b].status = "needs_attention" /\ batch'[b].state = seen.state
    BY <2>1, <2>2, <2>3 DEF Flush, Column, MayClaim
  <2>5. seen.state.compiled = row.state.compiled
    BY <2>1 DEF ExecutorInv, StageIsSound, SeenIsSound, Remembering
  <2>6. QED
    BY <1>2, <2>4, <2>5
<1>5. CASE FailWrite(p, b)
  <2> DEFINE new == [seen EXCEPT !.status = "needs_attention", !.next = 0]
  <2>1. batch'[b] = NeedsAttention(row, seen) /\ tasks[p][b].pc = "fail_write"
    BY <1>0, <1>5 DEF FailWrite, At, Fault
  <2>2. seen.state.compiled = row.state.compiled
    BY <2>1 DEF ExecutorInv, StageIsSound, SeenIsSound, Remembering
  <2>3. /\ new.status = "needs_attention" /\ new.next = 0 /\ new.state = seen.state
        /\ new.authorized = seen.authorized
    BY <1>0 DEF BatchRow
  <2>4. CASE batch'[b] = row
    <3>1. CASE seen.status \in Terminal
      BY <1>0, <1>2, <2>1, <2>4, <3>1 DEF Working, Noticed, Driven, Active, Terminal
    <3>2. CASE seen.status \notin Terminal
      <4>1. batch'[b] = Flush(row, seen, new)
        BY <2>1, <3>2 DEF NeedsAttention
      <4> HIDE DEF new
      <4>2. batch'[b].status = Column(row.status, seen.status, "needs_attention")
        BY <2>3, <4>1 DEF Flush
      <4>3. seen.status \in Active => batch'[b].status = "needs_attention"
        BY <4>2 DEF Column, Active
      <4>4. QED
        BY <1>0, <1>2, <2>1, <2>4, <4>3 DEF Working, Noticed, Driven, Active
    <3>3. QED
      BY <3>1, <3>2
  <2>5. CASE batch'[b] = Flush(row, seen, new)
    <3> HIDE DEF new
    <3>1. /\ batch'[b].status = Column(row.status, seen.status, "needs_attention")
          /\ batch'[b].next = Column(row.next, seen.next, 0)
          /\ batch'[b].authorized = row.authorized
          /\ batch'[b].state = seen.state
      BY <2>3, <2>5 DEF Flush, Column
    <3>2. CASE seen.status # "needs_attention"
      <4>1. batch'[b].status = "needs_attention"
        BY <3>1, <3>2 DEF Column
      <4>2. QED
        BY <1>2, <2>2, <3>1, <4>1
    <3>3. CASE seen.status = "needs_attention"
      <4>1. batch'[b].status = row.status /\ row.status # "running"
        BY <1>0, <2>1, <3>1, <3>3 DEF Column, Working
      <4>2. ASSUME available[p], mode[p] = "up", row.status = "queued"
            PROVE  row.authorized /\ batch'[b].next # 0 /\ b \in starts[p] \cup pending_starts[p]
        <5>1. b \in starts[p] \cup pending_starts[p]
          BY <1>0, <2>1, <3>3, <4>2 DEF Noticed, Active
        <5>2. row.authorized /\ row.next # 0 /\ seen.next = 0
          BY <1>0, <2>1, <3>3, <4>2 DEF Driven
        <5>3. QED
          BY <3>1, <5>1, <5>2 DEF Column
      <4>3. QED
        BY <1>2, <2>2, <3>1, <4>1, <4>2
    <3>4. QED
      BY <3>2, <3>3
  <2>6. QED
    BY <2>1, <2>4, <2>5 DEF NeedsAttention
<1>6. QED
  BY <1>3, <1>4, <1>5

LEMMA FinishErrorActive ==
  ASSUME LedgerInv, ExecutorInv, ActiveInv, OneExecutor, OneStage,
         NEW p \in Procs, NEW b \in Batches, FinishError(p, b)
  PROVE  ActiveInv'
<1> DEFINE seen == tasks[p][b].seen
           row  == batch[b]
           c    == CallOf(p, b)
<1>0. /\ CompiledIsOver(b) /\ Working(p, b) /\ batch \in [Batches -> BatchRow]
      /\ seen \in BatchRow /\ row \in BatchRow /\ call \in [Calls -> CallRow]
  BY SlottedTask DEF ActiveInv, LedgerInv, TypeInv, BatchTypes, CallTypes, Rows
<1>1. PICK pc \in {"refused_write", "unknown_write"},
           callStatus \in {"not_dispatched", "outcome_uncertain"},
           batchStatus \in {"failed", "outcome_uncertain"} :
             ErrorWrite(p, b, pc, callStatus, batchStatus)
  BY DEF FinishError
<1>2. /\ tasks[p][b].pc \in Holding /\ tasks[p][b].pc \in Slotted
      /\ EndTask(p, b) /\ UNCHANGED <<starts, mode, available>>
  BY <1>1 DEF ErrorWrite, At, Holding, Slotted, procVars
<1>3. /\ row.status = "running" /\ seen = [row EXCEPT !.pause = seen.pause]
      /\ c \in Calls /\ c = <<b, tasks[p][b].slot>> /\ tasks[p][b].slot \in SlotIds
      /\ call[c].status = "executing"
  <2>1. row.status = "running" /\ seen = [row EXCEPT !.pause = seen.pause]
    BY <1>0, <1>2 DEF Working
  <2>2. Waiting(tasks[p][b].pc) = "executing"
    BY <1>1 DEF ErrorWrite, At, Waiting
  <2>3. QED
    BY <1>2, <2>1, <2>2, WorkingCall
<1>4. seen.status = "running" /\ seen.state = row.state
  BY <1>0, <1>3 DEF BatchRow
<1> DEFINE new == [seen EXCEPT !.status = batchStatus, !.next = 0]
<1>5. batch'[b] = Flush(row, seen, new)
  BY <1>0, <1>1, <1>4 DEF ErrorWrite, Errored, Terminal
<1>6. new.status = batchStatus /\ new.state = seen.state
  BY <1>0 DEF BatchRow
<1> HIDE DEF new
<1>7. batch'[b].status = batchStatus /\ batch'[b].state = row.state
  BY <1>4, <1>5, <1>6 DEF Flush, Column
<1>8. CompiledIsOver(b)'
  <2>1. \A k \in SlotIds : <<b, k>> \in Calls
    BY DEF Calls
  <2>2. \A k \in SlotIds : call[<<b, k>>].status # "executing" => call'[<<b, k>>] = call[<<b, k>>]
    BY <1>0, <1>1, <1>3, <2>1 DEF ErrorWrite
  <2>3. QED
    BY <1>0, <1>7, <2>2, CompiledStays DEF LedgerInv
<1>9. QED
  BY <1>2, <1>7, <1>8, EndActive

LEMMA ClaimActive ==
  ASSUME LedgerInv, ExecutorInv, ActiveInv, OneExecutor, OneStage,
         NEW p \in Procs, NEW b \in Batches, Claim(p, b)
  PROVE  ActiveInv'
<1> DEFINE seen == tasks[p][b].seen
           row  == batch[b]
           slot == SlotFor(b, seen)
           t    == [Idle EXCEPT !.pc = "send", !.slot = slot]
           new  == [seen EXCEPT !.status = "running"]
<1>0. /\ CompiledIsOver(b) /\ Working(p, b) /\ batch \in [Batches -> BatchRow]
      /\ seen \in BatchRow /\ row \in BatchRow /\ call \in [Calls -> CallRow]
      /\ tasks \in [Procs -> [Batches -> TaskRows]]
  BY SlottedTask DEF ActiveInv, LedgerInv, TypeInv, BatchTypes, CallTypes, TaskTypes, Rows
<1>1. /\ MayClaim(seen) /\ tasks[p][b].pc = "claim" /\ call[<<b, slot>>].status = "none"
      /\ batch'[b] = Flush(row, seen, new) /\ tasks' = [tasks EXCEPT ![p][b] = t]
      /\ UNCHANGED <<mode, available>>
  BY <1>0 DEF Claim, Claiming, SlotOpen, At, procVars
<1>2. tasks'[p][b].pc = "send"
  BY <1>0, <1>1 DEF Idle
<1>3. new.status = "running" /\ new.state = seen.state /\ new.authorized = seen.authorized
  BY <1>0 DEF BatchRow
<1>4. row.authorized /\ seen.status # "running" /\ seen.state.compiled = row.state.compiled
  <2>1. seen.state.compiled = row.state.compiled
    BY <1>1 DEF ExecutorInv, StageIsSound, SeenIsSound, Remembering
  <2>2. QED
    BY <1>0, <1>1, <2>1 DEF Working
<1> HIDE DEF new
<1>5. /\ batch'[b].status = "running" /\ batch'[b].authorized
      /\ batch'[b].state.compiled = row.state.compiled
  BY <1>1, <1>3, <1>4 DEF Flush, Column
<1>6. CompiledIsOver(b)'
  <2>1. \A k \in SlotIds : <<b, k>> \in Calls
    BY DEF Calls
  <2>2. \A k \in SlotIds : call[<<b, k>>].status # "none" => call'[<<b, k>>] = call[<<b, k>>]
    BY <1>0, <1>1, <2>1 DEF Claim
  <2>3. QED
    BY <1>0, <1>5, <2>2, CompiledStays DEF LedgerInv
<1>7. Working(p, b)'
  BY <1>2, <1>5 DEF Working, Holding
<1>8. Noticed(p, b)' /\ Driven(p, b)'
  BY <1>2, <1>5 DEF Noticed, Driven
<1>9. Opened(p)'
  BY <1>1, OpenStays
<1>10. QED
  BY <1>6, <1>7, <1>8, <1>9, ActiveTask

\* A stage that goes on after a compilation can be claimed.
LEMMA OutcomeReady ==
  ASSUME NEW c \in Calls, call[c].action \in 0 .. Steps, NEW row \in BatchRow,
         NEW o \in Outcomes(c, row)
  PROVE  /\ o.row.authorized = row.authorized /\ o.row.pause = row.pause
         /\ o.row.status = "queued" => o.row.next # 0
<1> DEFINE a == call[c].action
<1>0. row.state \in State /\ Steps \in Nat /\ Steps # 0
  BY ConstantsAssumption DEF BatchRow
<1>1. ASSUME NEW left \in Remains(c, row)
      PROVE  /\ left.authorized = row.authorized /\ left.pause = row.pause
             /\ DOMAIN left = {"status", "authorized", "pause", "next", "base", "state"}
  <2>1. CASE left = row
    BY <2>1 DEF BatchRow
  <2>2. CASE left = [row EXCEPT !.state.text = "partial"]
    <3> DEFINE state == [row.state EXCEPT !.text = "partial"]
    <3>1. left = [row EXCEPT !.state = state]
      BY <2>2
    <3> HIDE DEF state
    <3>2. QED
      BY <3>1 DEF BatchRow
  <2>3. QED
    BY <2>1, <2>2 DEF Remains
<1>2. CASE got[c] = "cut"
  <2>1. PICK left \in Remains(c, row) :
          o = [status |-> "outcome_uncertain",
               row |-> [left EXCEPT !.status = "outcome_uncertain", !.next = 0]]
    BY <1>2 DEF Outcomes
  <2>2. o.row = [left EXCEPT !.status = "outcome_uncertain", !.next = 0]
    BY <2>1
  <2>3. o.row.status = "outcome_uncertain" /\ o.row.authorized = left.authorized /\ o.row.pause = left.pause
    BY <1>1, <2>2
  <2>4. QED
    BY <1>1, <2>3
<1>3. CASE got[c] # "cut" /\ Usable(c, row)
  <2> DEFINE n == NextAction(a)
             text == TextAfter(a, row.state.text)
             state == [row.state EXCEPT !.done = a, !.text = text]
  <2>1. PICK st \in After(a) :
          o = [status |-> "completed",
               row |-> [row EXCEPT !.status = st, !.next = n, !.state.done = a, !.state.text = text]]
    BY <1>3 DEF Outcomes
  <2>2. o.row = [row EXCEPT !.status = st, !.next = n, !.state = state]
    BY <1>0, <2>1 DEF BatchRow, State
  <2>3. st = "queued" => n # 0
    BY <1>0 DEF After, NextAction
  <2> HIDE DEF n, state
  <2>4. o.row.status = st /\ o.row.next = n /\ o.row.authorized = row.authorized /\ o.row.pause = row.pause
    BY <2>2 DEF BatchRow
  <2>5. QED
    BY <2>3, <2>4
<1>4. CASE got[c] # "cut" /\ ~Usable(c, row)
  <2> DEFINE New == {[left EXCEPT !.status = "needs_attention", !.next = 0] :
                       left \in Remains(c, row)}
                    \cup (IF Skippable(c, row)
                          THEN {[row EXCEPT !.status = "queued", !.next = Steps]} ELSE {})
  <2>1. PICK new \in New : o = [status |-> "local_failure", row |-> new]
    BY <1>4 DEF Outcomes
  <2>2. CASE new = [row EXCEPT !.status = "queued", !.next = Steps]
    BY <1>0, <2>1, <2>2 DEF BatchRow
  <2>3. ASSUME NEW left \in Remains(c, row),
               new = [left EXCEPT !.status = "needs_attention", !.next = 0]
        PROVE  /\ o.row.authorized = row.authorized /\ o.row.pause = row.pause
               /\ o.row.status = "queued" => o.row.next # 0
    <3>1. o.row = [left EXCEPT !.status = "needs_attention", !.next = 0]
      BY <2>1, <2>3
    <3>2. /\ o.row.status = "needs_attention" /\ o.row.authorized = left.authorized
          /\ o.row.pause = left.pause
      BY <1>1, <3>1
    <3>3. QED
      BY <1>1, <3>2
  <2>4. QED
    BY <2>1, <2>2, <2>3
<1>5. QED
  BY <1>2, <1>3, <1>4

LEMMA CompileActive ==
  ASSUME LedgerInv, ExecutorInv, ActiveInv, OneExecutor, OneStage,
         NEW p \in Procs, NEW b \in Batches, Compile(p, b)
  PROVE  ActiveInv'
<1> SUFFICES ASSUME NEW seen, seen = tasks[p][b].seen, NEW k, k = tasks[p][b].slot,
                    NEW callStatus, callStatus = tasks[p][b].callStatus
             PROVE  ActiveInv'
  OBVIOUS
<1> DEFINE c    == <<b, k>>
           old  == batch[b]
           task == [Idle EXCEPT !.pc = "loop"]
<1>0. /\ CompiledIsOver(b) /\ Working(p, b) /\ seen \in Rows /\ seen \in BatchRow
      /\ seen.state \in State /\ CallTypes /\ old \in BatchRow
      /\ batch \in [Batches -> BatchRow] /\ tasks \in [Procs -> [Batches -> TaskRows]]
      /\ call \in [Calls -> CallRow] /\ \A j \in SlotIds : <<b, j>> \in Calls
  BY SlottedTask DEF ActiveInv, LedgerInv, TypeInv, Rows, BatchRow, BatchTypes, TaskTypes,
                     CallTypes, Calls
<1>1. /\ tasks[p][b].pc = "compile" /\ CompileResponse(CallOf(p, b), seen, callStatus)
      /\ tasks' = [tasks EXCEPT ![p][b] = task] /\ task.pc = "loop"
      /\ UNCHANGED <<starts, pending_starts, mode, available>>
  BY DEF Compile, At, procVars, startVars, Idle
<1>2. /\ k \in SlotIds /\ CallOf(p, b) = c /\ c \in Calls /\ c[2] = k /\ c[1] = b
      /\ call[c].status = "response_saved"
  BY <1>1, WorkingCall DEF Slotted, Waiting
<1>3. call[c].response # "none"
  BY <1>1 DEF LedgerInv, TaskLedger, Place
<1>4. /\ old.status = "running" /\ old.authorized /\ callStatus = "response_saved"
      /\ seen = [old EXCEPT !.pause = seen.pause]
  BY <1>0, <1>1 DEF Working, Slotted, Holding
<1>5. /\ seen.status = "running" /\ seen.authorized /\ seen.next = old.next
      /\ seen.state = old.state
  BY <1>0, <1>4 DEF BatchRow
<1>6. ~NothingToCompile(c, seen, callStatus)
  <2>1. k \notin old.state.compiled
    BY <1>0, <1>2 DEF CompiledIsOver
  <2>2. QED
    BY <1>2, <1>4, <1>5, <2>1 DEF NothingToCompile, Terminal
<1> HIDE DEF task
<1>7. tasks'[p][b].pc = "loop"
  BY <1>0, <1>1
<1> DEFINE state == [seen.state EXCEPT !.compiled = @ \cup {k}]
           row   == [seen EXCEPT !.state.compiled = @ \cup {c[2]}]
<1>8. PICK o \in Outcomes(c, row) :
        /\ batch' = [batch EXCEPT ![b] = Flush(@, seen, Honoured(o.row))]
        /\ call' = [call EXCEPT ![c].status = Column(@, callStatus, o.status),
                                ![c].interrupted = FALSE]
  <2>1. CompileResponse(c, seen, callStatus) /\ c[1] = b
    BY <1>1, <1>2
  <2> HIDE DEF c
  <2>2. QED
    BY <1>6, <2>1 DEF CompileResponse
<1>9. /\ row \in Rows /\ row \in BatchRow /\ row.authorized
      /\ row.state.compiled = old.state.compiled \cup {k}
  <2>1. /\ state \in State /\ state.compiled = old.state.compiled \cup {k}
        /\ state.failed = seen.state.failed /\ state.replacement = seen.state.replacement
    BY <1>0, <1>2, <1>5 DEF State
  <2>2. row = [seen EXCEPT !.state = state]
    BY <1>0, <1>2 DEF BatchRow, State
  <2> HIDE DEF state, row
  <2>3. row.state = state /\ row \in BatchRow /\ row.authorized = seen.authorized
    BY <1>0, <2>1, <2>2 DEF BatchRow
  <2>4. QED
    BY <1>0, <1>5, <2>1, <2>3 DEF Rows
<1> HIDE DEF row, state
<1>10. /\ o.row \in BatchRow /\ o.row.authorized
       /\ o.row.state.compiled = old.state.compiled \cup {k}
       /\ o.row.status \in {"outcome_uncertain", "needs_attention", "queued", "awaiting_plan"}
       /\ o.row.status = "queued" => o.row.next # 0
       /\ o.status \in {"completed", "outcome_uncertain", "local_failure"}
  <2>1. c \in Calls /\ o \in Outcomes(c, row) /\ call[c].action \in 0 .. Steps
    BY <1>0, <1>2, <1>8 DEF CallRow
  <2>2. o.row \in BatchRow
    BY <1>0, <1>9, <2>1, OutcomeType DEF Rows
  <2>3. /\ o.row.state.compiled = row.state.compiled
        /\ o.row.status \in {"outcome_uncertain", "needs_attention", "queued", "awaiting_plan"}
        /\ o.status \in {"completed", "outcome_uncertain", "local_failure"}
    BY <1>9, <2>1, OutcomeGoesOn
  <2>4. /\ o.row.authorized = row.authorized
        /\ o.row.status = "queued" => o.row.next # 0
    BY <1>9, <2>1, OutcomeReady
  <2>5. QED
    BY <1>9, <2>2, <2>3, <2>4
<1> DEFINE new == Honoured(o.row)
<1>11. /\ new.status \in {"outcome_uncertain", "needs_attention", "queued", "awaiting_plan", "paused"}
       /\ new.status = "queued" => new.next # 0
       /\ new.authorized = o.row.authorized /\ new.state = o.row.state
  BY <1>10 DEF Honoured, BatchRow
<1> HIDE DEF new
<1>12. batch'[b] = Flush(old, seen, new)
  BY <1>0, <1>8 DEF new
<1>13. /\ batch'[b].status = new.status /\ batch'[b].next = new.next
       /\ batch'[b].authorized = new.authorized /\ batch'[b].state = new.state
  BY <1>4, <1>5, <1>10, <1>11, <1>12 DEF Flush, Column
<1>14. CompiledIsOver(b)'
  <2> DEFINE status == Column(call[c].status, callStatus, o.status)
             other  == [call[c] EXCEPT !.status = status, !.interrupted = FALSE]
  <2>1. status = o.status
    BY <1>4, <1>10 DEF Column
  <2> HIDE DEF status
  <2>2. other.status = status /\ other.response = call[c].response
    BY <1>0, <1>2 DEF CallRow
  <2>3. call' = [call EXCEPT ![c] = other]
    BY <1>0, <1>2, <1>8 DEF CallRow, status
  <2> HIDE DEF other
  <2>4. /\ call'[c] = other /\ \A j \in SlotIds \ {k} : call'[<<b, j>>] = call[<<b, j>>]
    BY <1>0, <1>2, <2>3
  <2>5. batch'[b].state.compiled = old.state.compiled \cup {k} /\ old.state.compiled \subseteq SlotIds
    BY <1>0, <1>10, <1>11, <1>13 DEF BatchRow, State
  <2>6. QED
    BY <1>0, <1>2, <1>3, <1>10, <2>1, <2>2, <2>4, <2>5 DEF CompiledIsOver
<1>15. Working(p, b)' /\ Noticed(p, b)'
  BY <1>7 DEF Working, Noticed, Slotted, Holding
<1>16. Driven(p, b)'
  BY <1>7, <1>10, <1>11, <1>13 DEF Driven
<1>17. Opened(p)'
  BY <1>1, OpenStays
<1>18. QED
  BY <1>14, <1>15, <1>16, <1>17, ActiveTask

\* A command on a stage that does not run.
LEMMA RestedActive ==
  ASSUME LedgerInv, ActiveInv, OneExecutor, OneStage, NEW p \in Procs, NEW b \in Batches,
         batch[b].status \notin Active, UNCHANGED <<tasks, mode, available>>,
         CompiledIsOver(b)',
         batch'[b].status # "running",
         batch'[b].status = "queued" =>
           batch'[b].authorized /\ batch'[b].next # 0 /\ b \in starts'[p],
         batch'[b].status = "needs_attention" => batch'[b].next = 0,
         /\ tasks[p][b].pc = "claim" /\ batch[b].authorized
         /\ batch[b].status # "outcome_uncertain"
         => batch'[b].authorized /\ batch'[b].status # "outcome_uncertain"
  PROVE  ActiveInv'
<1>0. Working(p, b) /\ Driven(p, b)
  BY DEF ActiveInv
<1>1. tasks[p][b].pc \notin Slotted /\ tasks[p][b].pc \notin Holding
  BY <1>0 DEF Working, Active, Slotted, Holding
<1>2. Working(p, b)'
  BY <1>0, <1>1 DEF Working, MayClaim
<1>3. Noticed(p, b)'
  BY DEF Noticed, Active
<1>4. Driven(p, b)'
  BY <1>0 DEF Driven
<1>5. Opened(p)'
  BY OpenStays
<1>6. QED
  BY <1>2, <1>3, <1>4, <1>5, ActiveTask

\* A stage that is authorized gets somebody who starts a task.
LEMMA AuthorizedActive ==
  ASSUME LedgerInv, ActiveInv, OneExecutor, OneStage, NEW p \in Procs, NEW b \in Batches,
         NEW row, NEW calls, Authorized(p, b, row, calls),
         DOMAIN row = {"status", "authorized", "pause", "next", "base", "state"},
         batch[b].status \notin Active, UNCHANGED <<mode, available>>,
         row.state.compiled = batch[b].state.compiled,
         \A k \in SlotIds :
           /\ call[<<b, k>>].status \notin {"none", "executing", "response_saved"}
           /\ call[<<b, k>>].response # "none"
           => /\ calls[<<b, k>>].status \notin {"none", "executing", "response_saved"}
              /\ calls[<<b, k>>].response # "none"
  PROVE  ActiveInv'
<1> DEFINE new == [row EXCEPT !.authorized = TRUE, !.pause = FALSE, !.status = "queued"]
<1>1. /\ new.status = "queued" /\ new.authorized /\ new.next = row.next /\ new.state = row.state
  OBVIOUS
<1>2. /\ batch' = [batch EXCEPT ![b] = new] /\ call' = calls /\ UNCHANGED tasks /\ row.next # 0
      /\ starts' = [starts EXCEPT ![p] = @ \cup {b}]
  BY DEF Authorized
<1> HIDE DEF new
<1>3. batch'[b] = new /\ b \in starts'[p] /\ TypeInv
  BY <1>2 DEF LedgerInv, TypeInv, BatchTypes, ControlTypes
<1>4. CompiledIsOver(b)'
  <2>1. CompiledIsOver(b) /\ batch'[b].state.compiled \subseteq batch[b].state.compiled
    BY <1>1, <1>3 DEF ActiveInv
  <2>2. \A k \in SlotIds :
          /\ call[<<b, k>>].status \notin {"none", "executing", "response_saved"}
          /\ call[<<b, k>>].response # "none"
          => /\ call'[<<b, k>>].status \notin {"none", "executing", "response_saved"}
             /\ call'[<<b, k>>].response # "none"
    BY <1>2
  <2>3. QED
    BY <1>3, <2>1, <2>2, CompiledStays
<1>5. QED
  BY <1>1, <1>2, <1>3, <1>4, RestedActive

LEMMA AuthorizingActive ==
  ASSUME LedgerInv, ActiveInv, OneExecutor, OneStage, NEW p \in Procs, NEW b \in Batches,
         Authorize(p, b) \/ AuthorizeInput(p, b)
  PROVE  ActiveInv'
<1> DEFINE old == batch[b]
<1>0. old \in BatchRow
  BY DEF LedgerInv, TypeInv, BatchTypes, Rows
<1>1. UNCHANGED <<mode, available>>
  BY DEF Authorize, AuthorizeInput, procVars
<1>2. CASE Authorize(p, b)
  <2>1. Authorized(p, b, old, call) /\ old.status \notin Active
    BY <1>2 DEF Authorize, Authorized, Active
  <2>2. DOMAIN old = {"status", "authorized", "pause", "next", "base", "state"}
    BY <1>0 DEF BatchRow
  <2>3. QED
    BY <1>1, <2>1, <2>2, AuthorizedActive
<1>3. CASE AuthorizeInput(p, b)
  <2> DEFINE action == IF old.next = 0 THEN 2 ELSE old.next
             row    == [old EXCEPT !.status = "awaiting_plan", !.next = action]
  <2>1. Authorized(p, b, row, call) /\ old.status \notin Active
    BY <1>3 DEF AuthorizeInput, Active
  <2>2. /\ DOMAIN row = {"status", "authorized", "pause", "next", "base", "state"}
        /\ row.state = old.state
    BY <1>0 DEF BatchRow
  <2> HIDE DEF row
  <2>3. QED
    BY <1>1, <2>1, <2>2, AuthorizedActive
<1>4. QED
  BY <1>2, <1>3

LEMMA AuthorizeStepActive ==
  ASSUME LedgerInv, ActiveInv, OneExecutor, OneStage, NEW p \in Procs, NEW b \in Batches,
         AuthorizeStep(p, b)
  PROVE  ActiveInv'
<1> DEFINE old == batch[b]
<1>0. /\ old \in BatchRow /\ old.state \in State /\ call \in [Calls -> CallRow]
      /\ \A j \in SlotIds : <<b, j>> \in Calls
  BY DEF LedgerInv, TypeInv, BatchTypes, Rows, BatchRow, CallTypes, Calls
<1>1. /\ UNCHANGED <<mode, available>> /\ old.status \notin Active
  BY DEF AuthorizeStep, Active, procVars
<1>2. PICK f \in ClaimedSlots(b), k \in FreeReplacement(b) :
        Authorized(p, b,
             [batch[b] EXCEPT !.status = "awaiting_plan", !.next = call[<<b, f>>].action,
                              !.state.text = call[<<b, f>>].text,
                              !.state.failed = f, !.state.replacement = k],
             IF call[<<b, f>>].status = "outcome_uncertain"
             THEN [call EXCEPT ![<<b, f>>].status = "uncertain_closed"] ELSE call)
  BY DEF AuthorizeStep
<1> DEFINE action == call[<<b, f>>].action
           state == [old.state EXCEPT !.text = call[<<b, f>>].text, !.failed = f,
                                      !.replacement = k]
           row   == [old EXCEPT !.status = "awaiting_plan", !.next = action, !.state = state]
           calls == IF call[<<b, f>>].status = "outcome_uncertain"
                    THEN [call EXCEPT ![<<b, f>>].status = "uncertain_closed"] ELSE call
<1>3. state.compiled = old.state.compiled
  BY <1>0 DEF State
<1>4. Authorized(p, b, row, calls)
  BY <1>0, <1>2 DEF BatchRow, State
<1> HIDE DEF state
<1>5. /\ DOMAIN row = {"status", "authorized", "pause", "next", "base", "state"}
      /\ row.state = state
  BY <1>0 DEF BatchRow
<1> HIDE DEF row
<1>6. \A j \in SlotIds :
        /\ call[<<b, j>>].status \notin {"none", "executing", "response_saved"}
        /\ call[<<b, j>>].response # "none"
        => /\ calls[<<b, j>>].status \notin {"none", "executing", "response_saved"}
           /\ calls[<<b, j>>].response # "none"
  <2>1. CASE call[<<b, f>>].status # "outcome_uncertain"
    BY <2>1
  <2>2. CASE call[<<b, f>>].status = "outcome_uncertain"
    <3> DEFINE new == [call[<<b, f>>] EXCEPT !.status = "uncertain_closed"]
    <3>1. f \in SlotIds /\ calls = [call EXCEPT ![<<b, f>>] = new]
      BY <2>2 DEF ClaimedSlots
    <3>2. new.status = "uncertain_closed" /\ new.response = call[<<b, f>>].response
      BY <1>0, <3>1 DEF CallRow
    <3> HIDE DEF new, calls
    <3>3. calls[<<b, f>>] = new /\ \A j \in SlotIds \ {f} : calls[<<b, j>>] = call[<<b, j>>]
      BY <1>0, <3>1
    <3>4. QED
      BY <3>2, <3>3
  <2>3. QED
    BY <2>1, <2>2
<1> HIDE DEF calls
<1>7. QED
  BY <1>1, <1>3, <1>4, <1>5, <1>6, AuthorizedActive

\* An edited, resolved or adopted stage waits for its author, or is over.
LEMMA EditActive ==
  ASSUME LedgerInv, ActiveInv, OneExecutor, OneStage, NEW p \in Procs, NEW b \in Batches,
         EditPlan(p, b) \/ EditCandidate(p, b) \/ ResolveUnknown(p, b) \/ Adopt(p, b)
  PROVE  ActiveInv'
<1> DEFINE old == batch[b]
           new == batch'[b]
<1>0. /\ old \in BatchRow /\ old.state \in State /\ batch \in [Batches -> BatchRow]
      /\ call \in [Calls -> CallRow] /\ TypeInv /\ CompiledIsOver(b)
      /\ \A j \in SlotIds : <<b, j>> \in Calls
  BY DEF LedgerInv, TypeInv, BatchTypes, Rows, BatchRow, CallTypes, Calls, ActiveInv
<1>1. UNCHANGED <<tasks, mode, available, starts>> /\ old.status \notin Active
  BY DEF EditPlan, EditCandidate, ResolveUnknown, Adopt, procVars, startVars, Active
<1>2. /\ new.state.compiled = old.state.compiled
      /\ \/ new.status = "needs_attention" /\ new.next = 0
         \/ new.status \in {"awaiting_plan", "adopted"}
      /\ old.status # "outcome_uncertain" => new.authorized = old.authorized
  <2>1. CASE EditPlan(p, b)
    <3> DEFINE state == [old.state EXCEPT !.rev = @ + 1]
    <3>1. /\ state.compiled = old.state.compiled
          /\ new = [old EXCEPT !.status = "awaiting_plan", !.next = Following(old),
                               !.state = state]
      BY <1>0, <2>1 DEF EditPlan, BatchRow, State
    <3> HIDE DEF state
    <3>2. QED
      BY <1>0, <3>1 DEF BatchRow
  <2>2. CASE EditCandidate(p, b)
    <3> DEFINE state == [old.state EXCEPT !.text = "frozen", !.rewritten = TRUE, !.rev = @ + 1]
    <3>1. /\ state.compiled = old.state.compiled
          /\ new = [old EXCEPT !.status = "needs_attention", !.next = 0, !.state = state]
      BY <1>0, <2>2 DEF EditCandidate, BatchRow, State
    <3> HIDE DEF state
    <3>2. QED
      BY <1>0, <3>1 DEF BatchRow
  <2>3. CASE ResolveUnknown(p, b)
    <3>1. new = [old EXCEPT !.status = "needs_attention", !.next = 0, !.authorized = FALSE]
      BY <1>0, <2>3 DEF ResolveUnknown
    <3>2. old.status = "outcome_uncertain"
      BY <2>3 DEF ResolveUnknown
    <3>3. QED
      BY <1>0, <3>1, <3>2 DEF BatchRow
  <2>4. CASE Adopt(p, b)
    <3>1. new = [old EXCEPT !.status = "adopted", !.next = 0]
      BY <1>0, <2>4 DEF Adopt
    <3>2. QED
      BY <1>0, <3>1 DEF BatchRow
  <2>5. QED
    BY <2>1, <2>2, <2>3, <2>4
<1>3. \A k \in SlotIds :
        /\ call[<<b, k>>].status \notin {"none", "executing", "response_saved"}
        /\ call[<<b, k>>].response # "none"
        => /\ call'[<<b, k>>].status \notin {"none", "executing", "response_saved"}
           /\ call'[<<b, k>>].response # "none"
  <2>1. CASE UNCHANGED call
    BY <2>1
  <2>2. CASE ResolveUnknown(p, b)
    <3> SUFFICES ASSUME NEW k \in SlotIds, NEW row, row = call[<<b, k>>],
                        row.status \notin {"none", "executing", "response_saved"},
                        row.response # "none"
                 PROVE  /\ call'[<<b, k>>].status \notin {"none", "executing", "response_saved"}
                        /\ call'[<<b, k>>].response # "none"
      OBVIOUS
    <3>1. call'[<<b, k>>] = row \/ call'[<<b, k>>] = [row EXCEPT !.status = "uncertain_closed"]
      BY <1>0, <2>2 DEF ResolveUnknown
    <3>2. row \in CallRow
      BY <1>0
    <3>3. QED
      BY <3>1, <3>2 DEF CallRow
  <2>3. QED
    BY <2>1, <2>2 DEF EditPlan, EditCandidate, Adopt
<1>4. CompiledIsOver(b)'
  BY <1>0, <1>2, <1>3, CompiledStays
<1>5. /\ new.status \notin {"running", "queued", "outcome_uncertain"}
      /\ new.status = "needs_attention" => new.next = 0
  BY <1>2
<1>6. QED
  BY <1>1, <1>2, <1>4, <1>5, RestedActive

LEMMA CreateActive ==
  ASSUME LedgerInv, ExecutorInv, ActiveInv, OneExecutor, OneStage,
         NEW p \in Procs, NEW b \in Batches, NEW replace \in BOOLEAN, Create(p, b, replace)
  PROVE  ActiveInv'
<1>1. /\ batch[b].status = "none" /\ UNCHANGED <<tasks, mode, available>>
      /\ tasks[p][b].pc = "idle"
  BY DEF Create, procVars, ExecutorInv, StageIsSound, LiveTask
<1>2. batch'[b].status = "draft" /\ batch'[b].state.compiled = {}
  BY DEF Create, NewBatch, NoBatch, NoState
<1>3. CompiledIsOver(b)'
  BY <1>2 DEF CompiledIsOver
<1>4. QED
  BY <1>1, <1>2, <1>3, RestedActive DEF Active

\* A pause takes a queued stage away, and only asks a running one.
LEMMA PauseActive ==
  ASSUME LedgerInv, ActiveInv, OneExecutor, OneStage, NEW p \in Procs, NEW b \in Batches,
         Pause(p, b)
  PROVE  ActiveInv'
<1> DEFINE old == batch[b]
           new == batch'[b]
<1>0. /\ old \in BatchRow /\ batch \in [Batches -> BatchRow]
      /\ CompiledIsOver(b) /\ Working(p, b) /\ Noticed(p, b) /\ Driven(p, b)
  BY DEF LedgerInv, TypeInv, BatchTypes, Rows, ActiveInv
<1>1. /\ UNCHANGED <<call, tasks, mode, available, starts, pending_starts>>
      /\ old.status \in Active
      /\ new = [old EXCEPT !.pause = TRUE, !.status = IF @ = "queued" THEN "paused" ELSE @]
  BY <1>0 DEF Pause, procVars, startVars, Active
<1>2. /\ new.status = (IF old.status = "queued" THEN "paused" ELSE old.status)
      /\ new.authorized = old.authorized /\ new.next = old.next /\ new.state = old.state
  BY <1>0, <1>1 DEF BatchRow
<1>3. old.status = "running" => new = [old EXCEPT !.pause = TRUE]
  BY <1>0, <1>1 DEF BatchRow
<1>4. new.status \in {"paused", "running"} /\ (new.status = "running" => old.status = "running")
  BY <1>1, <1>2 DEF Active
<1>5. CompiledIsOver(b)'
  BY <1>0, <1>1, <1>2 DEF CompiledIsOver
<1>6. Working(p, b)'
  <2>1. tasks[p][b].pc \in Slotted => old.status = "running"
    BY <1>0 DEF Working
  <2>2. tasks[p][b].pc \in Holding =>
          tasks[p][b].seen = [new EXCEPT !.pause = tasks[p][b].seen.pause]
    <3> SUFFICES ASSUME tasks[p][b].pc \in Holding
                 PROVE  tasks[p][b].seen = [new EXCEPT !.pause = tasks[p][b].seen.pause]
      OBVIOUS
    <3>1. old.status = "running" /\ tasks[p][b].seen = [old EXCEPT !.pause = tasks[p][b].seen.pause]
      BY <1>0, <2>1 DEF Working, Holding, Slotted
    <3>2. QED
      BY <1>0, <1>3, <3>1 DEF BatchRow
  <2>3. QED
    BY <1>0, <1>1, <1>2, <1>4, <2>1, <2>2 DEF Working, MayClaim
<1>7. Noticed(p, b)'
  BY <1>0, <1>1, <1>4 DEF Noticed, MayClaim, Active
<1>8. Driven(p, b)'
  BY <1>0, <1>1, <1>4 DEF Driven
<1>9. Opened(p)'
  BY <1>1, OpenStays
<1>10. QED
  BY <1>5, <1>6, <1>7, <1>8, <1>9, ActiveTask

LEMMA RunActive ==
  ASSUME LedgerInv, ExecutorInv, ActiveInv, OneExecutor, OneStage, "db" \notin Faults,
         NEW p \in Procs, NEW b \in Batches, Run(p, b)
  PROVE  ActiveInv'
<1>1. CASE \/ ClaimRefused(p, b) \/ SendRefused(p, b) \/ Send(p, b)
           \/ \E reply \in Replies : Receive(p, b, reply)
           \/ NoAnswer(p, b) \/ SaveJournal(p, b) \/ Forget(p, b) \/ CompileRaises(p, b)
           \/ FinishErrorFails(p, b)
  BY <1>1, MovingActive
<1>2. CASE ClaimRead(p, b) \/ CompileRead(p, b) \/ FailRead(p, b) \/ FinishErrorRead(p, b)
  BY <1>2, ReadingActive
<1>3. CASE ClaimNothing(p, b) \/ ClaimTooLarge(p, b) \/ FailWrite(p, b)
  BY <1>3, WritingActive
<1>4. CASE FinishError(p, b) \/ Claim(p, b) \/ Store(p, b) \/ Compile(p, b)
  BY <1>4, FinishErrorActive, ClaimActive, StoreActive, CompileActive
<1>5. QED
  BY <1>1, <1>2, <1>3, <1>4 DEF Run

LEMMA ActiveStep ==
  ASSUME LedgerInv, ExecutorInv, ActiveInv, OneExecutor, OneStage, "db" \notin Faults,
         [Next]_vars
  PROVE  ActiveInv'
<1>1. CASE UNCHANGED vars
  <2>1. UNCHANGED <<batch, call, tasks, mode, available, starts, pending_starts>>
    BY <1>1 DEF vars, dbVars, procVars, startVars
  <2>2. ASSUME NEW p \in Procs PROVE Opened(p)'
    BY <2>1, OpenStays
  <2>3. CASE Procs = {}
    BY <2>3 DEF ActiveInv
  <2>4. QED
    BY <2>1, <2>2, <2>3, ActiveStill
<1>2. ASSUME NEW p \in Procs, Process(p) PROVE ActiveInv'
  BY <1>2, ProcessActive
<1>3. ASSUME NEW p \in Procs, NEW b \in Batches, Run(p, b) PROVE ActiveInv'
  BY <1>3, RunActive
<1>4. ASSUME NEW p \in Procs, NEW b \in Batches, Command(p, b) PROVE ActiveInv'
  BY <1>4, CreateActive, PauseActive, AuthorizingActive, AuthorizeStepActive, EditActive DEF Command
<1>5. QED
  BY <1>1, <1>2, <1>3, <1>4 DEF Next, OneExecutor

LEMMA ActiveInit == Init => ActiveInv
<1> SUFFICES ASSUME Init, NEW p \in Procs PROVE Opened(p) /\ \A b \in Batches :
                 CompiledIsOver(b) /\ Working(p, b) /\ Noticed(p, b) /\ Driven(p, b)
  BY DEF ActiveInv
<1>1. Opened(p) /\ mode[p] = "down" /\ ~available[p]
  BY DEF Init, Opened
<1>2. ASSUME NEW b \in Batches
      PROVE  CompiledIsOver(b) /\ Working(p, b) /\ Noticed(p, b) /\ Driven(p, b)
  <2>1. tasks[p][b].pc = "idle" /\ batch[b].state.compiled = {}
    BY DEF Init, Idle, NoBatch, NoState
  <2>2. CompiledIsOver(b)
    BY <2>1 DEF CompiledIsOver
  <2>3. Working(p, b)
    BY <2>1 DEF Working, Slotted, Holding
  <2>4. QED
    BY <1>1, <2>2, <2>3 DEF Noticed, Driven
<1>3. QED
  BY <1>1, <1>2

\* With one process that executes, one stage, and a database whose commits are acknowledged, a
\* stage that is queued or running always has a task or a route that will start one while the
\* process owns the execution: however pauses, edits and renewed authorizations interleave with
\* the end of an earlier task (runtime.py run, start; api/routes/generation.py authorize).
THEOREM ActiveDriven ==
  ASSUME OneExecutor, OneStage, "db" \notin Faults
  PROVE  Spec => []ActiveStageHasTask
<1>1. Init => LedgerInv /\ ExecutorInv /\ ActiveInv
  BY LedgerInit, ExecutorInit, ActiveInit
<1>2. LedgerInv /\ ExecutorInv /\ ActiveInv /\ [Next]_vars => LedgerInv' /\ ExecutorInv' /\ ActiveInv'
  BY LedgerStep, ExecutorStep, ActiveStep DEF KeepsLedger
<1>3. LedgerInv /\ ExecutorInv /\ ActiveInv => ActiveStageHasTask
  <2> SUFFICES ASSUME ActiveInv, NEW p \in Procs, NEW b \in Batches, CheckOwner(p),
                      mode[p] = "up", batch[b].status \in {"queued", "running"}, ~LiveTask(p, b)
               PROVE  b \in starts[p]
    BY DEF ActiveStageHasTask
  <2>1. Driven(p, b)
    BY DEF ActiveInv
  <2>2. QED
    BY <2>1 DEF Driven, CheckOwner, LiveTask
<1>4. QED
  BY <1>1, <1>2, <1>3, PTL DEF Spec
=============================================================================
