---------------------------- MODULE Services_proofs ----------------------------
(***************************************************************************)
(* Theorems about the services around the kernel: the background tasks of  *)
(* a book (LocalTasks), the template defaults (Templates), a paid request  *)
(* (ProviderCall) and what it tells the model (RequestMaterial).           *)
(***************************************************************************)
EXTENDS LocalTasks, Templates, RequestMaterial, ProviderCall, SequenceTheorems,
        FiniteSetTheorems, WellFoundedInduction, TLAPS

-----------------------------------------------------------------------------
(* The background tasks, for any number of workers, tasks, keys, formal    *)
(* versions and failures.                                                  *)

\* A working worker works on a row that exists, and on the branch of its kind.
Assigned ==
  \A w \in Workers :
    /\ ~At(w, "idle") => TaskOf(w) \in Tasks /\ task[TaskOf(w)].status # "none"
    /\ At(w, "write") => task[TaskOf(w)].kind = "export"
    /\ worker[w].pc \in {"sources", "delete", "insert"}
         => task[TaskOf(w)].kind = "search_rebuild"

\* Only a running task has an owner.
Owned == \A t \in Tasks : task[t].status # "running" => task[t].owner = NoWorker

\* A worker that is about to complete an export has written its file.
Written ==
  \A w \in Workers : At(w, "finish") /\ task[TaskOf(w)].kind = "export"
                       => <<TaskOf(w), w>> \in files

\* A row was made by a request whose key is remembered.
Requested ==
  \A t \in Tasks : task[t].status # "none"
                     => task[t].key \in Keys /\ keys[task[t].key].task # 0

IndInv ==
  /\ TypeOK /\ Assigned /\ Owned /\ Written /\ CompletedHasArtifact
  /\ Requested /\ OneTaskPerKey

-----------------------------------------------------------------------------
(* Rows.                                                                   *)

LEMMA Rows ==
  /\ NoTask \in TaskRow /\ Resting \in WorkerRow /\ NoKey \in KeyRow
  /\ NoTask.status = "none" /\ NoTask.owner = NoWorker /\ Resting.pc = "idle"
BY LocalTasksAssumption
   DEF NoTask, TaskRow, Resting, WorkerRow, WorkerPc, NoKey, KeyRow, Kinds, Finished

LEMMA InitInv == Init => IndInv
BY Rows, LocalTasksAssumption
   DEF Init, IndInv, TypeOK, Assigned, Owned, Written, CompletedHasArtifact, Requested,
       OneTaskPerKey, At, TaskOf, Versions, Index

\* A worker that goes on keeps its task and what its rebuild read and saw.
LEMMA GotoStep ==
  ASSUME TypeOK, NEW w \in Workers, NEW pc \in WorkerPc, Goto(w, pc)
  PROVE  /\ worker' \in [Workers -> WorkerRow]
         /\ worker'[w].pc = pc /\ worker'[w].task = worker[w].task
         /\ worker'[w].docs = worker[w].docs /\ worker'[w].after = worker[w].after
         /\ \A x \in Workers \ {w} : worker'[x] = worker[x]
<1>1. worker \in [Workers -> WorkerRow]
  BY DEF TypeOK
<1>2. [worker[w] EXCEPT !.pc = pc] \in WorkerRow
  BY <1>1 DEF WorkerRow
<1>3. worker' = [worker EXCEPT ![w] = [worker[w] EXCEPT !.pc = pc]]
  BY DEF Goto
<1>4. worker[w] \in WorkerRow
  BY <1>1
<1>5. worker'[w] = [worker[w] EXCEPT !.pc = pc]
  BY <1>1, <1>3
<1>6. QED
  BY <1>1, <1>2, <1>3, <1>4, <1>5 DEF WorkerRow

LEMMA RestStep ==
  ASSUME TypeOK, NEW w \in Workers, Rest(w)
  PROVE  /\ worker' \in [Workers -> WorkerRow]
         /\ worker'[w].pc = "idle"
         /\ \A x \in Workers \ {w} : worker'[x] = worker[x]
BY Rows DEF TypeOK, Rest

LEMMA FaultStep ==
  ASSUME TypeOK, Fault PROVE faults' \in 0 .. MaxFaults
BY LocalTasksAssumption DEF TypeOK, Fault

\* When neither rows nor files nor documents change, a worker that moves on must only be
\* right about the kind of its task.
LEMMA MoveOn ==
  ASSUME IndInv, NEW w \in Workers, NEW pc \in WorkerPc \ {"idle", "finish"}, Goto(w, pc),
         ~At(w, "idle"), UNCHANGED <<version, documented, task, keys, files, index>>,
         faults' \in 0 .. MaxFaults,
         pc = "write" => task[TaskOf(w)].kind = "export",
         pc \in {"sources", "delete", "insert"} => task[TaskOf(w)].kind = "search_rebuild"
  PROVE  IndInv'
<1>1. /\ worker' \in [Workers -> WorkerRow]
      /\ worker'[w].pc = pc /\ worker'[w].task = worker[w].task
      /\ \A x \in Workers \ {w} : worker'[x] = worker[x]
  BY GotoStep DEF IndInv
<1>2. TypeOK'
  BY <1>1 DEF IndInv, TypeOK
<1>3. Assigned'
  BY <1>1 DEF IndInv, Assigned, At, TaskOf
<1>4. Written'
  BY <1>1 DEF IndInv, Written, At, TaskOf
<1>5. QED
  BY <1>2, <1>3, <1>4
     DEF IndInv, Owned, CompletedHasArtifact, Requested, OneTaskPerKey

\* A worker that rests claims nothing any more.
LEMMA GiveUp ==
  ASSUME IndInv, NEW w \in Workers, Rest(w), UNCHANGED <<version, documented, task, keys, files, index>>,
         faults' \in 0 .. MaxFaults
  PROVE  IndInv'
<1>1. /\ worker' \in [Workers -> WorkerRow]
      /\ worker'[w].pc = "idle"
      /\ \A x \in Workers \ {w} : worker'[x] = worker[x]
  BY RestStep DEF IndInv
<1>2. TypeOK'
  BY <1>1 DEF IndInv, TypeOK
<1>3. Assigned'
  BY <1>1 DEF IndInv, Assigned, At, TaskOf
<1>4. Written'
  BY <1>1 DEF IndInv, Written, At, TaskOf
<1>5. QED
  BY <1>2, <1>3, <1>4
     DEF IndInv, Owned, CompletedHasArtifact, Requested, OneTaskPerKey

-----------------------------------------------------------------------------
(* Requests.                                                               *)

LEMMA PublishInv == ASSUME IndInv, Publish PROVE IndInv'
<1>1. TypeOK'
  BY LocalTasksAssumption DEF IndInv, TypeOK, Publish, Versions
<1>2. QED
  BY <1>1 DEF IndInv, Publish, Assigned, Owned, Written, CompletedHasArtifact, Requested,
              OneTaskPerKey, At, TaskOf

\* Documents of a version are lost with it: only the sets of them become smaller.
LEMMA LoseDocumentsInv == ASSUME IndInv, NEW v \in Versions, LoseDocuments(v) PROVE IndInv'
<1>1. \A w \in Workers : /\ worker'[w] \in WorkerRow
                         /\ worker'[w].pc = worker[w].pc /\ worker'[w].task = worker[w].task
  <2> SUFFICES ASSUME NEW w \in Workers
               PROVE  /\ worker'[w] \in WorkerRow
                      /\ worker'[w].pc = worker[w].pc /\ worker'[w].task = worker[w].task
    OBVIOUS
  <2>1. worker[w] \in WorkerRow /\ worker'[w] = [worker[w] EXCEPT !.after = @ \ {v}]
    BY DEF LoseDocuments, IndInv, TypeOK
  <2>2. QED
    BY <2>1 DEF WorkerRow
<1>2. worker' \in [Workers -> WorkerRow]
  BY <1>1 DEF LoseDocuments
<1>3. index' \in Index /\ documented' \subseteq Versions
  BY DEF LoseDocuments, IndInv, TypeOK, Index
<1>4. TypeOK'
  BY <1>2, <1>3 DEF LoseDocuments, IndInv, TypeOK
<1>5. QED
  BY <1>1, <1>4 DEF LoseDocuments, IndInv, Assigned, Owned, Written, CompletedHasArtifact,
                    Requested, OneTaskPerKey, At, TaskOf

\* A new row is nobody's yet, and its key was not used before.
LEMMA QueueInv == ASSUME IndInv, NEW k \in Keys, NEW kind \in Kinds, Queue(k, kind) PROVE IndInv'
<1>0. PICK t \in Tasks :
        keys' = [keys EXCEPT ![k] = [kind |-> kind, input |-> version, task |-> t]]
        /\ (UNCHANGED task \/ (task[t].status = "none" /\ task' = [task EXCEPT ![t] =
              [NoTask EXCEPT !.status = "queued", !.kind = kind, !.input = version, !.key = k]]))
  BY DEF Queue, Shared
<1> DEFINE row == [NoTask EXCEPT !.status = "queued", !.kind = kind, !.input = version, !.key = k]
<1>1. /\ row \in TaskRow /\ row.status = "queued" /\ row.owner = NoWorker /\ row.key = k
  <2>1. version \in 0 .. MaxVersion
    BY LocalTasksAssumption DEF IndInv, TypeOK, Versions
  <2>2. row \in TaskRow
    BY <2>1, Rows DEF TaskRow
  <2>3. QED
    BY <2>2, Rows DEF TaskRow
<1>2. /\ keys' \in [Keys -> KeyRow]
      /\ keys'[k].task # 0 /\ \A x \in Keys \ {k} : keys'[x] = keys[x]
  BY <1>0, LocalTasksAssumption DEF IndInv, TypeOK, KeyRow, Versions, Tasks
<1>3. /\ task' \in [Tasks -> TaskRow]
      /\ \/ task' = task
         \/ /\ task[t].status = "none" /\ task'[t] = row
            /\ \A s \in Tasks \ {t} : task'[s] = task[s]
  BY <1>0, <1>1 DEF IndInv, TypeOK
<1> HIDE DEF row
<1>4. UNCHANGED <<version, documented, files, index, worker, faults>> /\ keys[k].task = 0
  BY DEF Queue, Known
<1>5. TypeOK'
  BY <1>2, <1>3, <1>4 DEF IndInv, TypeOK
<1>6. Assigned' /\ Owned' /\ Written'
  BY <1>1, <1>3, <1>4 DEF IndInv, Assigned, Owned, Written, At, TaskOf
<1>7. CompletedHasArtifact'
  BY <1>1, <1>3, <1>4 DEF IndInv, CompletedHasArtifact
<1>8. Requested'
  BY <1>1, <1>2, <1>3, <1>4 DEF IndInv, Requested
<1>9. OneTaskPerKey'
  BY <1>1, <1>3, <1>4 DEF IndInv, OneTaskPerKey, Requested
<1>10. QED
  BY <1>5, <1>6, <1>7, <1>8, <1>9 DEF IndInv

-----------------------------------------------------------------------------
(* The worker.                                                             *)

\* A transaction that starts or ends a task leaves its kind, its input and its key alone.
LEMMA RowStep ==
  ASSUME IndInv, NEW t \in Tasks, task[t].status # "none",
         NEW row \in TaskRow, task' = [task EXCEPT ![t] = row],
         row.status # "none", row.kind = task[t].kind, row.key = task[t].key,
         row.status # "running" => row.owner = NoWorker,
         row.status = "completed" /\ row.kind = "export" => <<t, row.output>> \in files,
         UNCHANGED <<version, documented, keys, files, index>>, faults' \in 0 .. MaxFaults,
         NEW w \in Workers, worker' \in [Workers -> WorkerRow],
         \A x \in Workers \ {w} : worker'[x] = worker[x],
         \/ worker'[w].pc = "idle"
         \/ worker'[w].pc \in {"begin", "fail"} /\ worker'[w].task = t
  PROVE  IndInv'
<1>1. /\ task' \in [Tasks -> TaskRow] /\ task'[t] = row
      /\ \A s \in Tasks \ {t} : task'[s] = task[s]
  BY DEF IndInv, TypeOK
<1>2. TypeOK'
  BY <1>1 DEF IndInv, TypeOK
<1>3. Assigned'
  BY <1>1 DEF IndInv, Assigned, At, TaskOf
<1>4. Owned'
  BY <1>1 DEF IndInv, Owned
<1>5. Written'
  <2> SUFFICES ASSUME NEW x \in Workers, worker'[x].pc = "finish",
                      task'[worker'[x].task].kind = "export"
               PROVE  <<worker'[x].task, x>> \in files
    BY DEF Written, At, TaskOf
  <2>1. worker'[x] = worker[x]
    OBVIOUS
  <2>2. task[worker[x].task].kind = "export"
    BY <1>1, <2>1 DEF IndInv, Assigned, At, TaskOf
  <2>3. QED
    BY <2>1, <2>2 DEF IndInv, Written, At, TaskOf
<1>6. CompletedHasArtifact'
  BY <1>1 DEF IndInv, CompletedHasArtifact
<1>7. Requested'
  BY <1>1 DEF IndInv, Requested
<1>8. OneTaskPerKey'
  BY <1>1 DEF IndInv, OneTaskPerKey
<1>9. QED
  BY <1>2, <1>3, <1>4, <1>5, <1>6, <1>7, <1>8 DEF IndInv

LEMMA ClaimInv == ASSUME IndInv, NEW w \in Workers, Claim(w) PROVE IndInv'
<1>1. PICK t \in Tasks :
        /\ Claimable(t)
        /\ task' = [task EXCEPT ![t].status = "running", ![t].owner = w, ![t].expired = FALSE]
        /\ worker' = [worker EXCEPT ![w] = [Resting EXCEPT !.pc = "begin", !.task = t]]
  BY DEF Claim
<1> DEFINE row == [task[t] EXCEPT !.status = "running", !.owner = w, !.expired = FALSE]
<1>2. task[t] \in TaskRow
  BY DEF IndInv, TypeOK
<1>3. row \in TaskRow /\ row.status = "running" /\ row.kind = task[t].kind /\ row.key = task[t].key
  BY <1>2 DEF TaskRow
<1>4. task' = [task EXCEPT ![t] = row]
  BY <1>1, <1>2 DEF IndInv, TypeOK, TaskRow
<1>5. [Resting EXCEPT !.pc = "begin", !.task = t] \in WorkerRow
  <2>1. "begin" \in WorkerPc /\ t \in 0 .. MaxTasks
    BY LocalTasksAssumption DEF WorkerPc, Tasks
  <2>2. QED
    BY <2>1 DEF WorkerRow, Resting
<1>6. /\ worker' \in [Workers -> WorkerRow]
      /\ \A x \in Workers \ {w} : worker'[x] = worker[x]
      /\ worker'[w].pc = "begin" /\ worker'[w].task = t
  BY <1>1, <1>5, Rows DEF IndInv, TypeOK, Resting
<1>7. task[t].status # "none"
  BY <1>1 DEF Claimable
<1>8. UNCHANGED <<version, documented, keys, files, index>> /\ faults' \in 0 .. MaxFaults
  BY DEF Claim, IndInv, TypeOK
<1> HIDE DEF row
<1>9. QED
  BY <1>3, <1>4, <1>6, <1>7, <1>8, RowStep

LEMMA BeginInv == ASSUME IndInv, NEW w \in Workers, Begin(w) PROVE IndInv'
<1>1. UNCHANGED <<version, documented, task, keys, files, index>> /\ ~At(w, "idle") /\ faults' \in 0 .. MaxFaults
  BY FaultStep DEF Begin, At, IndInv, TypeOK
<1>2. CASE Rest(w)
  BY <1>1, <1>2, GiveUp
<1>3. CASE task[TaskOf(w)].kind = "export" /\ Goto(w, "write")
  BY <1>1, <1>3, MoveOn DEF WorkerPc
<1>4. CASE task[TaskOf(w)].kind = "search_rebuild" /\ Goto(w, "sources")
  BY <1>1, <1>4, MoveOn DEF WorkerPc
<1>5. CASE Goto(w, "fail")
  BY <1>1, <1>5, MoveOn DEF WorkerPc
<1>6. QED
  BY <1>2, <1>3, <1>4, <1>5 DEF Begin

LEMMA SourcesInv == ASSUME IndInv, NEW w \in Workers, Sources(w) PROVE IndInv'
<1>1. /\ worker[w] \in WorkerRow /\ documented \subseteq Versions
      /\ UNCHANGED <<version, documented, task, keys, files, index, faults>>
  BY DEF IndInv, TypeOK, Sources
<1>2. [worker[w] EXCEPT !.pc = "delete", !.docs = documented] \in WorkerRow
  BY <1>1 DEF WorkerRow, WorkerPc
<1>3. worker' = [worker EXCEPT ![w] = [worker[w] EXCEPT !.pc = "delete", !.docs = documented]]
  BY DEF Sources, IndInv, TypeOK
<1>4. /\ worker' \in [Workers -> WorkerRow]
      /\ worker'[w].pc = "delete" /\ worker'[w].task = worker[w].task
      /\ \A x \in Workers \ {w} : worker'[x] = worker[x]
  BY <1>1, <1>2, <1>3 DEF IndInv, TypeOK, WorkerRow
<1>5. TypeOK'
  BY <1>1, <1>4 DEF IndInv, TypeOK
<1>6. Assigned' /\ Written'
  BY <1>1, <1>4 DEF Sources, IndInv, Assigned, Written, At, TaskOf
<1>7. QED
  BY <1>1, <1>5, <1>6 DEF IndInv, Owned, CompletedHasArtifact, Requested, OneTaskPerKey

LEMMA DeleteInv == ASSUME IndInv, NEW w \in Workers, Delete(w) PROVE IndInv'
<1>1. /\ UNCHANGED <<version, documented, task, keys, files, index>> /\ ~At(w, "idle")
      /\ faults' \in 0 .. MaxFaults /\ Goto(w, "insert")
      /\ task[TaskOf(w)].kind = "search_rebuild"
  BY DEF Delete, At, IndInv, TypeOK, Assigned
<1>2. QED
  BY <1>1, MoveOn DEF WorkerPc

\* A worker whose documents or file are in place may go on to complete its task.
LEMMA Produced ==
  ASSUME IndInv, NEW w \in Workers, NEW pc \in {"finish", "fail"}, ~At(w, "idle"),
         UNCHANGED <<version, documented, task, keys>>, faults' \in 0 .. MaxFaults,
         worker' \in [Workers -> WorkerRow],
         worker'[w].pc = pc, worker'[w].task = worker[w].task,
         \A x \in Workers \ {w} : /\ worker'[x].pc = worker[x].pc
                                  /\ worker'[x].task = worker[x].task,
         files \subseteq files', files' \subseteq Tasks \X Workers,
         index' \in Index,
         pc = "finish" /\ task[TaskOf(w)].kind = "export" => <<TaskOf(w), w>> \in files'
  PROVE  IndInv'
<1>1. TypeOK'
  BY DEF IndInv, TypeOK
<1>2. Assigned'
  BY DEF IndInv, Assigned, At, TaskOf
<1>3. Written' /\ CompletedHasArtifact'
  BY DEF IndInv, Written, CompletedHasArtifact, At, TaskOf
<1>4. QED
  BY <1>1, <1>2, <1>3 DEF IndInv, Owned, Requested, OneTaskPerKey

LEMMA InsertInv == ASSUME IndInv, NEW w \in Workers, Insert(w) PROVE IndInv'
<1>1. /\ UNCHANGED <<version, documented, task, keys, files>> /\ At(w, "insert") /\ ~At(w, "idle")
      /\ TaskOf(w) \in Tasks /\ task[TaskOf(w)].kind = "search_rebuild"
      /\ worker[w] \in WorkerRow /\ index \in Index
  BY DEF Insert, At, IndInv, TypeOK, Assigned
<1>2. CASE Built(w)
  <2>1. PICK pc \in {"finish", "fail"} :
          /\ pc = "fail" => Fault
          /\ pc = "finish" => UNCHANGED faults
          /\ worker' = [x \in Workers |->
               IF x = w THEN [Resting EXCEPT !.pc = pc, !.task = worker[w].task]
               ELSE IF At(x, "insert")
                    THEN [worker[x] EXCEPT !.after = (@ \cap worker[w].after) \cup worker[w].docs]
               ELSE worker[x]]
    BY <1>2 DEF Built
  <2>2. pc \in WorkerPc /\ faults' \in 0 .. MaxFaults
    BY <2>1, FaultStep DEF WorkerPc, IndInv, TypeOK
  <2>3. ASSUME NEW x \in Workers
        PROVE  /\ worker'[x] \in WorkerRow
               /\ worker'[x].task = worker[x].task
               /\ worker'[x].pc = IF x = w THEN pc ELSE worker[x].pc
    <3>1. worker[x] \in WorkerRow
      BY DEF IndInv, TypeOK
    <3>2. CASE x = w
      <4>1. worker'[x] = [Resting EXCEPT !.pc = pc, !.task = worker[w].task]
        BY <2>1, <3>2
      <4>2. QED
        BY <2>2, <3>1, <3>2, <4>1 DEF WorkerRow, Resting
    <3>3. CASE x # w /\ At(x, "insert")
      <4>1. worker'[x] = [worker[x] EXCEPT !.after = (@ \cap worker[w].after) \cup worker[w].docs]
        BY <2>1, <3>3
      <4>2. QED
        BY <1>1, <3>1, <3>3, <4>1 DEF WorkerRow
    <3>4. CASE x # w /\ ~At(x, "insert")
      BY <2>1, <3>1, <3>4
    <3>5. QED
      BY <3>2, <3>3, <3>4
  <2>4. worker' \in [Workers -> WorkerRow]
    BY <2>1, <2>3
  <2>5. index' \in Index
    BY <1>1, <1>2 DEF Built, Index, WorkerRow
  <2>6. files' \subseteq Tasks \X Workers
    BY <1>1 DEF IndInv, TypeOK
  <2>7. QED
    BY <1>1, <2>2, <2>3, <2>4, <2>5, <2>6, Produced
<1>3. CASE Goto(w, "fail") /\ UNCHANGED index /\ (UNCHANGED faults \/ Fault)
  <2>1. faults' \in 0 .. MaxFaults
    BY <1>3, FaultStep DEF IndInv, TypeOK
  <2>2. QED
    BY <1>1, <1>3, <2>1, MoveOn DEF WorkerPc
<1>4. QED
  BY <1>2, <1>3 DEF Insert

LEMMA WriteInv == ASSUME IndInv, NEW w \in Workers, Write(w) PROVE IndInv'
<1>1. /\ UNCHANGED <<version, documented, task, keys, index>> /\ At(w, "write") /\ ~At(w, "idle")
      /\ TaskOf(w) \in Tasks /\ task[TaskOf(w)].kind = "export"
  BY DEF Write, At, IndInv, Assigned
<1>2. CASE files' = files \cup {<<TaskOf(w), w>>} /\ Goto(w, "finish") /\ UNCHANGED faults
  <2>1. /\ worker' \in [Workers -> WorkerRow]
        /\ worker'[w].pc = "finish" /\ worker'[w].task = worker[w].task
        /\ \A x \in Workers \ {w} : worker'[x] = worker[x]
    BY <1>2, GotoStep DEF IndInv, WorkerPc
  <2>2. /\ files \subseteq files' /\ files' \subseteq Tasks \X Workers
        /\ <<TaskOf(w), w>> \in files'
    BY <1>1, <1>2 DEF IndInv, TypeOK
  <2>3. index' \in Index /\ faults' \in 0 .. MaxFaults
    BY <1>1, <1>2 DEF IndInv, TypeOK
  <2>4. QED
    BY <1>1, <2>1, <2>2, <2>3, Produced
<1>3. CASE Fault /\ Goto(w, "fail") /\ UNCHANGED files
  BY <1>1, <1>3, FaultStep, MoveOn DEF WorkerPc, IndInv
<1>4. QED
  BY <1>2, <1>3 DEF Write

LEMMA FinishInv == ASSUME IndInv, NEW w \in Workers, Finish(w) PROVE IndInv'
<1>1. /\ UNCHANGED <<version, documented, keys, files, index>> /\ At(w, "finish") /\ ~At(w, "idle")
      /\ TaskOf(w) \in Tasks /\ task[TaskOf(w)] \in TaskRow /\ task[TaskOf(w)].status # "none"
      /\ faults' \in 0 .. MaxFaults
  BY FaultStep DEF Finish, At, IndInv, TypeOK, Assigned
<1>2. CASE Rest(w) /\ UNCHANGED task
  BY <1>1, <1>2, GiveUp
<1>3. CASE Goto(w, "fail") /\ UNCHANGED task
  BY <1>1, <1>3, MoveOn DEF WorkerPc
<1>4. CASE Completed(w) /\ (Rest(w) \/ Goto(w, "fail"))
  <2> DEFINE t == TaskOf(w)
             row == [task[t] EXCEPT !.status = "completed", !.output = w,
                                    !.owner = NoWorker, !.expired = FALSE]
  <2>1. /\ row \in TaskRow /\ row.status = "completed" /\ row.output = w
        /\ row.owner = NoWorker /\ row.kind = task[t].kind /\ row.key = task[t].key
    BY <1>1 DEF TaskRow, Finished
  <2>2. task' = [task EXCEPT ![t] = row]
    BY <1>1, <1>4 DEF Completed, IndInv, TypeOK, TaskRow
  <2>3. /\ worker' \in [Workers -> WorkerRow]
        /\ \A x \in Workers \ {w} : worker'[x] = worker[x]
        /\ worker'[w].pc = "idle" \/ (worker'[w].pc = "fail" /\ worker'[w].task = t)
    BY <1>4, RestStep, GotoStep DEF IndInv, WorkerPc, TaskOf
  <2>4. row.kind = "export" => <<t, w>> \in files
    BY <1>1, <2>1 DEF IndInv, Written
  <2> HIDE DEF row
  <2>5. QED
    BY <1>1, <2>1, <2>2, <2>3, <2>4, RowStep
<1>5. QED
  BY <1>2, <1>3, <1>4 DEF Finish

LEMMA FailInv == ASSUME IndInv, NEW w \in Workers, Fail(w) PROVE IndInv'
<1>1. /\ UNCHANGED <<version, documented, keys, files, index>> /\ At(w, "fail") /\ ~At(w, "idle") /\ Rest(w)
      /\ TaskOf(w) \in Tasks /\ task[TaskOf(w)] \in TaskRow /\ task[TaskOf(w)].status # "none"
      /\ faults' \in 0 .. MaxFaults
  BY FaultStep DEF Fail, At, IndInv, TypeOK, Assigned
<1>2. CASE UNCHANGED task
  BY <1>1, <1>2, GiveUp
<1>3. CASE task' = [task EXCEPT ![TaskOf(w)].status = "failed", ![TaskOf(w)].owner = NoWorker,
                                ![TaskOf(w)].expired = FALSE]
  <2> DEFINE t == TaskOf(w)
             row == [task[t] EXCEPT !.status = "failed", !.owner = NoWorker, !.expired = FALSE]
  <2>1. /\ row \in TaskRow /\ row.status = "failed"
        /\ row.owner = NoWorker /\ row.kind = task[t].kind /\ row.key = task[t].key
    BY <1>1 DEF TaskRow, Finished
  <2>2. task' = [task EXCEPT ![t] = row]
    BY <1>1, <1>3 DEF IndInv, TypeOK, TaskRow
  <2>3. /\ worker' \in [Workers -> WorkerRow] /\ worker'[w].pc = "idle"
        /\ \A x \in Workers \ {w} : worker'[x] = worker[x]
    BY <1>1, RestStep DEF IndInv
  <2> HIDE DEF row
  <2>4. QED
    BY <1>1, <2>1, <2>2, <2>3, RowStep
<1>4. QED
  BY <1>2, <1>3 DEF Fail

-----------------------------------------------------------------------------
(* Time and crashes.                                                       *)

LEMMA ExpiresInv ==
  ASSUME IndInv, NEW t \in Tasks, Expires(t), faults' \in 0 .. MaxFaults
  PROVE  IndInv'
<1> DEFINE row == [task[t] EXCEPT !.expired = TRUE]
<1>1. /\ UNCHANGED <<version, documented, keys, files, index, worker>> /\ task[t].status = "running"
      /\ task[t] \in TaskRow
  BY DEF Expires, IndInv, TypeOK
<1>2. /\ row \in TaskRow /\ row.status = "running"
      /\ row.kind = task[t].kind /\ row.key = task[t].key
  BY <1>1 DEF TaskRow
<1>3. task' = [task EXCEPT ![t] = row]
  BY DEF Expires
<1> HIDE DEF row
<1>4. /\ task' \in [Tasks -> TaskRow] /\ task'[t] = row
      /\ \A s \in Tasks \ {t} : task'[s] = task[s]
  BY <1>2, <1>3 DEF IndInv, TypeOK
<1>5. TypeOK'
  BY <1>1, <1>4 DEF IndInv, TypeOK
<1>6. ASSUME NEW s \in Tasks
      PROVE  /\ task'[s].status = task[s].status /\ task'[s].kind = task[s].kind
             /\ task'[s].key = task[s].key
             /\ task'[s].status # "running" => task'[s] = task[s]
  BY <1>1, <1>2, <1>4
<1>7. Assigned' /\ Written'
  BY <1>1, <1>6 DEF IndInv, Assigned, Written, At, TaskOf
<1>8. Owned' /\ CompletedHasArtifact' /\ Requested' /\ OneTaskPerKey'
  BY <1>1, <1>6 DEF IndInv, Owned, CompletedHasArtifact, Requested, OneTaskPerKey
<1>9. QED
  BY <1>5, <1>7, <1>8 DEF IndInv

LEMMA CrashInv == ASSUME IndInv, NEW w \in Workers, Crash(w) PROVE IndInv'
BY FaultStep, GiveUp DEF Crash, IndInv

-----------------------------------------------------------------------------
(* Who may change a row.                                                   *)

\* A step that changes a row either makes it, or claims it, or lets its lease run out, or is
\* its owner's who ends it.
LEMMA RowChange ==
  ASSUME IndInv, [Next]_vars, NEW t \in Tasks, task'[t] # task[t]
  PROVE  \/ task[t].status = "none"
         \/ task[t].status \in {"queued", "running"} /\ task'[t].status = "running"
         \/ /\ task[t].status = "running"
            /\ \E w \in Workers : task[t].owner = w /\ TaskOf(w) = t /\ worker'[w] # worker[w]
<1>0. task \in [Tasks -> TaskRow] /\ task[t] \in TaskRow
  BY DEF IndInv, TypeOK
<1>1. ASSUME NEW k \in Keys, NEW kind \in Kinds, Queue(k, kind) PROVE task[t].status = "none"
  BY <1>0, <1>1 DEF Queue
<1>2. ASSUME NEW w \in Workers, Claim(w)
      PROVE  task[t].status \in {"queued", "running"} /\ task'[t].status = "running"
  BY <1>0, <1>2 DEF Claim, Claimable, TaskRow
<1>3. ASSUME NEW s \in Tasks, Expires(s)
      PROVE  task[t].status = "running" /\ task'[t].status = "running"
  BY <1>0, <1>3 DEF Expires, TaskRow
<1>4. ASSUME NEW w \in Workers, Finish(w) \/ Fail(w)
      PROVE  /\ task[t].status = "running"
             /\ task[t].owner = w /\ TaskOf(w) = t /\ worker'[w] # worker[w]
  <2>1. TaskOf(w) = t
    BY <1>0, <1>4 DEF Finish, Fail, Completed
  <2>2. task[t].owner = w
    BY <1>4, <2>1 DEF Finish, Fail, Holds, Owns
  <2>3. task[t].status = "running"
    BY <2>2, LocalTasksAssumption DEF IndInv, Owned
  <2>4. worker'[w].pc # worker[w].pc
    BY <1>4, RestStep, GotoStep DEF Finish, Fail, At, IndInv, WorkerPc
  <2>5. QED
    BY <2>1, <2>2, <2>3, <2>4
<1>5. UNCHANGED task \/ (\E k \in Keys, kind \in Kinds : Queue(k, kind))
        \/ (\E w \in Workers : Claim(w) \/ Finish(w) \/ Fail(w)) \/ (\E s \in Tasks : Expires(s))
  BY DEF Next, Tick, vars, Publish, LoseDocuments, Begin, Sources, Delete, Insert, Write, Crash, ExpireDead,
         ExpireLate
<1>6. QED
  BY <1>1, <1>2, <1>3, <1>4, <1>5

-----------------------------------------------------------------------------
(* The theorems.                                                           *)

LEMMA StepInv == IndInv /\ [Next]_vars => IndInv'
<1> SUFFICES ASSUME IndInv, [Next]_vars PROVE IndInv'
  OBVIOUS
<1>1. CASE UNCHANGED vars
  BY <1>1 DEF vars, IndInv, TypeOK, Assigned, Owned, Written, CompletedHasArtifact, Requested,
              OneTaskPerKey, At, TaskOf
<1>2. CASE Publish \/ \E v \in Versions : LoseDocuments(v)
  BY <1>2, PublishInv, LoseDocumentsInv
<1>3. ASSUME NEW k \in Keys, NEW kind \in Kinds, Queue(k, kind) PROVE IndInv'
  BY <1>3, QueueInv
<1>4. ASSUME NEW w \in Workers, Tick(w) \/ Crash(w) PROVE IndInv'
  BY <1>4, ClaimInv, BeginInv, SourcesInv, DeleteInv, InsertInv, WriteInv, FinishInv, FailInv,
     CrashInv DEF Tick
<1>5. ASSUME NEW t \in Tasks, ExpireDead(t) \/ ExpireLate(t) PROVE IndInv'
  BY <1>5, ExpiresInv, FaultStep DEF ExpireDead, ExpireLate, IndInv, TypeOK
<1>6. QED
  BY <1>1, <1>2, <1>3, <1>4, <1>5 DEF Next

LEMMA Inductive == Spec => []IndInv
<1>1. Init => IndInv
  BY InitInv
<1>2. IndInv /\ [Next]_vars => IndInv'
  BY StepInv
<1>3. QED
  BY <1>1, <1>2, PTL DEF Spec

\* Every variable keeps its shape.
THEOREM TypeCorrect == Spec => []TypeOK
<1>1. IndInv => TypeOK
  BY DEF IndInv
<1>2. QED
  BY <1>1, Inductive, PTL

\* A completed export has the file of the output its row names, and however often a request
\* is repeated, it makes one task (local_tasks.py tick, queue).
THEOREM TasksSound == Spec => []TasksAreSound
<1>1. IndInv => TasksAreSound
  BY DEF IndInv, TasksAreSound
<1>2. QED
  BY <1>1, Inductive, PTL

\* Only the worker that holds the lease ends a task, and the end is final (local_tasks.py tick).
THEOREM TasksEndOnce == Spec => EndsOnce
<1>1. IndInv /\ [Next]_vars
        => [\A t \in Tasks :
              /\ task[t].status \in Finished => task'[t] = task[t]
              /\ task[t].status = "running" /\ task'[t].status \in Finished =>
                   \E w \in Workers : /\ task[t].owner = w /\ TaskOf(w) = t
                                      /\ worker'[w] # worker[w]]_task
  BY RowChange DEF Finished
<1>2. QED
  BY <1>1, Inductive, PTL DEF Spec, EndsOnce

-----------------------------------------------------------------------------
(* What the documents of the index cover.  A rebuild marks those of the    *)
(* version it was begun for; if that is still the current one, it has read *)
(* all there are, so that another which saw its documents committed has    *)
(* nothing left to insert that they would not refuse.                      *)

\* A rebuild that is past its reading.
PastReading(w) == worker[w].pc \in {"delete", "insert"}

\* Documents are of versions that leave some, and tasks of versions that were current.
Bounded ==
  /\ documented \subseteq 1 .. version
  /\ \A t \in Tasks : task[t].input <= version
  /\ index.marked \subseteq index.docs /\ index.docs \subseteq documented

\* What a rebuild has read, and what was committed behind its back.
WhatWasRead ==
  \A w \in Workers :
    /\ PastReading(w) /\ task[TaskOf(w)].input = version => documented \subseteq worker[w].docs
    /\ worker[w].pc \in {"begin", "sources", "delete"} => worker[w].after = {}
    /\ At(w, "insert") => worker[w].after \subseteq index.docs

\* Where the current version is marked, every document there is belongs to the index, and to
\* what a rebuild beside it saw committed.
MarkedWhole ==
  version \in index.marked =>
    /\ index.docs = documented
    /\ \A w \in Workers : At(w, "insert") /\ version \in worker[w].after
                            => worker[w].after = documented

IndexInv == Bounded /\ WhatWasRead /\ MarkedWhole

LEMMA InitIndex == Init => IndexInv
BY DEF Init, IndexInv, Bounded, WhatWasRead, MarkedWhole, PastReading, At, NoTask, Resting, Versions

\* Nothing but a worker on its way, in rows that keep their versions.
LEMMA IndexKept ==
  ASSUME IndInv, IndexInv, UNCHANGED <<version, documented, index>>,
         \A t \in Tasks : task[t].status # "none" => task'[t].input = task[t].input,
         \A t \in Tasks : task'[t].input <= version,
         \A w \in Workers :
           \/ worker'[w] = worker[w]
           \/ worker'[w].pc \notin {"begin", "sources", "delete", "insert"}
           \/ worker'[w].pc \in {"begin", "sources"} /\ worker'[w].after = {}
           \/ /\ worker[w].pc = "delete" /\ worker'[w].pc = "insert"
              /\ worker'[w].task = worker[w].task /\ worker'[w].docs = worker[w].docs
              /\ worker'[w].after = worker[w].after
  PROVE  IndexInv'
<1>1. Bounded'
  BY DEF IndexInv, Bounded
<1>2. WhatWasRead'
  <2> SUFFICES ASSUME NEW w \in Workers
               PROVE  /\ PastReading(w)' /\ task'[worker'[w].task].input = version
                           => documented \subseteq worker'[w].docs
                      /\ worker'[w].pc \in {"begin", "sources", "delete"} => worker'[w].after = {}
                      /\ worker'[w].pc = "insert" => worker'[w].after \subseteq index.docs
    BY DEF WhatWasRead, At, TaskOf
  <2>1. CASE worker'[w].pc \notin {"begin", "sources", "delete", "insert"}
    BY <2>1 DEF PastReading
  <2>2. CASE worker'[w].pc \in {"begin", "sources"} /\ worker'[w].after = {}
    BY <2>2 DEF PastReading
  <2>3. CASE PastReading(w) /\ worker'[w].task = worker[w].task
             /\ worker'[w].docs = worker[w].docs /\ worker'[w].after = worker[w].after
             /\ (worker'[w] = worker[w] \/ (worker[w].pc = "delete" /\ worker'[w].pc = "insert"))
    <3>1. task'[worker[w].task].input = task[worker[w].task].input
      BY <2>3 DEF IndInv, Assigned, PastReading, At, TaskOf
    <3>2. QED
      BY <2>3, <3>1 DEF IndexInv, WhatWasRead, PastReading, At, TaskOf
  <2>4. CASE worker'[w] = worker[w] /\ ~PastReading(w)
    BY <2>4 DEF IndexInv, WhatWasRead, PastReading, At
  <2>5. QED
    BY <2>1, <2>2, <2>3, <2>4 DEF PastReading
<1>3. MarkedWhole'
  <2> SUFFICES ASSUME version \in index.marked, NEW w \in Workers, worker'[w].pc = "insert",
                      version \in worker'[w].after
               PROVE  worker'[w].after = documented
    BY DEF IndexInv, MarkedWhole, At
  <2>1. CASE worker'[w] = worker[w]
    BY <2>1 DEF IndexInv, MarkedWhole, At
  <2>2. CASE worker[w].pc = "delete" /\ worker'[w].after = worker[w].after
    BY <2>2 DEF IndexInv, WhatWasRead
  <2>3. QED
    BY <2>1, <2>2
<1>4. QED
  BY <1>1, <1>2, <1>3 DEF IndexInv

\* A new version is one no document is of.
LEMMA PublishIndex == ASSUME IndInv, IndexInv, Publish PROVE IndexInv'
<1>1. version \in 1 .. MaxVersion /\ version' = version + 1
  BY DEF Publish, IndInv, TypeOK, Versions
<1>2. /\ UNCHANGED <<task, index, worker>> /\ documented \subseteq documented'
      /\ documented' \subseteq documented \cup {version'}
      /\ \A t \in Tasks : task[t].input \in 0 .. MaxVersion
  BY DEF Publish, IndInv, TypeOK, TaskRow
<1>3. /\ documented \subseteq 1 .. version /\ index.marked \subseteq documented
      /\ \A t \in Tasks : task[t].input <= version
  BY DEF IndexInv, Bounded
<1>4. Bounded'
  <2>1. documented' \subseteq 1 .. version'
    BY <1>1, <1>2, <1>3, LocalTasksAssumption
  <2>2. \A t \in Tasks : task'[t].input <= version'
    BY <1>1, <1>2, <1>3, LocalTasksAssumption
  <2>3. QED
    BY <1>2, <2>1, <2>2 DEF IndexInv, Bounded
<1>5. version' \notin index.marked
  BY <1>1, <1>3, LocalTasksAssumption
<1>6. \A w \in Workers : PastReading(w) => task[TaskOf(w)].input # version'
  <2> SUFFICES ASSUME NEW w \in Workers, PastReading(w) PROVE task[TaskOf(w)].input # version'
    OBVIOUS
  <2>1. TaskOf(w) \in Tasks
    BY DEF PastReading, IndInv, Assigned, At
  <2>2. QED
    BY <1>1, <1>2, <1>3, <2>1, LocalTasksAssumption
<1>7. WhatWasRead'
  BY <1>2, <1>6 DEF IndexInv, WhatWasRead, PastReading, At, TaskOf
<1>8. MarkedWhole'
  BY <1>2, <1>5 DEF MarkedWhole
<1>9. QED
  BY <1>4, <1>7, <1>8 DEF IndexInv

LEMMA LoseDocumentsIndex ==
  ASSUME IndInv, IndexInv, NEW v \in Versions, LoseDocuments(v) PROVE IndexInv'
<1>1. /\ UNCHANGED <<version, task>> /\ v # version
      /\ documented' = documented \ {v}
      /\ index'.docs = index.docs \ {v} /\ index'.marked = index.marked \ {v}
  BY DEF LoseDocuments
<1>2. ASSUME NEW w \in Workers
      PROVE  /\ worker'[w].pc = worker[w].pc /\ worker'[w].task = worker[w].task
             /\ worker'[w].docs = worker[w].docs /\ worker'[w].after = worker[w].after \ {v}
  <2>1. worker[w] \in WorkerRow /\ worker'[w] = [worker[w] EXCEPT !.after = @ \ {v}]
    BY DEF LoseDocuments, IndInv, TypeOK
  <2>2. QED
    BY <2>1 DEF WorkerRow
<1>3. Bounded'
  BY <1>1 DEF IndexInv, Bounded
<1>4. WhatWasRead'
  BY <1>1, <1>2 DEF IndexInv, WhatWasRead, PastReading, At, TaskOf
<1>5. MarkedWhole'
  BY <1>1, <1>2 DEF IndexInv, MarkedWhole, At
<1>6. QED
  BY <1>3, <1>4, <1>5 DEF IndexInv

LEMMA QueueIndex ==
  ASSUME IndInv, IndexInv, NEW k \in Keys, NEW kind \in Kinds, Queue(k, kind) PROVE IndexInv'
<1>1. version \in Nat /\ \A t \in Tasks : task[t].input <= version
  BY LocalTasksAssumption DEF IndInv, TypeOK, Versions, IndexInv, Bounded
<1>2. CASE UNCHANGED task
  BY <1>1, <1>2, IndexKept DEF Queue
<1>3. CASE \E t \in Tasks :
             /\ task[t].status = "none"
             /\ task' = [task EXCEPT ![t] = [NoTask EXCEPT !.status = "queued", !.kind = kind,
                                                           !.input = version, !.key = k]]
  <2>1. PICK t \in Tasks :
          /\ task[t].status = "none" /\ task'[t].input = version
          /\ \A s \in Tasks \ {t} : task'[s] = task[s]
    BY <1>3 DEF IndInv, TypeOK, NoTask
  <2>2. \A s \in Tasks : /\ task[s].status # "none" => task'[s].input = task[s].input
                         /\ task'[s].input <= version
    BY <1>1, <2>1
  <2>3. QED
    BY <2>2, IndexKept DEF Queue
<1>4. QED
  BY <1>2, <1>3 DEF Queue

\* A claim, the end of a task and of a lease leave the version of its row alone.
LEMMA SameInputs ==
  ASSUME IndInv,
         \/ UNCHANGED task
         \/ \E t \in Tasks : Expires(t)
         \/ \E w \in Workers : Claim(w)
         \/ \E w \in Workers : ~At(w, "idle") /\ (Finish(w) \/ Fail(w))
  PROVE  \A t \in Tasks : task'[t].input = task[t].input
<1>1. task \in [Tasks -> TaskRow]
  BY DEF IndInv, TypeOK
<1>2. ASSUME NEW w \in Workers, ~At(w, "idle"), Finish(w) \/ Fail(w), NEW t \in Tasks
      PROVE  task'[t].input = task[t].input
  <2>1. TaskOf(w) \in Tasks /\ task[t] \in TaskRow
    BY <1>1, <1>2 DEF IndInv, Assigned
  <2>2. CASE Completed(w)
    BY <1>1, <2>1, <2>2 DEF Completed, TaskRow
  <2>3. CASE UNCHANGED task
    BY <2>3
  <2>4. CASE task' = [task EXCEPT ![TaskOf(w)].status = "failed", ![TaskOf(w)].owner = NoWorker,
                                  ![TaskOf(w)].expired = FALSE]
    BY <1>1, <2>1, <2>4 DEF TaskRow
  <2>5. QED
    BY <1>2, <2>2, <2>3, <2>4 DEF Finish, Fail
<1>3. ASSUME NEW w \in Workers, Claim(w), NEW t \in Tasks PROVE task'[t].input = task[t].input
  <2>1. PICK s \in Tasks :
          task' = [task EXCEPT ![s].status = "running", ![s].owner = w, ![s].expired = FALSE]
    BY <1>3 DEF Claim
  <2>2. task[t] \in TaskRow
    BY <1>1
  <2>3. QED
    BY <1>1, <2>1, <2>2 DEF TaskRow
<1>4. ASSUME NEW s \in Tasks, Expires(s) PROVE \A t \in Tasks : task'[t].input = task[t].input
  BY <1>1, <1>4 DEF Expires, TaskRow
<1>5. QED
  BY <1>2, <1>3, <1>4

LEMMA SourcesIndex == ASSUME IndInv, IndexInv, NEW w \in Workers, Sources(w) PROVE IndexInv'
<1>1. /\ UNCHANGED <<version, documented, task, index>> /\ At(w, "sources")
      /\ worker[w] \in WorkerRow
  BY DEF Sources, IndInv, TypeOK
<1>2. worker' = [worker EXCEPT ![w] = [worker[w] EXCEPT !.pc = "delete", !.docs = documented]]
  BY DEF Sources, IndInv, TypeOK
<1>3. /\ worker'[w].pc = "delete" /\ worker'[w].docs = documented
      /\ worker'[w].after = worker[w].after
      /\ \A x \in Workers \ {w} : worker'[x] = worker[x]
  BY <1>1, <1>2 DEF IndInv, TypeOK, WorkerRow
<1>4. QED
  BY <1>1, <1>3 DEF IndexInv, Bounded, WhatWasRead, MarkedWhole, PastReading, At, TaskOf

\* A rebuild inserts what it read beside what it saw committed, which is none of it.
LEMMA BuiltIndex ==
  ASSUME IndInv, IndexInv, NEW w \in Workers, At(w, "insert"), Admitted(w), Built(w),
         UNCHANGED <<version, documented, task>>
  PROVE  IndexInv'
<1> DEFINE docs == worker[w].docs
           after == worker[w].after
           input == task[TaskOf(w)].input
<1>1. /\ index'.docs = after \cup docs
      /\ index'.marked = (index.marked \cap after) \cup (docs \cap {input})
  BY DEF Built, TaskOf
<1>2. ASSUME NEW x \in Workers
      PROVE  \/ worker'[x].pc \in {"finish", "fail"}
             \/ ~At(x, "insert") /\ worker'[x] = worker[x]
             \/ /\ At(x, "insert") /\ worker'[x].pc = "insert"
                /\ worker'[x].task = worker[x].task /\ worker'[x].docs = worker[x].docs
                /\ worker'[x].after = (worker[x].after \cap after) \cup docs
  <2>1. worker[x] \in WorkerRow
    BY DEF IndInv, TypeOK
  <2>2. CASE x = w
    BY <2>2 DEF Built, Resting
  <2>3. CASE x # w /\ At(x, "insert")
    <3>1. worker'[x] = [worker[x] EXCEPT !.after = (@ \cap after) \cup docs]
      BY <2>3 DEF Built
    <3>2. QED
      BY <2>1, <2>3, <3>1 DEF WorkerRow, At
  <2>4. CASE x # w /\ ~At(x, "insert")
    BY <2>4 DEF Built
  <2>5. QED
    BY <2>2, <2>3, <2>4
<1>3. docs \subseteq documented /\ docs \cap after = {} /\ after \subseteq documented
  BY DEF Admitted, IndexInv, Bounded, WhatWasRead
<1>4. input = version => docs = documented
  BY <1>3 DEF IndexInv, WhatWasRead, PastReading, At
<1>5. version \in index.marked /\ version \in after => after = documented /\ docs = {}
  BY <1>3 DEF IndexInv, MarkedWhole
<1> HIDE DEF docs, after, input
<1>6. Bounded'
  BY <1>1, <1>3 DEF IndexInv, Bounded
<1>7. WhatWasRead'
  <2> SUFFICES ASSUME NEW x \in Workers
               PROVE  /\ PastReading(x)' /\ task[worker'[x].task].input = version
                           => documented \subseteq worker'[x].docs
                      /\ worker'[x].pc \in {"begin", "sources", "delete"} => worker'[x].after = {}
                      /\ worker'[x].pc = "insert" => worker'[x].after \subseteq index'.docs
    BY DEF WhatWasRead, At, TaskOf
  <2>1. CASE worker'[x].pc \in {"finish", "fail"}
    BY <2>1 DEF PastReading
  <2>2. CASE ~At(x, "insert") /\ worker'[x] = worker[x]
    BY <2>2 DEF IndexInv, WhatWasRead, PastReading, At, TaskOf
  <2>3. CASE /\ At(x, "insert") /\ worker'[x].pc = "insert"
             /\ worker'[x].task = worker[x].task /\ worker'[x].docs = worker[x].docs
             /\ worker'[x].after = (worker[x].after \cap after) \cup docs
    BY <1>1, <2>3 DEF IndexInv, WhatWasRead, PastReading, At, TaskOf
  <2>4. QED
    BY <1>2, <2>1, <2>2, <2>3
<1>8. version \in index'.marked => \/ docs = documented
                                   \/ version \in index.marked /\ after = documented /\ docs = {}
  BY <1>1, <1>4, <1>5
<1>9. MarkedWhole'
  <2>1. version \in index'.marked => index'.docs = documented
    BY <1>1, <1>3, <1>8
  <2>2. ASSUME version \in index'.marked, NEW x \in Workers, worker'[x].pc = "insert",
               version \in worker'[x].after
        PROVE  worker'[x].after = documented
    <3>1. /\ At(x, "insert") /\ worker'[x].after = (worker[x].after \cap after) \cup docs
      BY <1>2, <2>2 DEF At
    <3>2. CASE docs = documented
      BY <1>3, <3>1, <3>2
    <3>3. CASE version \in index.marked /\ after = documented /\ docs = {}
      <4>1. version \in worker[x].after
        BY <2>2, <3>1, <3>3
      <4>2. worker[x].after = documented
        BY <3>1, <3>3, <4>1 DEF IndexInv, MarkedWhole
      <4>3. QED
        BY <3>1, <3>3, <4>2
    <3>4. QED
      BY <1>8, <2>2, <3>2, <3>3
  <2>3. QED
    BY <2>1, <2>2 DEF MarkedWhole, At
<1>10. QED
  BY <1>6, <1>7, <1>9 DEF IndexInv

\* All other steps only move a worker.
LEMMA MoveIndex ==
  ASSUME IndInv, IndexInv, NEW w \in Workers,
         \/ Claim(w) \/ Begin(w) \/ Delete(w) \/ Write(w) \/ Finish(w) \/ Fail(w) \/ Crash(w)
         \/ /\ At(w, "insert") /\ Goto(w, "fail")
            /\ UNCHANGED <<version, documented, task, index>>
  PROVE  IndexInv'
<1>1. UNCHANGED <<version, documented, index>>
  BY DEF Claim, Begin, Delete, Write, Finish, Fail, Crash
<1>2. \A t \in Tasks : task'[t].input = task[t].input
  BY SameInputs DEF Begin, Delete, Write, Finish, Fail, Crash, At
<1>3. \A t \in Tasks : task'[t].input <= version
  BY <1>2 DEF IndexInv, Bounded
<1>4. \A x \in Workers \ {w} : worker'[x] = worker[x]
  BY DEF Claim, Begin, Delete, Write, Finish, Fail, Crash, Goto, Rest, IndInv, TypeOK
<1>5. CASE Rest(w)
  BY <1>1, <1>2, <1>3, <1>4, <1>5, RestStep, IndexKept DEF IndInv
<1>6. CASE Claim(w)
  <2>1. worker'[w].pc = "begin" /\ worker'[w].after = {}
    <3>1. PICK t \in Tasks :
            worker' = [worker EXCEPT ![w] = [Resting EXCEPT !.pc = "begin", !.task = t]]
      BY <1>6 DEF Claim
    <3>2. QED
      BY <3>1 DEF IndInv, TypeOK, Resting
  <2>2. QED
    BY <1>1, <1>2, <1>3, <1>4, <2>1, IndexKept
<1>7. ASSUME NEW pc \in {"write", "finish", "fail"}, Goto(w, pc) PROVE IndexInv'
  <2>1. worker'[w].pc = pc
    BY <1>7, GotoStep DEF IndInv, WorkerPc
  <2>2. QED
    BY <1>1, <1>2, <1>3, <1>4, <2>1, IndexKept
<1>8. CASE Goto(w, "sources") /\ At(w, "begin")
  <2>1. worker'[w].pc = "sources" /\ worker'[w].after = worker[w].after
    BY <1>8, GotoStep DEF IndInv, WorkerPc
  <2>2. worker'[w].after = {}
    BY <1>8, <2>1 DEF IndexInv, WhatWasRead, At
  <2>3. QED
    BY <1>1, <1>2, <1>3, <1>4, <2>1, <2>2, IndexKept
<1>9. CASE Delete(w)
  <2>1. /\ worker[w].pc = "delete" /\ worker'[w].pc = "insert"
        /\ worker'[w].task = worker[w].task /\ worker'[w].docs = worker[w].docs
        /\ worker'[w].after = worker[w].after
    BY <1>9, GotoStep DEF Delete, At, IndInv, WorkerPc
  <2>2. QED
    BY <1>1, <1>2, <1>3, <1>4, <2>1, IndexKept
<1>10. QED
  BY <1>5, <1>6, <1>7, <1>8, <1>9 DEF Begin, Write, Finish, Fail, Crash

LEMMA StepIndex == IndInv /\ IndexInv /\ [Next]_vars => IndexInv'
<1> SUFFICES ASSUME IndInv, IndexInv, [Next]_vars PROVE IndexInv'
  OBVIOUS
<1>0. \A t \in Tasks : task[t].input <= version
  BY DEF IndexInv, Bounded
<1>1. CASE UNCHANGED vars
  BY <1>0, <1>1, IndexKept DEF vars
<1>2. CASE Publish
  BY <1>2, PublishIndex
<1>3. CASE \E v \in Versions : LoseDocuments(v)
  BY <1>3, LoseDocumentsIndex
<1>4. ASSUME NEW k \in Keys, NEW kind \in Kinds, Queue(k, kind) PROVE IndexInv'
  BY <1>4, QueueIndex
<1>5. ASSUME NEW w \in Workers, Tick(w) \/ Crash(w) PROVE IndexInv'
  <2>1. CASE Insert(w)
    <3>1. At(w, "insert") /\ UNCHANGED <<version, documented, task>>
      BY <2>1 DEF Insert
    <3>2. CASE Admitted(w) /\ Built(w)
      BY <3>1, <3>2, BuiltIndex
    <3>3. CASE Goto(w, "fail") /\ UNCHANGED index
      BY <3>1, <3>3, MoveIndex
    <3>4. QED
      BY <2>1, <3>2, <3>3 DEF Insert
  <2>2. CASE Sources(w)
    BY <2>2, SourcesIndex
  <2>3. QED
    BY <1>5, <2>1, <2>2, MoveIndex DEF Tick
<1>6. ASSUME NEW t \in Tasks, ExpireDead(t) \/ ExpireLate(t) PROVE IndexInv'
  <2>1. Expires(t)
    BY <1>6 DEF ExpireDead, ExpireLate
  <2>2. \A s \in Tasks : task'[s].input = task[s].input
    BY <2>1, SameInputs
  <2>3. QED
    BY <1>0, <2>1, <2>2, IndexKept DEF Expires
<1>7. QED
  BY <1>1, <1>2, <1>3, <1>4, <1>5, <1>6 DEF Next

\* Blank and pruned versions included: where an index that is called ready marks documents
\* as current at all, they are those of the current version, and the index has everything
\* there is of the book (local_search.py rebuild_project_index, status).
THEOREM ReadyCorrect == Spec => []ReadyIsCurrent
<1>1. Init => IndInv /\ IndexInv
  BY InitInv, InitIndex
<1>2. IndInv /\ IndexInv /\ [Next]_vars => (IndInv /\ IndexInv)'
  BY StepInv, StepIndex
<1>3. IndInv /\ IndexInv => ReadyIsCurrent
  BY DEF IndexInv, MarkedWhole, ReadyIsCurrent, IndexReady, StaleDocuments
<1>4. QED
  BY <1>1, <1>2, <1>3, PTL DEF Spec

-----------------------------------------------------------------------------
(* The template defaults.  A page decides what it writes when it takes the *)
(* lock of a store, and until it lets go of it nobody else writes there:   *)
(* what is still to be written (Pending) goes on from what is current, and *)
(* a bundle is current only after its version is on file.                  *)

VersionFile(s, b) == StoreFile(s, "version", b)
CurrentFile(s, b) == StoreFile(s, "current", b)

TemplatesTypes ==
    /\ storeLock \in [Stores -> Pages \cup {NoPage}]
    /\ purpose \in [Pages -> Previews \cup {NoPage}]
    /\ pointer = [s \in Stores |-> pointer[s]] /\ records = [s \in Stores |-> records[s]]
    /\ todo = [p \in Pages |-> todo[p]] /\ viewed = [p \in Pages |-> viewed[p]]
    /\ frozen = [w \in Previews |-> frozen[w]]
    /\ \A w \in Previews : frozen[w] # <<>> => frozen[w][2] \in Stores
    /\ saves \in Nat

\* What a revision that is not made yet would be called.
Unmade(s, r) == s = "craft" /\ \E n \in Nat : n > saves /\ r = <<"saved", n>>

NewOnFile(s, b) ==
    /\ b.revision \notin DOMAIN records[s] /\ ~Unmade(s, b.revision)
    /\ CheckedBundle(s, b)

\* The files a holder of the lock has still to write: the version of the
\* bundle that was current, the one of the new bundle, and the pointer.
Owed(p, s, c) ==
    \/ /\ todo[p] = <<CurrentFile(s, c)>> /\ OnRecord(s, c)
    \/ /\ todo[p] = <<VersionFile(s, c), CurrentFile(s, c)>> /\ NewOnFile(s, c)
    \/ \E b : /\ todo[p] = <<VersionFile(s, b), VersionFile(s, c), CurrentFile(s, c)>>
              /\ NewOnFile(s, b) /\ NewOnFile(s, c) /\ b.revision # c.revision

\* What it will put in the place of the current bundle.
Continues(p, c) ==
    pointer["craft"] # NoBundle =>
        /\ purpose[p] = NoPage /\ viewed[p] = pointer["craft"].revision
        /\ OneChange(pointer["craft"], c)

Holding(p, s) ==
    /\ storeLock[s] = p /\ (purpose[p] # NoPage => s = "craft")
    /\ \E c : c # NoBundle /\ Owed(p, s, c) /\ (s = "craft" => Continues(p, c))

Writers == \A p \in Pages : todo[p] # <<>> => \E s \in Stores : Holding(p, s)

\* A preview freezes what it has made current, or found so.
Installed == \A p \in Pages : purpose[p] # NoPage /\ todo[p] = <<>> =>
                 storeLock["craft"] = p /\ pointer["craft"] # NoBundle

NothingUnmade == \A s \in Stores : \A r \in DOMAIN records[s] : ~Unmade(s, r)

TemplatesInv ==
    /\ TemplatesTypes /\ Writers /\ Installed /\ NothingUnmade
    /\ BundlesOnRecord /\ RecordsReadable /\ NoSaveLost

-----------------------------------------------------------------------------
LEMMA ThreeFiles ==
  ASSUME NEW a, NEW b, NEW c
  PROVE  /\ Head(<<a, b, c>>) = a /\ Tail(<<a, b, c>>) = <<b, c>> /\ Len(<<a, b, c>>) = 3
         /\ Head(<<b, c>>) = b /\ Tail(<<b, c>>) = <<c>> /\ Len(<<b, c>>) = 2
         /\ Head(<<c>>) = c /\ Tail(<<c>>) = <<>> /\ Len(<<c>>) = 1
         /\ <<a, b, c>> # <<>> /\ <<b, c>> # <<>> /\ <<c>> # <<>>
OBVIOUS

LEMMA AppendFile ==
  ASSUME NEW a, NEW b
  PROVE  Append(<<a>>, b) = <<a, b>> /\ Append(<<>>, b) = <<b>>
<1> DEFINE s == Append(<<a>>, b)
<1>1. <<a>> \in Seq({a, b}) /\ Len(<<a>>) = 1 /\ <<a>>[1] = a
    OBVIOUS
<1>2. s \in Seq({a, b}) /\ Len(s) = 2 /\ s[1] = a /\ s[2] = b
    BY <1>1
<1> HIDE DEF s
<1>3. s = [i \in 1 .. 2 |-> s[i]]
    BY <1>2
<1>4. s = <<a, b>>
    BY <1>2, <1>3
<1> QED BY <1>4 DEF s

LEMMA JoinFiles ==
  ASSUME NEW a, NEW b, NEW c
  PROVE  <<a>> \o <<b, c>> = <<a, b, c>> /\ <<>> \o <<b, c>> = <<b, c>>
<1> DEFINE s == <<a>> \o <<b, c>>
<1>1. /\ <<a>> \in Seq({a, b, c}) /\ Len(<<a>>) = 1 /\ <<a>>[1] = a
      /\ <<b, c>> \in Seq({a, b, c}) /\ Len(<<b, c>>) = 2
      /\ <<b, c>>[1] = b /\ <<b, c>>[2] = c
    OBVIOUS
<1>2. s \in Seq({a, b, c}) /\ Len(s) = 3 /\ s[1] = a /\ s[2] = b /\ s[3] = c
    BY <1>1
<1> HIDE DEF s
<1>3. s = [i \in 1 .. 3 |-> s[i]]
    BY <1>2
<1>4. s = <<a, b, c>>
    BY <1>2, <1>3
<1> QED BY <1>4 DEF s

LEMMA FileFields ==
  ASSUME NEW s, NEW b
  PROVE  /\ VersionFile(s, b).store = s /\ VersionFile(s, b).name = "version" /\ VersionFile(s, b).bundle = b
         /\ CurrentFile(s, b).store = s /\ CurrentFile(s, b).name = "current" /\ CurrentFile(s, b).bundle = b
BY DEF VersionFile, CurrentFile, StoreFile

LEMMA Revisions ==
  /\ \A n, m \in Nat : <<"saved", n>> = <<"saved", m>> => n = m
  /\ \A n, b : <<"saved", n>> # <<"adapted", b>>
  /\ \A n : /\ <<"saved", n>> # <<"none">> /\ <<"saved", n>> # <<"published">>
            /\ <<"saved", n>> # <<"earlier">> /\ <<"adapted", n>> # <<"none">>
  /\ <<"published">> # <<"none">> /\ <<"earlier">> # <<"none">>
OBVIOUS

LEMMA AdaptedIsValid ==
  ASSUME NEW v, NEW t, ValidText("legacy", v, t)
  PROVE  ValidText("craft", v, AdaptText(v, t))
<1>1. /\ RequiredFields("legacy", v) \subseteq AllowedFields("legacy", v)
      /\ RequiredFields("craft", v) \subseteq AllowedFields("craft", v)
      /\ AllowedFields("legacy", v) \subseteq AllowedFields("craft", v)
    BY DEF RequiredFields, AllowedFields
<1>2. CASE t = DefaultText("legacy", v)
    BY <1>1, <1>2 DEF AdaptText, DefaultText, ValidText
<1>3. CASE t # DefaultText("legacy", v)
  <2>1. AdaptText(v, t).fields = t.fields \cup RequiredFields("craft", v)
    BY <1>3 DEF AdaptText
  <2> QED BY <1>1, <2>1 DEF ValidText
<1> QED BY <1>2, <1>3

LEMMA CraftFacts ==
  ASSUME TemplatesInv
  PROVE  /\ CheckedBundle("craft", CraftCurrent) /\ CraftCurrent # NoBundle
         /\ ~Unmade("craft", CraftCurrent.revision)
         /\ CheckedBundle("legacy", LegacyCurrent)
         /\ pointer["craft"] # NoBundle => CraftCurrent = pointer["craft"]
<1>1. CheckedBundle("legacy", LegacyCurrent)
  <2>1. CASE pointer["legacy"] = NoBundle
    <3>1. LegacyCurrent.templates = <<>>
        BY <2>1 DEF LegacyCurrent, BundleOf
    <3> QED BY <3>1 DEF CheckedBundle
  <2>2. CASE pointer["legacy"] # NoBundle
    <3>1. OnRecord("legacy", pointer["legacy"])
        BY <2>2 DEF TemplatesInv, BundlesOnRecord, Stores
    <3> QED BY <2>2, <3>1 DEF TemplatesInv, RecordsReadable, OnRecord, LegacyCurrent, Stores
  <2> QED BY <2>1, <2>2
<1>2. CASE pointer["craft"] = NoBundle
  <2> DEFINE b == LegacyCurrent
             t == [v \in DOMAIN b.templates |-> AdaptText(v, b.templates[v])]
  <2>1. CraftCurrent = BundleOf(<<"adapted", b>>, t, <<>>)
    BY <1>2 DEF CraftCurrent, AdaptedBundle
  <2>2. CraftCurrent.revision = <<"adapted", b>> /\ CraftCurrent.templates = t
    BY <2>1 DEF BundleOf
  <2>3. \A v \in DOMAIN t : ValidText("craft", v, t[v])
    BY <1>1, AdaptedIsValid DEF CheckedBundle
  <2> HIDE DEF b, t
  <2>4. CheckedBundle("craft", CraftCurrent)
    BY <2>2, <2>3 DEF CheckedBundle
  <2>5. NoBundle.revision = <<"none">>
    BY DEF NoBundle
  <2> QED BY <1>1, <1>2, <2>2, <2>4, <2>5, Revisions DEF Unmade
<1>3. CASE pointer["craft"] # NoBundle
  <2>1. OnRecord("craft", pointer["craft"]) /\ CraftCurrent = pointer["craft"]
    BY <1>3 DEF TemplatesInv, BundlesOnRecord, Stores, CraftCurrent
  <2>2. CheckedBundle("craft", CraftCurrent) /\ ~Unmade("craft", CraftCurrent.revision)
    BY <2>1 DEF TemplatesInv, RecordsReadable, NothingUnmade, OnRecord, Stores
  <2> QED BY <1>1, <1>3, <2>1, <2>2
<1> QED BY <1>2, <1>3

LEMMA SavedContinues ==
  ASSUME NEW b, NEW v \in Variants, NEW text, NEW change
  PROVE  OneChange(b, SavedBundle(b, v, text, change))
<1> DEFINE c == SavedBundle(b, v, text, change)
<1>1. /\ c.templates \in {Without(b.templates, v), With(b.templates, v, text)}
      /\ c.settings \in {b.settings, Without(b.settings, v), With(b.settings, v, change)}
    BY DEF SavedBundle, BundleOf, SettingsOf
<1> HIDE DEF c
<1>2. ASSUME NEW f, NEW u, NEW t, u # v
      PROVE  Same(f, Without(f, v), u) /\ Same(f, With(f, v, t), u) /\ Same(f, f, u)
  <2>1. Same(f, Without(f, v), u)
    BY <1>2 DEF Same, Without, Restrict
  <2>2. Same(f, With(f, v, t), u)
    BY <1>2 DEF Same, With
  <2> QED BY <2>1, <2>2 DEF Same
<1>3. \A u \in Variants \ {v} : Same(b.templates, c.templates, u) /\ Same(b.settings, c.settings, u)
    BY <1>1, <1>2
<1>4. OneChange(b, c)
    BY <1>3 DEF OneChange
<1> QED BY <1>4 DEF c

-----------------------------------------------------------------------------
LEMMA TemplatesStart == InitTemplates => TemplatesInv
<1> SUFFICES ASSUME InitTemplates PROVE TemplatesInv
    OBVIOUS
<1>1. PICK earlier \in EarlierTexts \cup {<<>>} :
        LET b == BundleOf(<<"earlier">>, earlier, <<>>) IN
         /\ pointer = [s \in Stores |-> IF s = "legacy" /\ earlier # <<>> THEN b ELSE NoBundle]
         /\ records = [s \in Stores |-> IF s = "legacy" /\ earlier # <<>> THEN With(<<>>, b.revision, b)
                                        ELSE <<>>]
    BY ZenonT(60) DEF InitTemplates
<1> DEFINE b == BundleOf(<<"earlier">>, earlier, <<>>)
<1>2. b.revision = <<"earlier">> /\ b.templates = earlier
    BY DEF BundleOf
<1>3. /\ pointer["craft"] = NoBundle /\ records["craft"] = <<>>
      /\ pointer["legacy"] = (IF earlier # <<>> THEN b ELSE NoBundle)
      /\ records["legacy"] = (IF earlier # <<>> THEN With(<<>>, b.revision, b) ELSE <<>>)
      /\ pointer = [s \in Stores |-> pointer[s]] /\ records = [s \in Stores |-> records[s]]
    BY <1>1 DEF Stores
<1>4. earlier # <<>> => CheckedBundle("legacy", b)
    BY <1>2, EarlierAssumption DEF CheckedBundle
<1> HIDE DEF b
<1>5. DOMAIN <<>> = {}
    OBVIOUS
<1>6. \A r \in DOMAIN records["legacy"] : r = b.revision /\ records["legacy"][r] = b /\ earlier # <<>>
    BY <1>3, <1>5 DEF With
<1>7. TemplatesTypes
    BY <1>3, TemplatesAssumption DEF InitTemplates, TemplatesTypes
<1>8. Writers /\ Installed
    BY DEF InitTemplates, Writers, Installed
<1>9. NothingUnmade
    BY <1>3, <1>5 DEF NothingUnmade, Unmade, Stores
<1>10. RecordsReadable
    BY <1>3, <1>4, <1>5, <1>6 DEF RecordsReadable, Stores
<1>11. BundlesOnRecord
  <2>1. pointer["legacy"] # NoBundle => OnRecord("legacy", pointer["legacy"])
    BY <1>3, <1>5 DEF OnRecord, With
  <2> QED BY <1>3, <2>1 DEF BundlesOnRecord, InitTemplates, Stores
<1>12. NoSaveLost
    BY <1>5 DEF InitTemplates, NoSaveLost
<1> QED BY <1>7, <1>8, <1>9, <1>10, <1>11, <1>12 DEF TemplatesInv

\* Nobody writes a store while another holds its lock.
LEMMA OthersGoOn ==
  ASSUME TemplatesInv, NEW q \in Pages,
         todo'[q] = todo[q], purpose'[q] = purpose[q], viewed'[q] = viewed[q],
         saves' \in Nat, saves' >= saves,
         \A s \in Stores : storeLock[s] = q =>
             storeLock'[s] = q /\ pointer'[s] = pointer[s] /\ records'[s] = records[s]
  PROVE  /\ todo'[q] # <<>> => \E s \in Stores : Holding(q, s)'
         /\ purpose'[q] # NoPage /\ todo'[q] = <<>> => storeLock'["craft"] = q /\ pointer'["craft"] # NoBundle
<1>1. ASSUME todo'[q] # <<>> PROVE \E s \in Stores : Holding(q, s)'
  <2>1. PICK s \in Stores : Holding(q, s)
    BY <1>1 DEF TemplatesInv, Writers
  <2>2. PICK c : c # NoBundle /\ Owed(q, s, c) /\ (s = "craft" => Continues(q, c))
    BY <2>1 DEF Holding
  <2>3. storeLock[s] = q /\ storeLock'[s] = q /\ pointer'[s] = pointer[s] /\ records'[s] = records[s]
    BY <2>1 DEF Holding
  <2>4. \A r : Unmade(s, r)' => Unmade(s, r)
    BY DEF Unmade, TemplatesInv, TemplatesTypes
  <2>5. \A b : NewOnFile(s, b) => NewOnFile(s, b)'
    BY <2>3, <2>4 DEF NewOnFile, CheckedBundle
  <2>6. Owed(q, s, c)'
    BY <2>2, <2>3, <2>5 DEF Owed, OnRecord
  <2>7. s = "craft" => Continues(q, c)'
    BY <2>2, <2>3 DEF Continues, OneChange
  <2> QED BY <2>1, <2>2, <2>3, <2>6, <2>7 DEF Holding
<1>2. purpose'[q] # NoPage /\ todo'[q] = <<>> => storeLock'["craft"] = q /\ pointer'["craft"] # NoBundle
    BY DEF TemplatesInv, Installed, Stores
<1> QED BY <1>1, <1>2

\* Writing one file down, whatever is left to write.
LEMMA OneFileWritten ==
  ASSUME TemplatesInv, NEW p \in Pages, WriteFile(p)
  PROVE  /\ TemplatesTypes' /\ UNCHANGED <<purpose, viewed, frozen, saves, deaths>>
         /\ todo[p] # <<>> /\ todo'[p] = Tail(todo[p])
         /\ \A q \in Pages \ {p} : todo'[q] = todo[q] /\ \A s \in Stores : storeLock[s] = q => storeLock'[s] = q
         /\ storeLock' = storeLock \/ (Len(todo[p]) = 1 /\ purpose[p] = NoPage)
<1>1. UNCHANGED <<purpose, viewed, frozen, saves, deaths>> /\ todo[p] # <<>>
    BY DEF WriteFile
<1>2. todo' = [todo EXCEPT ![p] = Tail(@)] /\ todo = [q \in Pages |-> todo[q]]
    BY DEF WriteFile, TemplatesInv, TemplatesTypes
<1>3. todo'[p] = Tail(todo[p]) /\ todo' = [q \in Pages |-> todo'[q]] /\ \A q \in Pages \ {p} : todo'[q] = todo[q]
    BY <1>2
<1>4. storeLock' \in {storeLock, Released(p)} /\ storeLock \in [Stores -> Pages \cup {NoPage}]
    BY DEF WriteFile, TemplatesInv, TemplatesTypes
<1>5. storeLock' \in [Stores -> Pages \cup {NoPage}] /\ \A q \in Pages \ {p} : \A s \in Stores : storeLock[s] = q => storeLock'[s] = q
    BY <1>4 DEF Released
<1>6. pointer' = [s \in Stores |-> pointer'[s]] /\ records' = [s \in Stores |-> records'[s]]
    BY DEF WriteFile, WriteVersion, WritePointer, TemplatesInv, TemplatesTypes
<1>7. storeLock' = storeLock \/ (Len(todo[p]) = 1 /\ purpose[p] = NoPage)
    BY DEF WriteFile
<1>8. TemplatesTypes'
    BY <1>1, <1>3, <1>5, <1>6 DEF TemplatesInv, TemplatesTypes
<1> QED BY <1>1, <1>3, <1>5, <1>7, <1>8

LEMMA VersionWritten ==
  ASSUME TemplatesInv, NEW p \in Pages, NEW s \in Stores, NEW b, WriteFile(p),
         storeLock[s] = p, Head(todo[p]) = VersionFile(s, b), Len(todo[p]) # 1, NewOnFile(s, b)
  PROVE  /\ UNCHANGED <<pointer, storeLock, line>> /\ OnRecord(s, b)'
         /\ DOMAIN records'[s] = DOMAIN records[s] \cup {b.revision}
         /\ NothingUnmade' /\ BundlesOnRecord' /\ RecordsReadable' /\ NoSaveLost'
         /\ \A r \in Stores \ {s} : records'[r] = records[r]
<1>0. UNCHANGED <<purpose, viewed, frozen, saves, storeLock>>
    BY OneFileWritten
<1>1. records' = [records EXCEPT ![s] = With(@, b.revision, b)] /\ UNCHANGED <<pointer, line>>
    BY FileFields DEF WriteFile, WriteVersion, WritePointer
<1>2. records'[s] = With(records[s], b.revision, b) /\ \A r \in Stores \ {s} : records'[r] = records[r]
    BY <1>1 DEF TemplatesInv, TemplatesTypes
<1>3. /\ DOMAIN records'[s] = DOMAIN records[s] \cup {b.revision} /\ records'[s][b.revision] = b
      /\ \A r \in DOMAIN records[s] : records'[s][r] = records[s][r]
    BY <1>2 DEF NewOnFile, With
<1>4. ASSUME NEW t \in Stores, NEW c, OnRecord(t, c) PROVE OnRecord(t, c)'
    BY <1>2, <1>3, <1>4 DEF OnRecord
<1>5. BundlesOnRecord'
  <2>1. ASSUME NEW t \in Stores, pointer'[t] # NoBundle PROVE OnRecord(t, pointer[t])'
    BY <1>1, <1>4, <2>1 DEF TemplatesInv, BundlesOnRecord
  <2>2. ASSUME NEW w \in Previews, frozen'[w] # <<>>, frozen'[w][1] # NoBundle
        PROVE  OnRecord(frozen[w][2], frozen[w][1])'
    <3>1. frozen[w][2] \in Stores /\ OnRecord(frozen[w][2], frozen[w][1])
        BY <1>0, <2>2 DEF TemplatesInv, TemplatesTypes, BundlesOnRecord
    <3> QED BY <1>0, <1>4, <3>1
  <2> QED BY <1>0, <1>1, <2>1, <2>2 DEF BundlesOnRecord
<1>6. RecordsReadable'
    BY <1>2, <1>3 DEF TemplatesInv, RecordsReadable, NewOnFile, CheckedBundle
<1>7. NothingUnmade'
    BY <1>0, <1>2, <1>3 DEF TemplatesInv, NothingUnmade, NewOnFile, Unmade
<1>8. NoSaveLost'
    BY <1>1 DEF TemplatesInv, NoSaveLost, OneChange
<1> QED BY <1>0, <1>1, <1>2, <1>3, <1>5, <1>6, <1>7, <1>8 DEF OnRecord

LEMMA PointerWritten ==
  ASSUME TemplatesInv, NEW p \in Pages, NEW s \in Stores, NEW c, WriteFile(p),
         Head(todo[p]) = CurrentFile(s, c), OnRecord(s, c), c # NoBundle,
         s = "craft" => Continues(p, c)
  PROVE  /\ records' = records /\ pointer'[s] = c
         /\ \A r \in Stores \ {s} : pointer'[r] = pointer[r]
         /\ NothingUnmade' /\ BundlesOnRecord' /\ RecordsReadable' /\ NoSaveLost'
<1>0. UNCHANGED <<purpose, viewed, frozen, saves>>
    BY OneFileWritten
<1>1. /\ pointer' = [pointer EXCEPT ![s] = c] /\ records' = records
      /\ line' = IF s = "craft" THEN <<Replacement(p, c)>> ELSE line
    BY FileFields DEF WriteFile, WriteVersion, WritePointer
<1>2. pointer'[s] = c /\ \A r \in Stores \ {s} : pointer'[r] = pointer[r]
    BY <1>1 DEF TemplatesInv, TemplatesTypes
<1>3. BundlesOnRecord'
  <2>1. ASSUME NEW t \in Stores, pointer'[t] # NoBundle PROVE OnRecord(t, pointer[t])'
    BY <1>1, <1>2, <2>1 DEF TemplatesInv, BundlesOnRecord, OnRecord
  <2>2. ASSUME NEW w \in Previews, frozen'[w] # <<>>, frozen'[w][1] # NoBundle
        PROVE  OnRecord(frozen[w][2], frozen[w][1])'
    BY <1>0, <1>1, <2>2 DEF TemplatesInv, BundlesOnRecord, OnRecord
  <2> QED BY <1>0, <1>1, <2>1, <2>2 DEF BundlesOnRecord
<1>4. RecordsReadable' /\ NothingUnmade'
    BY <1>0, <1>1 DEF TemplatesInv, RecordsReadable, NothingUnmade, Unmade, CheckedBundle
<1>5. NoSaveLost'
  <2>1. CASE s = "craft"
    <3> DEFINE e == Replacement(p, c)
    <3>1. e.before = pointer["craft"] /\ e.new = c
          /\ e.viewed = (IF purpose[p] = NoPage THEN viewed[p] ELSE NoBundle.revision)
        BY DEF Replacement
    <3>2. e.before # NoBundle => e.viewed = e.before.revision /\ OneChange(e.before, e.new)
        BY <2>1, <3>1 DEF Continues
    <3>3. line' = <<e>>
        BY <1>1, <2>1
    <3> HIDE DEF e
    <3>4. DOMAIN line' = {1} /\ line'[1] = e
        BY <3>3
    <3> QED BY <3>2, <3>4 DEF NoSaveLost, OneChange
  <2>2. CASE s # "craft"
    BY <1>1, <2>2 DEF TemplatesInv, NoSaveLost, OneChange
  <2> QED BY <2>1, <2>2
<1> QED BY <1>1, <1>2, <1>3, <1>4, <1>5

LEMMA WriteFileKeeps ==
  ASSUME TemplatesInv, NEW p \in Pages, WriteFile(p)
  PROVE  TemplatesInv'
<1>0. /\ TemplatesTypes' /\ UNCHANGED <<purpose, viewed, frozen, saves, deaths>>
      /\ todo[p] # <<>> /\ todo'[p] = Tail(todo[p])
      /\ \A q \in Pages \ {p} : todo'[q] = todo[q] /\ \A s \in Stores : storeLock[s] = q => storeLock'[s] = q
      /\ storeLock' = storeLock \/ (Len(todo[p]) = 1 /\ purpose[p] = NoPage)
    BY OneFileWritten
<1>1. PICK s \in Stores : Holding(p, s)
    BY <1>0 DEF TemplatesInv, Writers
<1>2. PICK c : c # NoBundle /\ Owed(p, s, c) /\ (s = "craft" => Continues(p, c))
    BY <1>1 DEF Holding
<1>3. storeLock[s] = p /\ (purpose[p] # NoPage => s = "craft")
    BY <1>1 DEF Holding
<1>4. ASSUME \A r \in Stores \ {s} : pointer'[r] = pointer[r] /\ records'[r] = records[r],
             NothingUnmade', BundlesOnRecord', RecordsReadable', NoSaveLost',
             todo'[p] # <<>> => Holding(p, s)',
             purpose'[p] # NoPage /\ todo'[p] = <<>> => storeLock'["craft"] = p /\ pointer'["craft"] # NoBundle
      PROVE  TemplatesInv'
  <2>1. ASSUME NEW q \in Pages \ {p}
        PROVE  /\ todo'[q] # <<>> => \E r \in Stores : Holding(q, r)'
               /\ purpose'[q] # NoPage /\ todo'[q] = <<>> => storeLock'["craft"] = q /\ pointer'["craft"] # NoBundle
    <3>1. \A r \in Stores : storeLock[r] = q =>
             storeLock'[r] = q /\ pointer'[r] = pointer[r] /\ records'[r] = records[r]
        BY <1>0, <1>3, <1>4
    <3>2. saves' \in Nat /\ saves' >= saves
        BY <1>0 DEF TemplatesInv, TemplatesTypes
    <3> QED BY <1>0, <3>1, <3>2, OthersGoOn
  <2>2. Writers' /\ Installed'
    BY <1>4, <2>1 DEF Writers, Installed
  <2> QED BY <1>0, <1>4, <2>2 DEF TemplatesInv
<1>5. CASE todo[p] = <<CurrentFile(s, c)>> /\ OnRecord(s, c)
  <2>1. Head(todo[p]) = CurrentFile(s, c) /\ todo'[p] = <<>> /\ Len(todo[p]) = 1
    BY <1>0, <1>5, ThreeFiles
  <2>2. /\ records' = records /\ pointer'[s] = c
        /\ \A r \in Stores \ {s} : pointer'[r] = pointer[r]
        /\ NothingUnmade' /\ BundlesOnRecord' /\ RecordsReadable' /\ NoSaveLost'
    BY <1>2, <1>5, <2>1, PointerWritten
  <2>3. purpose'[p] # NoPage => storeLock'["craft"] = p /\ pointer'["craft"] # NoBundle
    BY <1>0, <1>2, <1>3, <2>2
  <2> QED BY <1>4, <2>1, <2>2, <2>3
<1>6. ASSUME NEW b, NEW rest, Tail(todo[p]) = rest,
             Head(todo[p]) = VersionFile(s, b), Len(todo[p]) # 1, NewOnFile(s, b), rest # <<>>,
             \/ rest = <<CurrentFile(s, c)>> /\ b = c
             \/ rest = <<VersionFile(s, c), CurrentFile(s, c)>> /\ NewOnFile(s, c) /\ b.revision # c.revision
      PROVE  TemplatesInv'
  <2>1. /\ UNCHANGED <<pointer, storeLock, line>> /\ OnRecord(s, b)'
        /\ DOMAIN records'[s] = DOMAIN records[s] \cup {b.revision}
        /\ NothingUnmade' /\ BundlesOnRecord' /\ RecordsReadable' /\ NoSaveLost'
        /\ \A r \in Stores \ {s} : records'[r] = records[r]
    BY <1>3, <1>6, VersionWritten
  <2>2. todo'[p] = rest
    BY <1>0, <1>6
  <2>3. Owed(p, s, c)'
    <3>1. CASE rest = <<CurrentFile(s, c)>> /\ b = c
        BY <2>1, <2>2, <3>1 DEF Owed, OnRecord, CurrentFile, StoreFile
    <3>2. CASE rest = <<VersionFile(s, c), CurrentFile(s, c)>> /\ NewOnFile(s, c) /\ b.revision # c.revision
      <4>1. NewOnFile(s, c)'
        BY <1>0, <2>1, <3>2 DEF NewOnFile, Unmade, CheckedBundle
      <4> QED BY <2>2, <3>2, <4>1 DEF Owed, CurrentFile, VersionFile, StoreFile
    <3> QED BY <1>6, <3>1, <3>2
  <2>4. s = "craft" => Continues(p, c)'
    BY <1>0, <1>2, <2>1 DEF Continues, OneChange
  <2>5. Holding(p, s)'
    BY <1>0, <1>2, <1>3, <2>1, <2>3, <2>4 DEF Holding
  <2> QED BY <1>4, <1>6, <2>1, <2>2, <2>5
<1>7. CASE todo[p] = <<VersionFile(s, c), CurrentFile(s, c)>> /\ NewOnFile(s, c)
  <2> DEFINE rest == <<CurrentFile(s, c)>>
  <2>1. Tail(todo[p]) = rest /\ Head(todo[p]) = VersionFile(s, c) /\ Len(todo[p]) # 1 /\ rest # <<>>
    BY <1>7, ThreeFiles
  <2> QED BY <1>6, <1>7, <2>1
<1>8. CASE \E b : /\ todo[p] = <<VersionFile(s, b), VersionFile(s, c), CurrentFile(s, c)>>
                  /\ NewOnFile(s, b) /\ NewOnFile(s, c) /\ b.revision # c.revision
  <2> PICK b : /\ todo[p] = <<VersionFile(s, b), VersionFile(s, c), CurrentFile(s, c)>>
               /\ NewOnFile(s, b) /\ NewOnFile(s, c) /\ b.revision # c.revision
    BY <1>8
  <2> DEFINE rest == <<VersionFile(s, c), CurrentFile(s, c)>>
  <2>1. Tail(todo[p]) = rest /\ Head(todo[p]) = VersionFile(s, b) /\ Len(todo[p]) # 1 /\ rest # <<>>
    BY ThreeFiles
  <2> QED BY <1>6, <2>1
<1> QED BY <1>2, <1>5, <1>7, <1>8 DEF Owed

\* The rest of what was decided when a page took a lock is for it to write.
LEMMA Starts ==
  ASSUME TemplatesInv, NEW p \in Pages, NEW s \in Stores, NEW w \in Previews \cup {NoPage}, NEW batch,
         PageIdle(p), TakeLock(p, s), UNCHANGED <<pointer, records, viewed, frozen, line>>,
         saves' \in Nat, saves' >= saves,
         purpose' = [purpose EXCEPT ![p] = w], todo' = [todo EXCEPT ![p] = batch],
         w # NoPage => s = "craft",
         batch # <<>> => \E c : c # NoBundle /\ Owed(p, s, c)' /\ (s = "craft" => Continues(p, c)'),
         batch = <<>> => s = "craft" /\ pointer["craft"] # NoBundle
  PROVE  TemplatesInv'
<1>1. /\ storeLock[s] = NoPage /\ storeLock'[s] = p /\ storeLock' \in [Stores -> Pages \cup {NoPage}]
      /\ \A r \in Stores \ {s} : storeLock'[r] = storeLock[r]
    BY DEF TakeLock, TemplatesInv, TemplatesTypes
<1>2. /\ purpose'[p] = w /\ todo'[p] = batch
      /\ \A q \in Pages \ {p} : purpose'[q] = purpose[q] /\ todo'[q] = todo[q]
      /\ purpose' \in [Pages -> Previews \cup {NoPage}] /\ todo' = [q \in Pages |-> todo'[q]]
    BY DEF TemplatesInv, TemplatesTypes
<1>3. TemplatesTypes'
    BY <1>1, <1>2 DEF TemplatesInv, TemplatesTypes
<1>4. ASSUME NEW q \in Pages \ {p}
      PROVE  /\ todo'[q] # <<>> => \E r \in Stores : Holding(q, r)'
             /\ purpose'[q] # NoPage /\ todo'[q] = <<>> => storeLock'["craft"] = q /\ pointer'["craft"] # NoBundle
  <2>1. \A r \in Stores : storeLock[r] = q => storeLock'[r] = q /\ pointer'[r] = pointer[r] /\ records'[r] = records[r]
    BY <1>1, TemplatesAssumption
  <2> QED BY <1>2, <2>1, OthersGoOn
<1>5. todo'[p] # <<>> => Holding(p, s)'
    BY <1>1, <1>2 DEF Holding
<1>6. purpose'[p] # NoPage /\ todo'[p] = <<>> => storeLock'["craft"] = p /\ pointer'["craft"] # NoBundle
    BY <1>1, <1>2
<1>7. Writers' /\ Installed'
    BY <1>4, <1>5, <1>6 DEF Writers, Installed
<1>8. NothingUnmade'
    BY DEF TemplatesInv, TemplatesTypes, NothingUnmade, Unmade
<1>9. BundlesOnRecord' /\ RecordsReadable' /\ NoSaveLost'
    BY DEF TemplatesInv, BundlesOnRecord, RecordsReadable, NoSaveLost, OnRecord, CheckedBundle, OneChange
<1> QED BY <1>3, <1>7, <1>8, <1>9 DEF TemplatesInv

LEMMA SetCurrentFiles ==
  ASSUME NEW s, NEW b
  PROVE  SetCurrent(s, b) = IF b.revision \in DOMAIN records[s] THEN <<CurrentFile(s, b)>>
                            ELSE <<VersionFile(s, b), CurrentFile(s, b)>>
BY AppendFile DEF SetCurrent, PersistVersion, CurrentFile, VersionFile

LEMMA SetCurrentPends ==
  ASSUME NEW p \in Pages, NEW s \in Stores, NEW c, UNCHANGED records, todo'[p] = SetCurrent(s, c),
         SameVersion(s, c), CheckedBundle(s, c), ~Unmade(s, c.revision)'
  PROVE  Owed(p, s, c)' /\ SetCurrent(s, c) # <<>>
<1>1. CASE c.revision \in DOMAIN records[s]
  <2>1. SetCurrent(s, c) = <<CurrentFile(s, c)>> /\ OnRecord(s, c)
    BY <1>1, SetCurrentFiles DEF SameVersion, OnRecord
  <2> QED BY <2>1, ThreeFiles DEF Owed, OnRecord, CurrentFile, StoreFile
<1>2. CASE c.revision \notin DOMAIN records[s]
  <2>1. SetCurrent(s, c) = <<VersionFile(s, c), CurrentFile(s, c)>>
    BY <1>2, SetCurrentFiles
  <2>2. NewOnFile(s, c)'
    BY <1>2 DEF NewOnFile, CheckedBundle
  <2> QED BY <2>1, <2>2, ThreeFiles DEF Owed, CurrentFile, VersionFile, StoreFile
<1> QED BY <1>1, <1>2

LEMMA SeedKeeps ==
  ASSUME TemplatesInv, NEW p \in Pages, SeedFrom(p)
  PROVE  TemplatesInv'
<1> DEFINE b == BundleOf(<<"published">>, PublishedTexts, <<>>)
<1>0. PICK c : c = b
    OBVIOUS
<1>1. /\ PageIdle(p) /\ TakeLock(p, "legacy") /\ UNCHANGED <<pointer, records, viewed, frozen, line, saves, purpose>>
      /\ todo' = [todo EXCEPT ![p] = SetCurrent("legacy", c)]
      /\ CheckedBundle("legacy", c) /\ SameVersion("legacy", c)
    BY <1>0 DEF SeedFrom
<1>2. c # NoBundle
    BY <1>0, Revisions DEF NoBundle, BundleOf
<1>3. /\ purpose' = [purpose EXCEPT ![p] = NoPage] /\ saves' \in Nat /\ saves' >= saves
      /\ todo'[p] = SetCurrent("legacy", c)
    BY <1>1 DEF PageIdle, TemplatesInv, TemplatesTypes
<1>4. Owed(p, "legacy", c)' /\ SetCurrent("legacy", c) # <<>>
    BY <1>1, <1>3, SetCurrentPends DEF Stores, Unmade
<1>5. PICK batch : batch = SetCurrent("legacy", c)
    OBVIOUS
<1> QED BY <1>1, <1>2, <1>3, <1>4, <1>5, Starts DEF Stores

LEMMA InstallKeeps ==
  ASSUME TemplatesInv, NEW p \in Pages, NEW w \in Previews, InstallDefaults(p, w)
  PROVE  TemplatesInv'
<1>0. PICK c : c = CraftCurrent
    OBVIOUS
<1>1. PICK batch : batch = IF pointer["craft"] = NoBundle THEN SetCurrent("craft", c) ELSE <<>>
    OBVIOUS
<1>2. /\ PageIdle(p) /\ TakeLock(p, "craft") /\ SameVersion("craft", c)
      /\ UNCHANGED <<pointer, records, viewed, frozen, saves, line>>
      /\ purpose' = [purpose EXCEPT ![p] = w] /\ todo' = [todo EXCEPT ![p] = batch]
    BY <1>0, <1>1 DEF InstallDefaults
<1>3. CheckedBundle("craft", c) /\ c # NoBundle /\ ~Unmade("craft", c.revision)
    BY <1>0, CraftFacts
<1>4. saves' \in Nat /\ saves' >= saves /\ todo'[p] = batch
    BY <1>2 DEF TemplatesInv, TemplatesTypes
<1>5. ASSUME pointer["craft"] = NoBundle
      PROVE  Owed(p, "craft", c)' /\ batch # <<>> /\ Continues(p, c)'
  <2>1. batch = SetCurrent("craft", c) /\ ~Unmade("craft", c.revision)'
    BY <1>1, <1>2, <1>3, <1>5 DEF Unmade
  <2> QED BY <1>2, <1>3, <1>4, <1>5, <2>1, SetCurrentPends DEF Stores, Continues
<1>6. batch = <<>> => pointer["craft"] # NoBundle
    BY <1>5
<1>7. batch # <<>> => pointer["craft"] = NoBundle
    BY <1>1
<1> QED BY <1>2, <1>3, <1>4, <1>5, <1>6, <1>7, Starts DEF Stores

LEMMA TemplateSaved ==
  ASSUME TemplatesInv, NEW p \in Pages, NEW v \in Variants, SaveTemplate(p, v)
  PROVE  TemplatesInv'
<1>0. PICK b : b = CraftCurrent
    OBVIOUS
<1>1. PICK text \in {Builtin} \cup OwnTexts[v] \cup TextsOnRecord(v), change \in SettingsChanges(v) :
        /\ text = Builtin \/ ValidText("craft", v, text)
        /\ todo' = [todo EXCEPT ![p] = ParentOf(b) \o SetCurrent("craft", SavedBundle(b, v, text, change))]
        /\ saves' = saves + 1
    BY <1>0 DEF SaveTemplate
<1>2. PICK c : c = SavedBundle(b, v, text, change)
    OBVIOUS
<1>3. PICK batch : batch = ParentOf(b) \o SetCurrent("craft", c)
    OBVIOUS
<1>4. /\ PageIdle(p) /\ TakeLock(p, "craft") /\ viewed[p] = b.revision
      /\ UNCHANGED <<pointer, records, purpose, viewed, frozen, line>>
      /\ todo' = [todo EXCEPT ![p] = batch]
    BY <1>0, <1>1, <1>2, <1>3 DEF SaveTemplate, Expected
<1>5. /\ CheckedBundle("craft", b) /\ ~Unmade("craft", b.revision)
      /\ pointer["craft"] # NoBundle => b = pointer["craft"]
    BY <1>0, CraftFacts
<1>6. /\ purpose' = [purpose EXCEPT ![p] = NoPage] /\ purpose'[p] = NoPage /\ saves \in Nat
      /\ saves' \in Nat /\ saves' >= saves /\ todo'[p] = batch
    BY <1>1, <1>4 DEF PageIdle, TemplatesInv, TemplatesTypes
<1>7. c.revision = <<"saved", saves + 1>> /\ c.templates \in {Without(b.templates, v), With(b.templates, v, text)}
      /\ (c.templates = Without(b.templates, v) \/ ValidText("craft", v, text))
    BY <1>1, <1>2 DEF SavedBundle, BundleOf, NewRevision
<1>8. Unmade("craft", c.revision) /\ ~Unmade("craft", c.revision)' /\ c # NoBundle
  <2>1. c.revision # <<"none">>
    BY <1>7, Revisions
  <2> QED BY <1>1, <1>6, <1>7, <2>1, Revisions DEF Unmade, NoBundle
<1>9. c.revision \notin DOMAIN records["craft"] /\ b.revision # c.revision
    BY <1>5, <1>8 DEF TemplatesInv, NothingUnmade, Stores
<1>10. CheckedBundle("craft", c)
  <2>1. CASE c.templates = Without(b.templates, v)
    BY <1>5, <2>1 DEF CheckedBundle, Without, Restrict
  <2>2. CASE c.templates = With(b.templates, v, text) /\ ValidText("craft", v, text)
    BY <1>5, <2>2 DEF CheckedBundle, With
  <2> QED BY <1>7, <2>1, <2>2
<1>11. SetCurrent("craft", c) = <<VersionFile("craft", c), CurrentFile("craft", c)>>
    BY <1>9, SetCurrentFiles
<1>12. NewOnFile("craft", c)'
    BY <1>4, <1>8, <1>9, <1>10 DEF NewOnFile, CheckedBundle
<1>13. Owed(p, "craft", c)' /\ batch # <<>>
  <2>1. CASE b.revision \in DOMAIN records["craft"]
    <3>1. ParentOf(b) = <<>>
        BY <2>1 DEF ParentOf, PersistVersion
    <3>2. batch = <<VersionFile("craft", c), CurrentFile("craft", c)>>
        BY <1>3, <1>11, <3>1, JoinFiles
    <3> QED BY <1>6, <1>12, <3>2, ThreeFiles DEF Owed, CurrentFile, VersionFile, StoreFile
  <2>2. CASE b.revision \notin DOMAIN records["craft"]
    <3>1. ParentOf(b) = <<VersionFile("craft", b)>>
        BY <2>2 DEF ParentOf, PersistVersion, VersionFile
    <3>2. batch = <<VersionFile("craft", b), VersionFile("craft", c), CurrentFile("craft", c)>>
        BY <1>3, <1>11, <3>1, JoinFiles
    <3>3. NewOnFile("craft", b)'
        BY <1>4, <1>5, <1>6, <2>2 DEF NewOnFile, CheckedBundle, Unmade
    <3> QED BY <1>6, <1>9, <1>12, <3>2, <3>3, ThreeFiles DEF Owed, CurrentFile, VersionFile, StoreFile
  <2> QED BY <2>1, <2>2
<1>14. Continues(p, c)'
  <2>1. OneChange(b, c)
    BY <1>2, SavedContinues
  <2> QED BY <1>4, <1>5, <1>6, <2>1 DEF Continues, OneChange
<1> QED BY <1>4, <1>6, <1>8, <1>13, <1>14, Starts DEF Stores

\* A page that only reads, and a preview that is done or dies.
LEMMA PageKeeps ==
  ASSUME TemplatesInv, NEW p \in Pages, UNCHANGED <<pointer, records, saves, line>>,
         storeLock' \in {storeLock, Released(p)}, purpose'[p] = NoPage, todo'[p] = <<>>,
         \A q \in Pages \ {p} : todo'[q] = todo[q] /\ purpose'[q] = purpose[q] /\ viewed'[q] = viewed[q],
         todo' = [q \in Pages |-> todo'[q]], viewed' = [q \in Pages |-> viewed'[q]],
         purpose' = [q \in Pages |-> purpose'[q]],
         frozen' = [w \in Previews |-> frozen'[w]],
         \A w \in Previews : frozen'[w] # frozen[w] =>
            frozen'[w][2] \in Stores /\ (frozen'[w][1] # NoBundle => OnRecord(frozen'[w][2], frozen'[w][1]))
  PROVE  TemplatesInv'
<1>1. storeLock' \in [Stores -> Pages \cup {NoPage}] /\ \A q \in Pages \ {p} : \A s \in Stores : storeLock[s] = q => storeLock'[s] = q
    BY DEF Released, TemplatesInv, TemplatesTypes
<1>2. TemplatesTypes'
    BY <1>1 DEF TemplatesInv, TemplatesTypes
<1>3. ASSUME NEW q \in Pages \ {p}
      PROVE  /\ todo'[q] # <<>> => \E r \in Stores : Holding(q, r)'
             /\ purpose'[q] # NoPage /\ todo'[q] = <<>> => storeLock'["craft"] = q /\ pointer'["craft"] # NoBundle
  <2>1. \A r \in Stores : storeLock[r] = q => storeLock'[r] = q /\ pointer'[r] = pointer[r] /\ records'[r] = records[r]
    BY <1>1
  <2>2. saves' \in Nat /\ saves' >= saves
    BY DEF TemplatesInv, TemplatesTypes
  <2> QED BY <2>1, <2>2, OthersGoOn
<1>4. Writers' /\ Installed'
    BY <1>3 DEF Writers, Installed
<1>5. BundlesOnRecord'
    BY DEF TemplatesInv, BundlesOnRecord, OnRecord
<1>6. NothingUnmade' /\ RecordsReadable' /\ NoSaveLost'
    BY DEF TemplatesInv, NothingUnmade, Unmade, RecordsReadable, CheckedBundle, NoSaveLost, OneChange
<1> QED BY <1>2, <1>4, <1>5, <1>6 DEF TemplatesInv

LEMMA PageLoads ==
  ASSUME TemplatesInv, NEW p \in Pages, LoadPage(p)
  PROVE  TemplatesInv'
BY PageKeeps DEF LoadPage, PageIdle, TemplatesInv, TemplatesTypes

LEMMA DeathKeeps ==
  ASSUME TemplatesInv, NEW p \in Pages, ProcessDies(p)
  PROVE  TemplatesInv'
BY PageKeeps DEF ProcessDies, TemplatesInv, TemplatesTypes

LEMMA FreezeKeeps ==
  ASSUME TemplatesInv, NEW p \in Pages, FreezeDefaults(p)
  PROVE  TemplatesInv'
<1> DEFINE w == purpose[p]
<1>1. w \in Previews /\ todo[p] = <<>> /\ pointer["craft"] # NoBundle
    BY DEF FreezeDefaults, TemplatesInv, TemplatesTypes, Installed
<1>2. CraftCurrent = pointer["craft"] /\ OnRecord("craft", CraftCurrent)
    BY <1>1 DEF CraftCurrent, TemplatesInv, BundlesOnRecord, Stores
<1> DEFINE f == <<Content(CraftCurrent), "craft">>
<1>3. f[2] \in Stores /\ (f[1] # NoBundle => OnRecord(f[2], f[1]))
    BY <1>2 DEF Content, Stores
<1>4. frozen' = [frozen EXCEPT ![w] = f] /\ UNCHANGED <<pointer, records, todo, viewed, saves, line>>
      /\ purpose' = [purpose EXCEPT ![p] = NoPage] /\ storeLock' = Released(p)
    BY DEF FreezeDefaults
<1> HIDE DEF f, w
<1>5. /\ frozen' = [u \in Previews |-> frozen'[u]] /\ frozen'[w] = f
      /\ \A u \in Previews \ {w} : frozen'[u] = frozen[u]
    BY <1>1, <1>4 DEF TemplatesInv, TemplatesTypes
<1>6. purpose'[p] = NoPage /\ purpose' = [q \in Pages |-> purpose'[q]] /\ \A q \in Pages \ {p} : purpose'[q] = purpose[q]
    BY <1>4 DEF TemplatesInv, TemplatesTypes
<1> QED BY <1>1, <1>3, <1>4, <1>5, <1>6, PageKeeps DEF TemplatesInv, TemplatesTypes

LEMMA FreezeLegacyKeeps ==
  ASSUME TemplatesInv, NEW p \in Pages, NEW w \in Previews, FreezeLegacy(p, w)
  PROVE  TemplatesInv'
<1> DEFINE f == <<Content(LegacyCurrent), "legacy">>
<1>1. PageIdle(p) /\ frozen' = [frozen EXCEPT ![w] = f]
      /\ UNCHANGED <<pointer, records, storeLock, todo, purpose, viewed, saves, line>>
    BY DEF FreezeLegacy
<1>2. f[2] \in Stores /\ (f[1] # NoBundle => OnRecord(f[2], f[1]))
  <2>1. CASE pointer["legacy"] = NoBundle
    <3>1. Content(LegacyCurrent) = NoBundle
        BY <2>1 DEF LegacyCurrent, BundleOf, Content
    <3> QED BY <3>1 DEF Stores
  <2>2. CASE pointer["legacy"] # NoBundle
    BY <2>2 DEF LegacyCurrent, Content, TemplatesInv, BundlesOnRecord, Stores
  <2> QED BY <2>1, <2>2
<1> HIDE DEF f
<1>3. /\ frozen' = [u \in Previews |-> frozen'[u]] /\ frozen'[w] = f
      /\ \A u \in Previews \ {w} : frozen'[u] = frozen[u]
    BY <1>1 DEF TemplatesInv, TemplatesTypes
<1> QED BY <1>1, <1>2, <1>3, PageKeeps DEF PageIdle, TemplatesInv, TemplatesTypes

LEMMA TemplatesStep == TemplatesInv /\ [NextTemplates]_templatesVars => TemplatesInv'
<1> SUFFICES ASSUME TemplatesInv, [NextTemplates]_templatesVars PROVE TemplatesInv'
    OBVIOUS
<1>1. CASE UNCHANGED templatesVars
  <2>0. TemplatesTypes'
    BY <1>1 DEF TemplatesInv, TemplatesTypes, templatesVars
  <2>1. Writers' /\ Installed'
    <3>1. ASSUME NEW q \in Pages
          PROVE  /\ todo'[q] # <<>> => \E s \in Stores : Holding(q, s)'
                 /\ purpose'[q] # NoPage /\ todo'[q] = <<>> => storeLock'["craft"] = q /\ pointer'["craft"] # NoBundle
        BY <1>1, OthersGoOn DEF templatesVars, TemplatesInv, TemplatesTypes
    <3> QED BY <3>1 DEF Writers, Installed
  <2>2. NothingUnmade' /\ BundlesOnRecord' /\ RecordsReadable' /\ NoSaveLost'
    BY <1>1 DEF TemplatesInv, NothingUnmade, Unmade, BundlesOnRecord, OnRecord, RecordsReadable,
       CheckedBundle, NoSaveLost, OneChange, templatesVars
  <2> QED BY <2>0, <2>1, <2>2 DEF TemplatesInv
<1>2. CASE NextTemplates
    BY <1>2, WriteFileKeeps, SeedKeeps, PageLoads, FreezeKeeps, DeathKeeps, TemplateSaved,
       InstallKeeps, FreezeLegacyKeeps DEF NextTemplates
<1> QED BY <1>1, <1>2

(* Whatever is current or frozen is on record and can be read again, and   *)
(* no save is lost, with any number of pages, previews, texts and deaths.  *)
THEOREM TemplatesSound == SpecTemplates => []TemplatesAreSound
<1>1. TemplatesInv => TemplatesAreSound
    BY DEF TemplatesInv, TemplatesAreSound
<1> QED BY <1>1, TemplatesStart, TemplatesStep, PTL DEF SpecTemplates

-----------------------------------------------------------------------------
(* A paid request, for bodies of any length.  How a stream is read is a    *)
(* fold, so what holds of a reading is shown by induction on its events.   *)

\* Induction over the natural numbers, over a set.
LEMMA AllNaturals ==
  ASSUME NEW T, 0 \in T, \A k \in Nat : k \in T => k + 1 \in T
  PROVE  Nat \subseteq T
<1> SUFFICES ASSUME NEW n \in Nat, n \notin T PROVE FALSE
    OBVIOUS
<1> DEFINE S == {k \in Nat : k \notin T}
<1>1. PICK x \in S : \A y \in S : <<y, x>> \notin OpToRel(<, Nat)
    BY NatLessThanWellFounded, WFMin
<1>2. \A y \in S : ~(y < x)
    BY <1>1 DEF OpToRel
<1>3. x # 0 /\ x - 1 \in Nat /\ x - 1 < x
    OBVIOUS
<1>4. x - 1 \in T
    BY <1>2, <1>3
<1> QED BY <1>3, <1>4

Greatest(s) == CHOOSE x \in s : \A y \in s : x >= y

LEMMA GreatestOf ==
  ASSUME NEW n \in Nat, NEW s \in SUBSET (1 .. n), n \in s
  PROVE  Greatest(s) = n
<1>1. \A y \in s : n >= y
    OBVIOUS
<1>2. Greatest(s) \in s /\ \A y \in s : Greatest(s) >= y
    BY <1>1 DEF Greatest
<1>3. Greatest(s) \in 1 .. n /\ Greatest(s) >= n
    BY <1>2
<1> QED BY <1>3

-----------------------------------------------------------------------------
(* Reading a stream is a fold: the empty stream gives the start, and one   *)
(* more event one more step.                                               *)

StreamBody(adapter, events, f, s) ==
  IF s = {} THEN Reading ELSE ReadEvent(adapter, f[s \ {Greatest(s)}], events[Greatest(s)])

Streams(adapter, events, f, n) == f = [s \in SUBSET (1 .. n) |-> StreamBody(adapter, events, f, s)]

LEMMA StreamDef ==
  ASSUME NEW adapter, NEW events
  PROVE  ReadStream(adapter, events)
           = (CHOOSE f : f = [s \in SUBSET (DOMAIN events) |-> StreamBody(adapter, events, f, s)])[DOMAIN events]
BY DEF ReadStream, FoldLeft, MapThenFoldSet, StreamBody, Greatest, Max

LEMMA StreamsExist ==
  ASSUME NEW adapter, NEW events, NEW n \in Nat
  PROVE  \E f : Streams(adapter, events, f, n)
<1> DEFINE T == {k \in Nat : \E f : Streams(adapter, events, f, k)}
<1>1. 0 \in T
  <2> DEFINE f == [s \in SUBSET (1 .. 0) |-> Reading]
  <2>1. \A s \in SUBSET (1 .. 0) : s = {}
    OBVIOUS
  <2>2. f = [s \in SUBSET (1 .. 0) |-> StreamBody(adapter, events, f, s)]
    BY <2>1 DEF StreamBody
  <2>3. Streams(adapter, events, f, 0)
    BY <2>2 DEF Streams
  <2> QED BY <2>3
<1>2. ASSUME NEW k \in Nat, k \in T PROVE k + 1 \in T
  <2>1. PICK f : Streams(adapter, events, f, k)
    BY <1>2
  <2> DEFINE g == [s \in SUBSET (1 .. k + 1) |->
                     IF k + 1 \in s THEN ReadEvent(adapter, f[s \ {k + 1}], events[k + 1]) ELSE f[s]]
  <2>2. ASSUME NEW s \in SUBSET (1 .. k + 1) PROVE g[s] = StreamBody(adapter, events, g, s)
    <3>1. CASE k + 1 \in s
      <4>1. Greatest(s) = k + 1 /\ s # {}
        BY <3>1, GreatestOf
      <4>2. s \ {k + 1} \in SUBSET (1 .. k) /\ s \ {k + 1} \in SUBSET (1 .. k + 1) /\ k + 1 \notin s \ {k + 1}
        OBVIOUS
      <4>3. g[s \ {k + 1}] = f[s \ {k + 1}]
        BY <4>2
      <4>4. g[s] = ReadEvent(adapter, f[s \ {k + 1}], events[k + 1])
        BY <3>1
      <4> HIDE DEF g
      <4> QED BY <4>1, <4>3, <4>4 DEF StreamBody
    <3>2. CASE k + 1 \notin s
      <4>1. s \in SUBSET (1 .. k)
        BY <3>2
      <4>2. g[s] = f[s] /\ f[s] = StreamBody(adapter, events, f, s)
        BY <2>1, <3>2, <4>1 DEF Streams
      <4>3. CASE s = {}
        BY <4>2, <4>3 DEF StreamBody
      <4>4. CASE s # {}
        <5>1. s \ {Greatest(s)} \in SUBSET (1 .. k + 1) /\ k + 1 \notin s \ {Greatest(s)}
            BY <3>2
        <5>2. g[s \ {Greatest(s)}] = f[s \ {Greatest(s)}]
            BY <5>1
        <5> HIDE DEF g
        <5> QED BY <4>2, <4>4, <5>2 DEF StreamBody
      <4> QED BY <4>3, <4>4
    <3> QED BY <3>1, <3>2
  <2>3. g = [s \in SUBSET (1 .. k + 1) |-> g[s]]
    OBVIOUS
  <2> HIDE DEF g
  <2>4. g = [s \in SUBSET (1 .. k + 1) |-> StreamBody(adapter, events, g, s)]
    BY <2>2, <2>3
  <2> QED BY <2>4 DEF Streams
<1> HIDE DEF T
<1>3. Nat \subseteq T
    BY <1>1, <1>2, AllNaturals
<1> QED BY <1>3 DEF T

LEMMA StreamIs ==
  ASSUME NEW adapter, NEW n \in Nat, NEW events, DOMAIN events = 1 .. n
  PROVE  \E f : Streams(adapter, events, f, n) /\ ReadStream(adapter, events) = f[1 .. n]
<1> DEFINE f == CHOOSE f : f = [s \in SUBSET (DOMAIN events) |-> StreamBody(adapter, events, f, s)]
<1>1. PICK h : Streams(adapter, events, h, n)
    BY StreamsExist
<1>2. h = [s \in SUBSET (DOMAIN events) |-> StreamBody(adapter, events, h, s)]
    BY <1>1 DEF Streams
<1>3. \E g : g = [s \in SUBSET (DOMAIN events) |-> StreamBody(adapter, events, g, s)]
    BY <1>2
<1>4. f = [s \in SUBSET (DOMAIN events) |-> StreamBody(adapter, events, f, s)]
    BY <1>3
<1>5. ReadStream(adapter, events) = f[1 .. n]
    BY StreamDef
<1> HIDE DEF f
<1> QED BY <1>4, <1>5 DEF Streams

LEMMA StreamStep ==
  ASSUME NEW adapter, NEW events, NEW f, NEW n \in Nat, Streams(adapter, events, f, n)
  PROVE  /\ f[1 .. 0] = Reading
         /\ \A k \in 0 .. n - 1 : f[1 .. k + 1] = ReadEvent(adapter, f[1 .. k], events[k + 1])
<1>1. \A s \in SUBSET (1 .. n) : f[s] = StreamBody(adapter, events, f, s)
    BY DEF Streams
<1>2. f[1 .. 0] = Reading
    BY <1>1 DEF StreamBody
<1>3. ASSUME NEW k \in 0 .. n - 1 PROVE f[1 .. k + 1] = ReadEvent(adapter, f[1 .. k], events[k + 1])
  <2>1. 1 .. k + 1 \in SUBSET (1 .. n) /\ (1 .. k + 1) \ {k + 1} = 1 .. k /\ 1 .. k + 1 # {} /\ k + 1 \in Nat
    OBVIOUS
  <2>2. Greatest(1 .. k + 1) = k + 1
    BY <2>1, GreatestOf
  <2> QED BY <1>1, <2>1, <2>2 DEF StreamBody
<1> QED BY <1>2, <1>3

LEMMA EmptyStream ==
  ASSUME NEW adapter
  PROVE  ReadStream(adapter, <<>>) = Reading
<1>1. DOMAIN <<>> = 1 .. 0
    OBVIOUS
<1>2. PICK f : Streams(adapter, <<>>, f, 0) /\ ReadStream(adapter, <<>>) = f[1 .. 0]
    BY <1>1, StreamIs
<1> QED BY <1>2, StreamStep

LEMMA LongerStream ==
  ASSUME NEW adapter, NEW E, NEW events \in Seq(E), NEW e \in E
  PROVE  ReadStream(adapter, Append(events, e)) = ReadEvent(adapter, ReadStream(adapter, events), e)
<1> DEFINE n == Len(events)
           longer == Append(events, e)
<1>1. n \in Nat /\ DOMAIN events = 1 .. n /\ DOMAIN longer = 1 .. n + 1 /\ longer[n + 1] = e
      /\ \A k \in 1 .. n : longer[k] = events[k]
    OBVIOUS
<1> HIDE DEF n, longer
<1>2. PICK f : Streams(adapter, events, f, n) /\ ReadStream(adapter, events) = f[1 .. n]
  <2>1. n \in Nat /\ DOMAIN events = 1 .. n
    BY <1>1
  <2> QED BY <2>1, StreamIs
<1>3. PICK g : Streams(adapter, longer, g, n + 1) /\ ReadStream(adapter, longer) = g[1 .. n + 1]
  <2>1. n + 1 \in Nat
    BY <1>1
  <2> QED BY <1>1, <2>1, StreamIs
<1> DEFINE T == {k \in Nat : k <= n => f[1 .. k] = g[1 .. k]}
<1>4. 0 \in T
    BY <1>1, <1>2, <1>3, StreamStep
<1>5. ASSUME NEW k \in Nat, k \in T PROVE k + 1 \in T
  <2> SUFFICES ASSUME k + 1 <= n PROVE f[1 .. k + 1] = g[1 .. k + 1]
    OBVIOUS
  <2>1. f[1 .. k] = g[1 .. k] /\ k \in 0 .. n - 1 /\ k \in 0 .. (n + 1) - 1 /\ longer[k + 1] = events[k + 1]
    BY <1>1, <1>5
  <2>2. f[1 .. k + 1] = ReadEvent(adapter, f[1 .. k], events[k + 1])
    BY <1>1, <1>2, <2>1, StreamStep
  <2>3. g[1 .. k + 1] = ReadEvent(adapter, g[1 .. k], longer[k + 1])
    BY <1>1, <1>3, <2>1, StreamStep
  <2> QED BY <2>1, <2>2, <2>3
<1> HIDE DEF T
<1>6. n \in T
    BY <1>1, <1>4, <1>5, AllNaturals
<1>7. f[1 .. n] = g[1 .. n]
    BY <1>1, <1>6 DEF T
<1>8. g[1 .. n + 1] = ReadEvent(adapter, g[1 .. n], e)
  <2>1. n \in 0 .. (n + 1) - 1 /\ n + 1 \in Nat
    BY <1>1
  <2>2. g[1 .. n + 1] = ReadEvent(adapter, g[1 .. n], longer[n + 1])
    BY <1>3, <2>1, StreamStep
  <2> QED BY <1>1, <2>2
<1> QED BY <1>2, <1>3, <1>7, <1>8 DEF longer

-----------------------------------------------------------------------------
(* What a reading of a stream says of the events it was made from.         *)

Pieces == ChatEvents \cup ResponsesEvents \cup {"part"}
Errors == {"none", "provider_refusal", "provider_terminal_failure", "response_schema_invalid",
           "token_limit_exceeded"}
Readings == [text : Nat, finish : {"none"} \cup Finishes \cup Successes \cup BadEnds,
             usage : BOOLEAN, done : BOOLEAN, error : Errors]

Places(events, e) == {i \in DOMAIN events : events[i] = e}
HasEvent(events, e)  == \E i \in DOMAIN events : events[i] = e

ReadingTrue(adapter, events, r) ==
    /\ r \in Readings
    /\ r.error = "none" => r.text = Cardinality(Places(events, "delta"))
    /\ r.finish # "none" => HasEvent(events, r.finish)
    /\ r.done => HasEvent(events, "done")
    /\ adapter = "responses" => r.finish \notin Finishes
    /\ adapter # "responses" => r.finish \in {"none"} \cup Finishes
    /\ r.finish \in BadEnds => r.error # "none"

LEMMA PlacesOfOneMore ==
  ASSUME NEW E, NEW events \in Seq(E), NEW e \in E, NEW x
  PROVE  /\ IsFiniteSet(Places(events, x))
         /\ Cardinality(Places(events, x)) \in Nat
         /\ Cardinality(Places(Append(events, e), x))
              = Cardinality(Places(events, x)) + IF e = x THEN 1 ELSE 0
         /\ HasEvent(Append(events, e), e)
         /\ HasEvent(events, x) => HasEvent(Append(events, e), x)
<1> DEFINE n == Len(events)
           longer == Append(events, e)
<1>1. n \in Nat /\ DOMAIN events = 1 .. n /\ DOMAIN longer = 1 .. n + 1 /\ longer[n + 1] = e
      /\ \A k \in 1 .. n : longer[k] = events[k]
    OBVIOUS
<1> HIDE DEF n, longer
<1>2. IsFiniteSet(1 .. n)
  <2>1. n \in Int /\ 1 \in Int
    BY <1>1
  <2> QED BY <2>1, FS_Interval
<1>3. Places(events, x) \subseteq 1 .. n
    BY <1>1 DEF Places
<1>4. IsFiniteSet(Places(events, x))
    BY <1>2, <1>3, FS_Subset
<1>5. Cardinality(Places(events, x)) \in Nat
    BY <1>4, FS_CardinalityType
<1>6. n + 1 \notin Places(events, x)
    BY <1>1, <1>3
<1>7. Cardinality(Places(longer, x)) = Cardinality(Places(events, x)) + IF e = x THEN 1 ELSE 0
  <2>1. CASE e = x
    <3>1. Places(longer, x) = Places(events, x) \cup {n + 1}
        BY <1>1, <2>1 DEF Places
    <3> QED BY <1>4, <1>5, <1>6, <2>1, <3>1, FS_AddElement
  <2>2. CASE e # x
    <3>1. Places(longer, x) = Places(events, x)
        BY <1>1, <2>2 DEF Places
    <3> QED BY <1>5, <2>2, <3>1
  <2> QED BY <2>1, <2>2
<1>8. HasEvent(longer, e)
  <2>1. n + 1 \in DOMAIN longer
    BY <1>1
  <2> QED BY <1>1, <2>1 DEF HasEvent
<1>9. HasEvent(events, x) => HasEvent(longer, x)
  <2> SUFFICES ASSUME NEW i \in 1 .. n, events[i] = x PROVE HasEvent(longer, x)
    BY <1>1 DEF HasEvent
  <2>1. i \in DOMAIN longer /\ longer[i] = x
    BY <1>1
  <2> QED BY <2>1 DEF HasEvent
<1> QED BY <1>4, <1>5, <1>7, <1>8, <1>9 DEF longer

LEMMA EmptyReading ==
  ASSUME NEW adapter
  PROVE  ReadingTrue(adapter, <<>>, Reading)
<1>1. Places(<<>>, "delta") = {}
    BY DEF Places
<1>2. Cardinality({}) = 0
    BY FS_EmptySet
<1> QED BY <1>1, <1>2 DEF ReadingTrue, Reading, Readings, Errors, Finishes, BadEnds, Successes

LEMMA OneMoreRead ==
  ASSUME NEW adapter, NEW events \in Seq(Pieces), NEW e \in Pieces, NEW r,
         ReadingTrue(adapter, events, r)
  PROVE  ReadingTrue(adapter, Append(events, e), ReadEvent(adapter, r, e))
<1> DEFINE longer == Append(events, e)
           s == ReadEvent(adapter, r, e)
<1> SUFFICES ReadingTrue(adapter, longer, s)
    OBVIOUS
<1>1. /\ Cardinality(Places(events, "delta")) \in Nat
      /\ Cardinality(Places(longer, "delta"))
           = Cardinality(Places(events, "delta")) + IF e = "delta" THEN 1 ELSE 0
      /\ HasEvent(longer, e)
      /\ \A x : HasEvent(events, x) => HasEvent(longer, x)
    BY PlacesOfOneMore
<1> HIDE DEF longer
<1>6. e # "delta" => Cardinality(Places(longer, "delta")) = Cardinality(Places(events, "delta"))
    BY <1>1
<1>7. e = "delta" => Cardinality(Places(longer, "delta")) = Cardinality(Places(events, "delta")) + 1
    BY <1>1
<1>2. /\ r \in Readings
      /\ r.error = "none" => r.text = Cardinality(Places(events, "delta"))
      /\ r.finish # "none" => HasEvent(longer, r.finish)
      /\ r.done => HasEvent(longer, "done")
      /\ adapter = "responses" => r.finish \notin Finishes
      /\ adapter # "responses" => r.finish \in {"none"} \cup Finishes
      /\ r.finish \in BadEnds => r.error # "none"
    BY <1>1 DEF ReadingTrue
<1>3. CASE r.error # "none"
  <2>1. s = r
    BY <1>3 DEF ReadEvent, ReadChat, ReadResponses
  <2> HIDE DEF s
  <2> QED BY <1>2, <1>3, <2>1 DEF ReadingTrue
<1>4. CASE r.error = "none" /\ adapter # "responses"
  <2>1. s = ReadChat(r, e)
    BY <1>4 DEF ReadEvent
  <2> HIDE DEF s
  <2>2. CASE e = "delta"
    <3>1. s = [r EXCEPT !.text = @ + 1]
      BY <1>4, <2>1, <2>2 DEF ReadChat, Finishes, Successes, BadEnds
    <3>2. s.text = r.text + 1 /\ s.finish = r.finish /\ s.done = r.done /\ s.error = r.error
      BY <1>2, <3>1 DEF Readings
    <3> DEFINE more == r.text + 1
    <3>a. more \in Nat /\ s = [r EXCEPT !.text = more]
      BY <1>2, <3>1 DEF Readings
    <3> HIDE DEF more
    <3>3. s \in Readings
      BY <1>2, <2>2, <3>a DEF Readings, Finishes, BadEnds, Successes, Errors
    <3>4. s.finish # "none" => HasEvent(longer, s.finish)
      BY <1>1, <1>2, <2>2, <3>2
    <3>5. s.done => HasEvent(longer, "done")
      BY <1>1, <1>2, <2>2, <3>2
    <3>6. s.error = "none" => s.text = Cardinality(Places(longer, "delta"))
      BY <1>6, <1>7, <1>2, <1>4, <2>2, <3>2 DEF Finishes, Successes, BadEnds
    <3> QED BY <1>2, <1>4, <2>2, <3>2, <3>3, <3>4, <3>5, <3>6 DEF ReadingTrue, Finishes, BadEnds, Successes
  <2>3. CASE e \in Finishes
    <3>1. s = [r EXCEPT !.finish = e]
      BY <1>4, <2>1, <2>3 DEF ReadChat, Finishes, Successes, BadEnds
    <3>2. s.text = r.text /\ s.finish = e /\ s.done = r.done /\ s.error = r.error
      BY <1>2, <3>1 DEF Readings
    <3>3. s \in Readings
      BY <1>2, <2>3, <3>1 DEF Readings, Finishes, BadEnds, Successes, Errors
    <3>4. s.finish # "none" => HasEvent(longer, s.finish)
      BY <1>1, <1>2, <2>3, <3>2
    <3>5. s.done => HasEvent(longer, "done")
      BY <1>1, <1>2, <2>3, <3>2
    <3>6. s.error = "none" => s.text = Cardinality(Places(longer, "delta"))
      BY <1>6, <1>7, <1>2, <1>4, <2>3, <3>2 DEF Finishes, Successes, BadEnds
    <3> QED BY <1>2, <1>4, <2>3, <3>2, <3>3, <3>4, <3>5, <3>6 DEF ReadingTrue, Finishes, BadEnds, Successes
  <2>4. CASE e = "usage"
    <3>1. s = [r EXCEPT !.usage = TRUE]
      BY <1>4, <2>1, <2>4 DEF ReadChat, Finishes, Successes, BadEnds
    <3>2. s.text = r.text /\ s.finish = r.finish /\ s.done = r.done /\ s.error = r.error
      BY <1>2, <3>1 DEF Readings
    <3>3. s \in Readings
      BY <1>2, <2>4, <3>1 DEF Readings, Finishes, BadEnds, Successes, Errors
    <3>4. s.finish # "none" => HasEvent(longer, s.finish)
      BY <1>1, <1>2, <2>4, <3>2
    <3>5. s.done => HasEvent(longer, "done")
      BY <1>1, <1>2, <2>4, <3>2
    <3>6. s.error = "none" => s.text = Cardinality(Places(longer, "delta"))
      BY <1>6, <1>7, <1>2, <1>4, <2>4, <3>2 DEF Finishes, Successes, BadEnds
    <3> QED BY <1>2, <1>4, <2>4, <3>2, <3>3, <3>4, <3>5, <3>6 DEF ReadingTrue, Finishes, BadEnds, Successes
  <2>5. CASE e = "done"
    <3>1. s = [r EXCEPT !.done = TRUE]
      BY <1>4, <2>1, <2>5 DEF ReadChat, Finishes, Successes, BadEnds
    <3>2. s.text = r.text /\ s.finish = r.finish /\ s.done = TRUE /\ s.error = r.error
      BY <1>2, <3>1 DEF Readings
    <3>3. s \in Readings
      BY <1>2, <2>5, <3>1 DEF Readings, Finishes, BadEnds, Successes, Errors
    <3>4. s.finish # "none" => HasEvent(longer, s.finish)
      BY <1>1, <1>2, <2>5, <3>2
    <3>5. s.done => HasEvent(longer, "done")
      BY <1>1, <1>2, <2>5, <3>2
    <3>6. s.error = "none" => s.text = Cardinality(Places(longer, "delta"))
      BY <1>6, <1>7, <1>2, <1>4, <2>5, <3>2 DEF Finishes, Successes, BadEnds
    <3> QED BY <1>2, <1>4, <2>5, <3>2, <3>3, <3>4, <3>5, <3>6 DEF ReadingTrue, Finishes, BadEnds, Successes
  <2>6. CASE e \notin {"delta", "usage", "done"} \cup Finishes
    <3>1. PICK code \in Errors \ {"none"} : s = [r EXCEPT !.error = code]
      BY <1>4, <2>1, <2>6 DEF ReadChat, Finishes, Successes, BadEnds, Errors
    <3>2. s.text = r.text /\ s.finish = r.finish /\ s.done = r.done /\ s.error = code
      BY <1>2, <3>1 DEF Readings
    <3>3. s \in Readings
      BY <1>2, <2>6, <3>1 DEF Readings, Finishes, BadEnds, Successes, Errors
    <3>4. s.finish # "none" => HasEvent(longer, s.finish)
      BY <1>1, <1>2, <2>6, <3>2
    <3>5. s.done => HasEvent(longer, "done")
      BY <1>1, <1>2, <2>6, <3>2
    <3>6. s.error = "none" => s.text = Cardinality(Places(longer, "delta"))
      BY <1>6, <1>7, <1>2, <1>4, <2>6, <3>2 DEF Finishes, Successes, BadEnds
    <3> QED BY <1>2, <1>4, <2>6, <3>2, <3>3, <3>4, <3>5, <3>6 DEF ReadingTrue, Finishes, BadEnds, Successes
  <2> QED BY <2>2, <2>3, <2>4, <2>5, <2>6
<1>5. CASE r.error = "none" /\ adapter = "responses"
  <2>1. s = ReadResponses(r, e)
    BY <1>5 DEF ReadEvent
  <2> HIDE DEF s
  <2>2. CASE e = "done" /\ r.finish \in Successes
    <3>1. s = [r EXCEPT !.done = TRUE]
      BY <1>5, <2>1, <2>2 DEF ReadResponses, Finishes, Successes, BadEnds
    <3>2. s.text = r.text /\ s.finish = r.finish /\ s.done = TRUE /\ s.error = r.error
      BY <1>2, <3>1 DEF Readings
    <3>3. s \in Readings
      BY <1>2, <2>2, <3>1 DEF Readings, Finishes, BadEnds, Successes, Errors
    <3>4. s.finish # "none" => HasEvent(longer, s.finish)
      BY <1>1, <1>2, <2>2, <3>2
    <3>5. s.done => HasEvent(longer, "done")
      BY <1>1, <1>2, <2>2, <3>2
    <3>6. s.error = "none" => s.text = Cardinality(Places(longer, "delta"))
      BY <1>6, <1>7, <1>2, <1>5, <2>2, <3>2 DEF Finishes, Successes, BadEnds
    <3> QED BY <1>2, <1>5, <2>2, <3>2, <3>3, <3>4, <3>5, <3>6 DEF ReadingTrue, Finishes, BadEnds, Successes
  <2>3. CASE e = "delta" /\ ~r.done
    <3>1. s = [r EXCEPT !.text = @ + 1]
      BY <1>5, <2>1, <2>3 DEF ReadResponses, Finishes, Successes, BadEnds
    <3>2. s.text = r.text + 1 /\ s.finish = r.finish /\ s.done = r.done /\ s.error = r.error
      BY <1>2, <3>1 DEF Readings
    <3> DEFINE more == r.text + 1
    <3>a. more \in Nat /\ s = [r EXCEPT !.text = more]
      BY <1>2, <3>1 DEF Readings
    <3> HIDE DEF more
    <3>3. s \in Readings
      BY <1>2, <2>3, <3>a DEF Readings, Finishes, BadEnds, Successes, Errors
    <3>4. s.finish # "none" => HasEvent(longer, s.finish)
      BY <1>1, <1>2, <2>3, <3>2
    <3>5. s.done => HasEvent(longer, "done")
      BY <1>1, <1>2, <2>3, <3>2
    <3>6. s.error = "none" => s.text = Cardinality(Places(longer, "delta"))
      BY <1>6, <1>7, <1>2, <1>5, <2>3, <3>2 DEF Finishes, Successes, BadEnds
    <3> QED BY <1>2, <1>5, <2>3, <3>2, <3>3, <3>4, <3>5, <3>6 DEF ReadingTrue, Finishes, BadEnds, Successes
  <2>4. CASE e \in Successes /\ ~r.done
    <3>1. s = [r EXCEPT !.finish = e, !.usage = e # "completed silent"]
      BY <1>5, <2>1, <2>4 DEF ReadResponses, Finishes, Successes, BadEnds
    <3>2. s.text = r.text /\ s.finish = e /\ s.done = r.done /\ s.error = r.error
      BY <1>2, <3>1 DEF Readings
    <3>3. s \in Readings
      BY <1>2, <2>4, <3>1 DEF Readings, Finishes, BadEnds, Successes, Errors
    <3>4. s.finish # "none" => HasEvent(longer, s.finish)
      BY <1>1, <1>2, <2>4, <3>2
    <3>5. s.done => HasEvent(longer, "done")
      BY <1>1, <1>2, <2>4, <3>2
    <3>6. s.error = "none" => s.text = Cardinality(Places(longer, "delta"))
      BY <1>6, <1>7, <1>2, <1>5, <2>4, <3>2 DEF Finishes, Successes, BadEnds
    <3> QED BY <1>2, <1>5, <2>4, <3>2, <3>3, <3>4, <3>5, <3>6 DEF ReadingTrue, Finishes, BadEnds, Successes
  <2>5. CASE e \in BadEnds /\ ~r.done
    <3> DEFINE made == IF e = "cut short" THEN "token_limit_exceeded" ELSE "provider_terminal_failure"
    <3>0. s = [r EXCEPT !.finish = e, !.error = made] /\ made \in Errors \ {"none"}
      BY <1>5, <2>1, <2>5 DEF ReadResponses, Finishes, Successes, BadEnds, Errors
    <3> HIDE DEF made
    <3>1. PICK code \in Errors \ {"none"} : s = [r EXCEPT !.finish = e, !.error = code]
      BY <3>0
    <3>2. s.text = r.text /\ s.finish = e /\ s.done = r.done /\ s.error = code
      BY <1>2, <3>1 DEF Readings
    <3>3. s \in Readings
      BY <1>2, <2>5, <3>1 DEF Readings, Finishes, BadEnds, Successes, Errors
    <3>4. s.finish # "none" => HasEvent(longer, s.finish)
      BY <1>1, <1>2, <2>5, <3>2
    <3>5. s.done => HasEvent(longer, "done")
      BY <1>1, <1>2, <2>5, <3>2
    <3>6. s.error = "none" => s.text = Cardinality(Places(longer, "delta"))
      BY <1>6, <1>7, <1>2, <1>5, <2>5, <3>2 DEF Finishes, Successes, BadEnds
    <3> QED BY <1>2, <1>5, <2>5, <3>2, <3>3, <3>4, <3>5, <3>6 DEF ReadingTrue, Finishes, BadEnds, Successes
  <2>6. CASE /\ ~(e = "done" /\ r.finish \in Successes)
             /\ ~(e = "delta" /\ ~r.done)
             /\ ~(e \in Successes /\ ~r.done)
             /\ ~(e \in BadEnds /\ ~r.done)
    <3>1. PICK code \in Errors \ {"none"} : s = [r EXCEPT !.error = code]
      BY <1>5, <2>1, <2>6 DEF ReadResponses, Finishes, Successes, BadEnds, Errors
    <3>2. s.text = r.text /\ s.finish = r.finish /\ s.done = r.done /\ s.error = code
      BY <1>2, <3>1 DEF Readings
    <3>3. s \in Readings
      BY <1>2, <2>6, <3>1 DEF Readings, Finishes, BadEnds, Successes, Errors
    <3>4. s.finish # "none" => HasEvent(longer, s.finish)
      BY <1>1, <1>2, <2>6, <3>2
    <3>5. s.done => HasEvent(longer, "done")
      BY <1>1, <1>2, <2>6, <3>2
    <3>6. s.error = "none" => s.text = Cardinality(Places(longer, "delta"))
      BY <1>6, <1>7, <1>2, <1>5, <2>6, <3>2 DEF Finishes, Successes, BadEnds
    <3> QED BY <1>2, <1>5, <2>6, <3>2, <3>3, <3>4, <3>5, <3>6 DEF ReadingTrue, Finishes, BadEnds, Successes
  <2> QED BY <2>2, <2>3, <2>4, <2>5, <2>6
<1> QED BY <1>3, <1>4, <1>5

-----------------------------------------------------------------------------
(* What an answer made of a whole body says of it.                         *)

EndOf(events, ends) == \E e \in ends : HasEvent(events, e)

LEMMA ConsumedChat ==
  ASSUME NEW events, ReadingTrue("chat", events, ReadStream("chat", events))
  PROVE  /\ IsComplete(ConsumeChat(events)) =>
              /\ HasEvent(events, "stop") /\ HasEvent(events, "done")
              /\ ConsumeChat(events).text = Cardinality(Places(events, "delta"))
         /\ ~IsComplete(ConsumeChat(events)) /\ ~IsUncertain(ConsumeChat(events)) => EndOf(events, Finishes)
         /\ ConsumeChat(events).code # "outcome_uncertain"
<1> DEFINE r == ReadStream("chat", events)
           a == ConsumeChat(events)
<1>1. ReadingTrue("chat", events, r)
    OBVIOUS
<1>2. a = IF r.error # "none" THEN Raised(r.text, r.error)
          ELSE IF ~(r.finish # "none" /\ r.done)
               THEN Receipt(r.text, UsageOf(r.usage), "protocol_incomplete", r.finish # "none", r.finish, "none")
          ELSE ChatAnswer(r.text, TRUE, r.finish, r.usage)
    BY DEF ConsumeChat, ChatReading, EndsProperly
<1> SUFFICES /\ IsComplete(a) => /\ HasEvent(events, "stop") /\ HasEvent(events, "done")
                                 /\ a.text = Cardinality(Places(events, "delta"))
             /\ ~IsComplete(a) /\ ~IsUncertain(a) => EndOf(events, Finishes)
             /\ a.code # "outcome_uncertain"
    OBVIOUS
<1> HIDE DEF r, a
<1>3. CASE r.error # "none"
  <2>1. a = [text |-> r.text, usage |-> NoUsage, code |-> r.error, seen |-> FALSE, finish |-> "none",
             status |-> "none"]
    BY <1>2, <1>3 DEF Raised, Receipt
  <2>2. r.error # "outcome_uncertain"
    BY <1>1 DEF ReadingTrue, Readings, Errors
  <2> QED BY <2>1, <2>2 DEF IsComplete, IsUncertain
<1>4. CASE r.error = "none" /\ ~(r.finish # "none" /\ r.done)
  <2>1. a = [text |-> r.text, usage |-> UsageOf(r.usage), code |-> "protocol_incomplete",
             seen |-> r.finish # "none", finish |-> r.finish, status |-> "none"]
    BY <1>2, <1>4 DEF Receipt
  <2>2. r.finish # "none" => r.finish \in Finishes /\ HasEvent(events, r.finish)
    BY <1>1 DEF ReadingTrue
  <2> QED BY <2>1, <2>2 DEF IsComplete, IsUncertain, EndOf
<1>5. CASE r.error = "none" /\ r.finish # "none" /\ r.done
  <2>1. r.finish \in Finishes /\ HasEvent(events, r.finish) /\ HasEvent(events, "done")
        /\ r.text = Cardinality(Places(events, "delta"))
    BY <1>1, <1>5 DEF ReadingTrue
  <2>2. a = ChatAnswer(r.text, TRUE, r.finish, r.usage)
    BY <1>2, <1>5
  <2> DEFINE code == CASE r.finish = "none" -> "protocol_incomplete"
                       [] r.finish = "length" -> "token_limit_exceeded"
                       [] r.finish = "filter" -> "provider_terminal_failure"
                       [] OTHER -> "none"
  <2>3. a.text = r.text /\ a.code = code /\ a.seen = TRUE /\ a.finish = r.finish /\ a.status = "none"
    BY <2>1, <2>2 DEF ChatAnswer, Receipt
  <2>4. code = "none" => r.finish = "stop"
    BY <2>1 DEF Finishes
  <2>5. code # "outcome_uncertain"
    BY <2>1 DEF Finishes
  <2> HIDE DEF code
  <2> QED BY <2>1, <2>3, <2>4, <2>5 DEF IsComplete, IsUncertain, EndOf
<1> QED BY <1>3, <1>4, <1>5

LEMMA ConsumedResponses ==
  ASSUME NEW events, ReadingTrue("responses", events, ReadStream("responses", events))
  PROVE  /\ IsComplete(ConsumeResponses(events)) =>
              /\ EndOf(events, Successes) /\ HasEvent(events, "done")
              /\ ConsumeResponses(events).text = Cardinality(Places(events, "delta"))
         /\ ~IsComplete(ConsumeResponses(events)) /\ ~IsUncertain(ConsumeResponses(events)) =>
              EndOf(events, Successes \cup BadEnds)
         /\ ConsumeResponses(events).code # "outcome_uncertain"
<1> DEFINE r == ReadStream("responses", events)
           a == ConsumeResponses(events)
           status == IF r.finish = "cut short" THEN "incomplete"
                     ELSE IF r.finish \in BadEnds THEN r.finish ELSE "completed"
<1>1. ReadingTrue("responses", events, r)
    OBVIOUS
<1>0. r.finish \in {"none"} \cup Successes \cup BadEnds /\ r.error # "outcome_uncertain"
    BY <1>1 DEF ReadingTrue, Readings, Errors
<1>2. a = IF r.finish \in BadEnds
          THEN Receipt(r.text, IF r.finish = "error" THEN NoUsage ELSE "zero", r.error, TRUE, "none", status)
          ELSE IF r.error # "none" THEN Raised(r.text, r.error)
          ELSE IF ~(r.finish # "none" /\ r.done)
               THEN Receipt(r.text, NoUsage, "protocol_incomplete", r.finish # "none", "none", "none")
          ELSE Receipt(r.text, UsageOf(r.usage),
                       IF r.finish = "refused" THEN "provider_refusal"
                       ELSE IF r.text = 0 THEN "protocol_incomplete" ELSE "none",
                       TRUE, "none", status)
    BY DEF ConsumeResponses, EndsProperly
<1> SUFFICES /\ IsComplete(a) => /\ EndOf(events, Successes) /\ HasEvent(events, "done")
                                 /\ a.text = Cardinality(Places(events, "delta"))
             /\ ~IsComplete(a) /\ ~IsUncertain(a) => EndOf(events, Successes \cup BadEnds)
             /\ a.code # "outcome_uncertain"
    OBVIOUS
<1> HIDE DEF r, a, status
<1>3. CASE r.finish \in BadEnds
  <2>1. r.error # "none" /\ HasEvent(events, r.finish)
    BY <1>1, <1>3 DEF ReadingTrue, BadEnds
  <2>2. a.code = r.error /\ a.seen = TRUE
    BY <1>2, <1>3, <2>1 DEF Receipt, BadEnds
  <2> QED BY <1>0, <1>3, <2>1, <2>2 DEF IsComplete, IsUncertain, EndOf
<1>4. CASE r.finish \notin BadEnds /\ r.error # "none"
  <2>1. a.code = r.error /\ a.seen = FALSE
    BY <1>2, <1>4 DEF Raised, Receipt
  <2> QED BY <1>0, <2>1 DEF IsComplete, IsUncertain
<1>5. CASE r.finish \notin BadEnds /\ r.error = "none" /\ (r.finish = "none" \/ ~r.done)
  <2>1. a.code = "protocol_incomplete" /\ a.seen = (r.finish # "none")
    BY <1>2, <1>5 DEF Receipt
  <2>2. r.finish # "none" => r.finish \in Successes \cup BadEnds /\ HasEvent(events, r.finish)
    BY <1>0, <1>1 DEF ReadingTrue
  <2> QED BY <2>1, <2>2 DEF IsComplete, IsUncertain, EndOf
<1>6. CASE r.finish \notin BadEnds /\ r.error = "none" /\ r.finish # "none" /\ r.done
  <2>1. r.finish \in Successes /\ HasEvent(events, r.finish) /\ HasEvent(events, "done")
        /\ r.text = Cardinality(Places(events, "delta"))
    BY <1>0, <1>1, <1>6 DEF ReadingTrue
  <2>2. a.code # "outcome_uncertain" /\ a.seen = TRUE /\ a.text = r.text
    BY <1>2, <1>6 DEF Receipt
  <2> QED BY <2>1, <2>2 DEF IsComplete, IsUncertain, EndOf
<1> QED BY <1>3, <1>4, <1>5, <1>6

LEMMA DocumentRead ==
  ASSUME NEW adapter, NEW d \in Documents
  PROVE  /\ IsComplete(ReadDocument(adapter, d)) => d.finish = "stop"
         /\ ~IsComplete(ReadDocument(adapter, d)) /\ ~IsUncertain(ReadDocument(adapter, d))
              => d.finish \in Finishes
         /\ ReadDocument(adapter, d).code # "outcome_uncertain"
<1> DEFINE a == ReadDocument(adapter, d)
<1>0. d.finish \in Finishes \cup {"none"} /\ d.text \in BOOLEAN
    BY DEF Documents
<1>1. /\ a.code = "none" => d.finish = "stop"
      /\ a.seen = (d.finish # "none")
      /\ a.code # "outcome_uncertain"
  <2>1. CASE adapter = "responses"
    <3>1. a = ResponsesAnswer(d)
        BY <2>1 DEF ReadDocument
    <3> HIDE DEF a
    <3>2. a.seen = (d.finish # "none")
        BY <3>1 DEF ResponsesAnswer, Receipt
    <3>3. a.code = CASE d.finish = "none"   -> "protocol_incomplete"
              [] d.finish = "length" -> "token_limit_exceeded"
              [] d.finish = "filter" -> "provider_terminal_failure"
              [] OTHER -> IF d.refusal THEN "provider_refusal"
                          ELSE IF d.text THEN "none" ELSE "protocol_incomplete"
        BY <3>1 DEF ResponsesAnswer, Receipt
    <3>4. (a.code = "none" => d.finish = "stop") /\ a.code # "outcome_uncertain"
        BY <1>0, <3>3 DEF Finishes
    <3> QED BY <3>2, <3>4
  <2>2. CASE adapter # "responses"
    <3>1. a = ChatAnswer(IF d.text THEN 1 ELSE 0, d.text, d.finish, d.usage)
        BY <2>2 DEF ReadDocument
    <3> HIDE DEF a
    <3>2. a.seen = (d.finish \in Finishes)
        BY <3>1 DEF ChatAnswer, Receipt
    <3>3. a.code = CASE ~d.text \/ d.finish = "none" -> "protocol_incomplete"
              [] d.text /\ d.finish = "length" -> "token_limit_exceeded"
              [] d.text /\ d.finish = "filter" -> "provider_terminal_failure"
              [] OTHER -> "none"
        BY <3>1 DEF ChatAnswer, Receipt
    <3>4. (a.code = "none" => d.finish = "stop") /\ a.code # "outcome_uncertain"
        BY <1>0, <3>3 DEF Finishes
    <3> QED BY <1>0, <3>2, <3>4 DEF Finishes
  <2> QED BY <2>1, <2>2
<1> SUFFICES /\ IsComplete(a) => d.finish = "stop"
             /\ ~IsComplete(a) /\ ~IsUncertain(a) => d.finish \in Finishes
             /\ a.code # "outcome_uncertain"
    OBVIOUS
<1> HIDE DEF a
<1> QED BY <1>0, <1>1 DEF IsComplete, IsUncertain

-----------------------------------------------------------------------------
(* The inductive invariant.                                                *)

Progress == {"claimed", "frozen", "waiting", "body", "handing", "reporting", "answered", "over"}
Wires == [adapter : Adapters, streams : BOOLEAN, at : Progress, status : {"none", "2xx", "4xx", "5xx"},
          form : {"stream", "document"}, received : BOOLEAN, document : {"none"} \cup Finishes]
CallTypes ==
    /\ wire \in Wires /\ spoken \in Seq(Pieces) /\ captured \in Seq(Pieces)
    /\ settled \in {"executing", "not_dispatched", "outcome_uncertain", "local_failure", "completed"}

(* One piece may still be on its way into the evidence buffer; an answer   *)
(* is kept only at the end, and the status comes after it.                 *)
CallOrder ==
    /\ wire.at # "handing" => captured = spoken
    /\ wire.at = "handing" => spoken = Append(captured, Last(spoken)) /\ Last(spoken) \in Pieces
    /\ wire.at \in {"claimed", "frozen"} => ~wire.received
    /\ wire.at \in {"body", "handing", "reporting"} => wire.status # "none"
    /\ wire.at \in {"claimed", "frozen", "waiting", "body", "handing", "reporting"} => raw = NoRaw
    /\ wire.at # "over" => settled = "executing"
    /\ settled = "not_dispatched" => ~wire.received

ReadSoFar ==
    \A adapter \in Adapters : ReadingTrue(adapter, captured, ReadStream(adapter, captured))

AnswerTrue ==
    /\ IsComplete(raw) =>
         /\ wire.status = "2xx" /\ SaidSuccess
         /\ wire.form = "stream" => raw.text = Count("delta")
    /\ ~IsComplete(raw) /\ ~IsUncertain(raw) => SaidHowItEnded
    /\ (raw.code = "outcome_uncertain" /\ raw.usage # NoUsage) => Said("usage")

CallInv ==
    /\ CallTypes /\ CallOrder /\ ReadSoFar /\ AnswersAreTrue
    /\ wire.at = "answered" => AnswerTrue

-----------------------------------------------------------------------------
LEMMA InitCallInv == InitCall => CallInv
<1> SUFFICES ASSUME InitCall PROVE CallInv
    OBVIOUS
<1>1. /\ wire.at = "claimed" /\ wire.status = "none" /\ ~wire.received /\ wire.document = "none"
      /\ wire \in Wires
  <2>1. wire \in [adapter : Adapters, streams : BOOLEAN, at : {"claimed"}, status : {"none"},
                 form : {"stream", "document"}, received : {FALSE}, document : {"none"}]
    BY DEF InitCall
  <2> QED BY <2>1 DEF Wires, Progress
<1>2. spoken = <<>> /\ captured = <<>> /\ raw = NoRaw /\ settled = "executing"
    BY DEF InitCall
<1>3. CallTypes
  <2>1. <<>> \in Seq(Pieces)
    OBVIOUS
  <2> QED BY <1>1, <1>2, <2>1 DEF CallTypes
<1>4. CallOrder
    BY <1>1, <1>2 DEF CallOrder
<1>5. ReadSoFar
    BY <1>2, EmptyStream, EmptyReading DEF ReadSoFar
<1>6. AnswersAreTrue
    BY <1>2 DEF AnswersAreTrue
<1> QED BY <1>1, <1>3, <1>4, <1>5, <1>6 DEF CallInv

(* A step that leaves the body and the answer alone and does not judge.    *)
LEMMA Waited ==
  ASSUME CallInv, NEW at \in Progress \ {"handing", "answered", "over"}, wire.at # "handing",
         raw = NoRaw, wire' \in Wires, wire'.at = at,
         wire'.at \in {"claimed", "frozen"} => ~wire'.received,
         wire'.at \in {"body", "reporting"} => wire'.status # "none",
         UNCHANGED <<spoken, captured, raw, settled>>, settled = "executing"
  PROVE  CallInv'
<1>1. CallTypes'
    BY DEF CallInv, CallTypes
<1>2. CallOrder'
    BY DEF CallInv, CallOrder
<1>3. ReadSoFar'
    BY DEF CallInv, ReadSoFar
<1>4. AnswersAreTrue'
    BY DEF AnswersAreTrue
<1> QED BY <1>1, <1>2, <1>3, <1>4 DEF CallInv

LEMMA Ended ==
  ASSUME CallInv, NEW status \in {"not_dispatched", "outcome_uncertain"}, EndWithout(status),
         wire.at # "answered", wire.at # "over", wire.at # "handing",
         status = "not_dispatched" => ~wire.received
  PROVE  CallInv'
<1>1. wire'.at = "over" /\ wire' \in Wires /\ wire'.received = wire.received /\ settled' = status
      /\ UNCHANGED <<spoken, captured, raw>>
    BY DEF EndWithout, CallInv, CallTypes, Wires, Progress
<1>2. CallTypes'
    BY <1>1 DEF CallInv, CallTypes
<1>3. raw = NoRaw
    BY DEF CallInv, CallOrder, CallTypes, Wires, Progress
<1>4. CallOrder'
    BY <1>1 DEF CallInv, CallOrder
<1>5. ReadSoFar'
    BY <1>1 DEF CallInv, ReadSoFar
<1>6. AnswersAreTrue'
    BY <1>1, <1>3 DEF AnswersAreTrue
<1> QED BY <1>1, <1>2, <1>4, <1>5, <1>6 DEF CallInv

(* A step that keeps an answer.                                            *)
LEMMA Kept ==
  ASSUME CallInv, wire.at \in {"body", "reporting"},
         wire' \in Wires, wire'.at = "answered", UNCHANGED <<spoken, captured, settled>>,
         AnswerTrue'
  PROVE  CallInv'
<1>1. settled = "executing" /\ captured = spoken
    BY DEF CallInv, CallOrder
<1>2. CallTypes'
    BY DEF CallInv, CallTypes
<1>3. CallOrder'
    BY <1>1 DEF CallInv, CallOrder
<1>4. ReadSoFar'
    BY DEF CallInv, ReadSoFar
<1>5. AnswersAreTrue'
    BY <1>1 DEF AnswersAreTrue, AnswerTrue
<1> QED BY <1>2, <1>3, <1>4, <1>5 DEF CallInv

LEMMA KeepAnswer ==
  ASSUME CallInv, wire.at \in {"body", "reporting"}, NEW receipt, Keep(receipt)
  PROVE  /\ wire' = [wire EXCEPT !.at = "answered"] /\ wire' \in Wires /\ wire'.at = "answered"
         /\ wire'.status = wire.status /\ wire'.form = wire.form /\ wire'.adapter = wire.adapter
         /\ wire'.document = wire.document
         /\ raw' = receipt /\ UNCHANGED <<spoken, captured, settled>>
         /\ captured = spoken /\ wire \in Wires
BY DEF Keep, CallInv, CallTypes, CallOrder, Wires, Progress

LEMMA CallStep == CallInv /\ [NextCall]_callVars => CallInv'
<1> SUFFICES ASSUME CallInv, [NextCall]_callVars PROVE CallInv'
    OBVIOUS
<1> USE DEF Progress
<1>0. /\ CallTypes /\ CallOrder /\ ReadSoFar /\ AnswersAreTrue /\ wire \in Wires
      /\ wire.at = "answered" => AnswerTrue
    BY DEF CallInv, CallTypes
<1>1. CASE NotSent
  <2>1. wire.at = "claimed" /\ ~wire.received
    BY <1>0, <1>1 DEF NotSent, CallOrder
  <2> QED BY <1>1, <2>1, Ended DEF NotSent
<1>2. CASE FreezeWire
  <2>1. wire'.at = "frozen" /\ ~wire'.received /\ wire' \in Wires /\ UNCHANGED <<spoken, captured, raw, settled>>
        /\ wire.at = "claimed"
    BY <1>0, <1>2 DEF FreezeWire, CallOrder, Wires
  <2>2. raw = NoRaw /\ settled = "executing"
    BY <1>0, <2>1 DEF CallOrder
  <2> QED BY <2>1, <2>2, Waited
<1>3. CASE Transmit
  <2>1. wire'.at = "waiting" /\ wire' \in Wires /\ UNCHANGED <<spoken, captured, raw, settled>>
        /\ wire.at = "frozen"
    BY <1>0, <1>3 DEF Transmit, CallOrder, Wires
  <2>2. raw = NoRaw /\ settled = "executing"
    BY <1>0, <2>1 DEF CallOrder
  <2> QED BY <2>1, <2>2, Waited
<1>4. CASE NoAnswer
    BY <1>4, Ended DEF NoAnswer
<1>5. CASE \E status \in {"2xx", "4xx", "5xx"} : Headers(status)
  <2>0. PICK status \in {"2xx", "4xx", "5xx"} : Headers(status)
    BY <1>5
  <2>1. wire'.at = "body" /\ wire'.status # "none" /\ wire' \in Wires
        /\ UNCHANGED <<spoken, captured, raw, settled>> /\ wire.at = "waiting"
    BY <1>0, <2>0 DEF Headers, Wires
  <2>2. raw = NoRaw /\ settled = "executing"
    BY <1>0, <2>1 DEF CallOrder
  <2> QED BY <2>1, <2>2, Waited
<1>6. CASE \E e \in ChatEvents \cup ResponsesEvents \cup {"part"} : Arrive(e)
  <2>0. PICK e \in Pieces : Arrive(e)
    BY <1>6 DEF Pieces
  <2>1. wire'.at = "handing" /\ wire' \in Wires /\ wire'.received = wire.received /\ wire'.status = wire.status
        /\ UNCHANGED <<captured, raw, settled>> /\ wire.at = "body" /\ spoken' = Append(spoken, e)
    BY <1>0, <2>0 DEF Arrive, Wires, PieceSteps
  <2>2. spoken \in Seq(Pieces) /\ captured = spoken
    BY <1>0, <2>1 DEF CallTypes, CallOrder
  <2>3. spoken' \in Seq(Pieces) /\ Last(spoken') = e
    BY <2>1, <2>2 DEF Last
  <2>4. CallTypes'
    BY <1>0, <2>1, <2>3 DEF CallTypes
  <2>5. CallOrder'
    BY <1>0, <2>1, <2>2, <2>3 DEF CallOrder
  <2>6. ReadSoFar'
    BY <1>0, <2>1 DEF ReadSoFar
  <2>7. AnswersAreTrue'
    BY <1>0, <2>1 DEF CallOrder, AnswersAreTrue
  <2> QED BY <2>1, <2>4, <2>5, <2>6, <2>7 DEF CallInv
<1>7. CASE HandOn
  <2>1. wire'.at = "reporting" /\ wire' \in Wires /\ wire'.received = wire.received /\ wire'.status = wire.status
        /\ UNCHANGED <<spoken, raw, settled>> /\ wire.at = "handing"
        /\ captured' = Append(captured, Last(spoken))
    BY <1>0, <1>7 DEF HandOn, StepAfter, Wires, PieceSteps
  <2>2. spoken = Append(captured, Last(spoken)) /\ Last(spoken) \in Pieces /\ captured \in Seq(Pieces)
    BY <1>0, <2>1 DEF CallTypes, CallOrder
  <2>3. CallTypes'
    BY <1>0, <2>1, <2>2 DEF CallTypes
  <2>4. CallOrder'
    BY <1>0, <2>1, <2>2 DEF CallOrder
  <2>5. ReadSoFar'
    <3> SUFFICES ASSUME NEW adapter \in Adapters
                 PROVE  ReadingTrue(adapter, captured', ReadStream(adapter, captured'))
      BY DEF ReadSoFar
    <3> DEFINE last == Last(spoken)
               r == ReadStream(adapter, captured)
    <3>1. ReadingTrue(adapter, captured, r)
      BY <1>0 DEF ReadSoFar
    <3>2. ReadStream(adapter, Append(captured, last)) = ReadEvent(adapter, r, last)
      BY <2>2, LongerStream
    <3> HIDE DEF last, r
    <3>3. ReadingTrue(adapter, Append(captured, last), ReadEvent(adapter, r, last))
      BY <2>2, <3>1, OneMoreRead DEF last
    <3>4. captured' = Append(captured, last)
      BY <2>1 DEF last
    <3> QED BY <3>2, <3>3, <3>4
  <2>6. AnswersAreTrue'
    BY <1>0, <2>1 DEF CallOrder, AnswersAreTrue
  <2> QED BY <2>1, <2>3, <2>4, <2>5, <2>6 DEF CallInv
<1>8. CASE Reported
  <2>1. wire'.at = "body" /\ wire'.status = wire.status /\ wire' \in Wires
        /\ UNCHANGED <<spoken, captured, raw, settled>> /\ wire.at = "reporting"
    BY <1>0, <1>8 DEF Reported, StepAfter, PieceSteps, Wires
  <2>2. raw = NoRaw /\ settled = "executing" /\ wire.status # "none"
    BY <1>0, <2>1 DEF CallOrder
  <2> QED BY <2>1, <2>2, Waited
<1>9. CASE Interrupt
  <2>1. wire.at \in {"body", "reporting"}
    BY <1>9 DEF Interrupt
  <2>2. CASE ~wire.streams
    BY <1>9, <2>1, <2>2, Ended DEF Interrupt
  <2>3. CASE wire.streams
    <3>1. Keep(InterruptedAnswer)
      BY <1>9, <2>3 DEF Interrupt
    <3>2. /\ wire' \in Wires /\ wire'.at = "answered" /\ UNCHANGED <<spoken, captured, settled>>
          /\ raw' = InterruptedAnswer /\ captured = spoken
      BY <2>1, <3>1, KeepAnswer
    <3>3. raw'.seen = FALSE /\ raw'.code = "outcome_uncertain" /\ (raw'.usage # NoUsage => HasEvent(spoken, "usage"))
      <4>1. CASE wire.adapter = "responses"
        BY <3>2, <4>1 DEF InterruptedAnswer, Interruption, Receipt
      <4>2. CASE wire.adapter # "responses"
        BY <3>2, <4>2 DEF InterruptedAnswer, InterruptedChat, Interruption, Receipt, ToSet, HasEvent
      <4> QED BY <4>1, <4>2
    <3>4. AnswerTrue'
      <4>1. (\E i \in DOMAIN spoken' : spoken'[i] = "usage") \/ raw'.usage = NoUsage
        BY <3>2, <3>3 DEF HasEvent
      <4> QED BY <3>3, <4>1 DEF AnswerTrue, IsComplete, IsUncertain, Said
    <3> QED BY <2>1, <3>2, <3>4, Kept
  <2> QED BY <2>2, <2>3
<1>10. CASE EndOfError
  <2>1. wire.at = "body" /\ wire.status \in {"4xx", "5xx"}
    BY <1>0, <1>10 DEF EndOfError, CallOrder, Wires
  <2>2. CASE wire.adapter = "deepseek"
    BY <1>10, <2>1, <2>2, Ended DEF EndOfError
  <2>3. CASE wire.adapter # "deepseek"
    <3>1. Keep(HttpError(wire.status))
      BY <1>10, <2>3 DEF EndOfError
    <3>2. /\ wire' \in Wires /\ wire'.at = "answered" /\ UNCHANGED <<spoken, captured, settled>>
          /\ raw' = HttpError(wire.status) /\ wire'.status = wire.status
      BY <2>1, <3>1, KeepAnswer
    <3>3. raw'.code # "none" /\ raw'.usage = NoUsage
      BY <3>2 DEF HttpError, Receipt
    <3>4. AnswerTrue'
      BY <2>1, <3>2, <3>3 DEF AnswerTrue, IsComplete, SaidHowItEnded
    <3> QED BY <2>1, <3>2, <3>4, Kept
  <2> QED BY <2>2, <2>3
<1>11. CASE EndOfStream
  <2> DEFINE answer == IF wire.adapter = "responses" THEN ConsumeResponses(captured) ELSE ConsumeChat(captured)
             ends == IF wire.adapter = "responses" THEN Successes ELSE {"stop"}
  <2>1. wire.at = "body" /\ wire.status = "2xx" /\ wire.form = "stream" /\ Keep(answer)
    BY <1>11 DEF EndOfStream
  <2>2. /\ IsComplete(answer) => /\ EndOf(captured, ends) /\ HasEvent(captured, "done")
                                 /\ answer.text = Cardinality(Places(captured, "delta"))
        /\ ~IsComplete(answer) /\ ~IsUncertain(answer) => EndOf(captured, Finishes \cup Successes \cup BadEnds)
        /\ answer.code # "outcome_uncertain"
    <3>1. CASE wire.adapter = "responses"
      <4>1. ReadingTrue("responses", captured, ReadStream("responses", captured))
        BY <1>0 DEF ReadSoFar, Adapters
      <4>2. answer = ConsumeResponses(captured) /\ ends = Successes
        BY <3>1
      <4> HIDE DEF answer, ends
      <4> QED BY <4>1, <4>2, ConsumedResponses DEF EndOf
    <3>2. CASE wire.adapter # "responses"
      <4>1. ReadingTrue("chat", captured, ReadStream("chat", captured))
        BY <1>0 DEF ReadSoFar, Adapters
      <4>2. answer = ConsumeChat(captured) /\ ends = {"stop"}
        BY <3>2
      <4> HIDE DEF answer, ends
      <4>3. /\ IsComplete(answer) => /\ HasEvent(captured, "stop") /\ HasEvent(captured, "done")
                                     /\ answer.text = Cardinality(Places(captured, "delta"))
            /\ ~IsComplete(answer) /\ ~IsUncertain(answer) => EndOf(captured, Finishes)
            /\ answer.code # "outcome_uncertain"
        BY <4>1, <4>2, ConsumedChat
      <4> QED BY <4>2, <4>3 DEF EndOf
    <3> QED BY <3>1, <3>2
  <2> HIDE DEF answer
  <2>3. /\ wire' \in Wires /\ wire'.at = "answered" /\ UNCHANGED <<spoken, captured, settled>>
        /\ raw' = answer /\ wire'.status = wire.status /\ wire'.form = wire.form /\ wire'.adapter = wire.adapter
        /\ captured = spoken
    BY <2>1, KeepAnswer
  <2>4. /\ \A e : Said(e)' <=> HasEvent(captured, e)
        /\ Count("delta")' = Cardinality(Places(captured, "delta"))
    BY <2>3 DEF Said, HasEvent, Count, Places
  <2>5. IsComplete(answer) => SaidSuccess'
    <3> SUFFICES ASSUME IsComplete(answer) PROVE SaidSuccess'
      OBVIOUS
    <3>1. \E e \in ends : Said(e)'
      BY <2>2, <2>4 DEF EndOf
    <3>2. Said("done")'
      BY <2>2, <2>4
    <3> QED BY <2>1, <2>3, <3>1, <3>2 DEF SaidSuccess
  <2>6. ~IsComplete(answer) /\ ~IsUncertain(answer) => SaidHowItEnded'
    BY <2>2, <2>4 DEF EndOf, SaidHowItEnded
  <2>7. IsComplete(answer) => raw'.text = Count("delta")'
    BY <2>2, <2>3, <2>4
  <2>8. AnswerTrue'
    BY <2>1, <2>2, <2>3, <2>5, <2>6, <2>7 DEF AnswerTrue
  <2> QED BY <2>1, <2>3, <2>8, Kept
<1>12. CASE \E d \in Documents : EndOfDocument(d)
  <2>0. PICK d \in Documents : EndOfDocument(d)
    BY <1>12
  <2> DEFINE answer == ReadDocument(wire.adapter, d)
  <2>1. /\ wire.at = "body" /\ wire.status = "2xx" /\ wire.form = "document"
        /\ raw' = answer /\ wire' = [wire EXCEPT !.at = "answered", !.document = d.finish]
        /\ UNCHANGED <<spoken, captured, settled>>
    BY <2>0 DEF EndOfDocument
  <2>2. d.finish \in Finishes \cup {"none"}
    BY DEF Documents
  <2>3. /\ wire' \in Wires /\ wire'.at = "answered" /\ wire'.status = "2xx" /\ wire'.form = "document"
        /\ wire'.document = d.finish
    BY <1>0, <2>1, <2>2 DEF Wires
  <2>4. /\ IsComplete(answer) => d.finish = "stop"
        /\ ~IsComplete(answer) /\ ~IsUncertain(answer) => d.finish \in Finishes
        /\ answer.code # "outcome_uncertain"
    BY DocumentRead
  <2> HIDE DEF answer
  <2>5. AnswerTrue'
    BY <2>1, <2>3, <2>4 DEF AnswerTrue, SaidSuccess, SaidHowItEnded
  <2> QED BY <2>1, <2>3, <2>5, Kept
<1>13. CASE EndOfNonsense
  <2>1. wire.at = "body" /\ Keep(Unreadable)
    BY <1>13 DEF EndOfNonsense
  <2>2. /\ wire' \in Wires /\ wire'.at = "answered" /\ UNCHANGED <<spoken, captured, settled>>
        /\ raw' = Unreadable
    BY <2>1, KeepAnswer
  <2>3. raw'.seen = FALSE /\ raw'.usage = NoUsage
    BY <2>2 DEF Unreadable, Raised, Receipt
  <2>4. AnswerTrue'
    BY <2>3 DEF AnswerTrue, IsComplete, IsUncertain
  <2> QED BY <2>1, <2>2, <2>4, Kept
<1>14. CASE JudgeEither
  <2>0. PICK valid \in BOOLEAN : Judge(valid)
    BY <1>14 DEF JudgeEither
  <2>1. /\ wire.at = "answered" /\ UNCHANGED <<spoken, captured, raw>>
        /\ settled' = IF IsComplete(raw) /\ valid THEN "completed"
                      ELSE IF IsUncertain(raw) THEN "outcome_uncertain" ELSE "local_failure"
        /\ wire' = [wire EXCEPT !.at = "over"]
    BY <2>0 DEF Judge
  <2>2. /\ wire' \in Wires /\ wire'.at = "over" /\ wire'.status = wire.status /\ wire'.form = wire.form
        /\ wire'.adapter = wire.adapter /\ wire'.document = wire.document /\ wire'.received = wire.received
    BY <1>0, <2>1 DEF Wires
  <2>3. AnswerTrue /\ captured = spoken
    BY <1>0, <2>1 DEF CallOrder
  <2>4. (SaidSuccess' <=> SaidSuccess) /\ (SaidHowItEnded' <=> SaidHowItEnded) /\ Count("delta")' = Count("delta")
        /\ (Said("usage")' <=> Said("usage"))
    BY <2>1, <2>2 DEF SaidSuccess, SaidHowItEnded, Count, Said
  <2>5. SaidSuccess => SaidHowItEnded
    <3> SUFFICES ASSUME SaidSuccess PROVE SaidHowItEnded
      OBVIOUS
    <3>1. CASE wire.form = "document"
      BY <3>1 DEF SaidSuccess, SaidHowItEnded, Finishes
    <3>2. CASE wire.form # "document"
      <4>1. PICK e \in (IF wire.adapter = "responses" THEN Successes ELSE {"stop"}) : Said(e)
        BY <3>2 DEF SaidSuccess
      <4>2. e \in Finishes \cup Successes \cup BadEnds
        BY DEF Finishes
      <4> QED BY <4>1, <4>2 DEF SaidHowItEnded
    <3> QED BY <3>1, <3>2
  <2>6. CallTypes'
    BY <1>0, <2>1, <2>2 DEF CallTypes
  <2>7. CallOrder'
    BY <1>0, <2>1, <2>2, <2>3 DEF CallOrder
  <2>8. ReadSoFar'
    BY <1>0, <2>1 DEF ReadSoFar
  <2>9. AnswersAreTrue'
    <3>1. settled' = "completed" => IsComplete(raw)
      BY <2>1
    <3>2. settled' = "local_failure" => IsComplete(raw) \/ (~IsComplete(raw) /\ ~IsUncertain(raw))
      BY <2>1
    <3>3. settled' # "not_dispatched"
      BY <2>1
    <3> QED BY <2>1, <2>2, <2>3, <2>4, <2>5, <3>1, <3>2, <3>3 DEF AnswersAreTrue, AnswerTrue
  <2> QED BY <2>2, <2>6, <2>7, <2>8, <2>9 DEF CallInv
<1>15. CASE StopCall \/ UNCHANGED callVars
  <2>1. UNCHANGED <<wire, spoken, captured, raw, settled>>
    BY <1>15 DEF StopCall, callVars
  <2>2. CallTypes' /\ CallOrder' /\ ReadSoFar'
    BY <1>0, <2>1 DEF CallTypes, CallOrder, ReadSoFar
  <2>3. AnswersAreTrue' /\ (AnswerTrue' <=> AnswerTrue)
    BY <1>0, <2>1 DEF AnswersAreTrue, AnswerTrue, SaidSuccess, SaidHowItEnded, Count, Said
  <2> QED BY <1>0, <2>1, <2>2, <2>3 DEF CallInv
<1> QED BY <1>1, <1>2, <1>3, <1>4, <1>5, <1>6, <1>7, <1>8, <1>9, <1>10, <1>11, <1>12, <1>13, <1>14, <1>15
        DEF NextCall

(* Whatever the endpoint sends, in pieces or at once, and wherever it is   *)
(* cut off: a call is completed, failed, unsent or priced only if that is  *)
(* what was said.                                                          *)
THEOREM AnswersTrue == CallSpec => []AnswersAreTrue
<1>1. CallInv => AnswersAreTrue
    BY DEF CallInv
<1> QED BY InitCallInv, CallStep, <1>1, PTL DEF CallSpec

-----------------------------------------------------------------------------
(* The frozen state a request is made of.                                  *)

Framed == opening \in Openings /\ request \in Preparations /\ inputLimit \in InputLimits

LEMMA OpeningIs ==
  ASSUME Framed
  PROVE  /\ IsFiniteSet(opening.records)
         /\ opening.kind \in [opening.records -> {"person", "bond", "fact", "constraint", "lore"}]
         /\ opening.cites \in [opening.records -> SUBSET opening.records]
         /\ opening.names \in [opening.records -> SUBSET opening.records]
         /\ \A r \in opening.records : opening.kind[r] = "lore" => opening.cites[r] = {}
         /\ opening.spoken \subseteq opening.records
         /\ opening.cast \subseteq Of("person") /\ opening.present \subseteq Of("person")
         /\ opening.voiced \subseteq Of("person")
         /\ \A i \in DOMAIN opening.ranking : opening.ranking[i] \in Of("person")
         /\ opening.ranking \in Seq(opening.records)
         /\ opening.lengths \in Seq(Nat) /\ opening.summaries \in Nat
         /\ opening.beside \in Seq(Paragraphs)
         /\ inputLimit \in Nat /\ request.fixed \in Nat
         /\ request.role \in DOMAIN Targets /\ request.policy \in Policies
<1>1. opening \in Openings /\ request \in Preparations /\ inputLimit \in InputLimits
    BY DEF Framed
<1> DEFINE o == opening
<1>2. /\ IsFiniteSet(o.records)
      /\ o.kind \in [o.records -> {"person", "bond", "fact", "constraint", "lore"}]
      /\ o.cites \in [o.records -> SUBSET o.records] /\ o.names \in [o.records -> SUBSET o.records]
      /\ \A r \in o.records : o.kind[r] = "lore" => o.cites[r] = {}
      /\ o.ranking \in Seq(o.records) /\ o.spoken \subseteq o.records
      /\ o.lengths \in Seq(Nat) /\ o.summaries \in Nat /\ o.beside \in Seq(DOMAIN o.lengths)
    BY <1>1, OpeningsAssumption
<1>3. o.cast \cup o.present \cup o.voiced \cup {o.ranking[i] : i \in DOMAIN o.ranking}
        \subseteq {r \in o.records : o.kind[r] = "person"}
    BY <1>1, OpeningsAssumption, Zenon
<1>4. /\ o.cast \subseteq Of("person") /\ o.present \subseteq Of("person")
      /\ o.voiced \subseteq Of("person")
      /\ \A i \in DOMAIN o.ranking : o.ranking[i] \in Of("person")
    BY <1>3 DEF Of
<1>5. inputLimit \in Nat
    BY <1>1, PreparationsAssumption
<1>6. request.fixed \in Nat /\ request.role \in DOMAIN Targets /\ request.policy \in Policies
    BY <1>1, PreparationsAssumption, Zenon
<1> QED BY <1>2, <1>4, <1>5, <1>6 DEF Paragraphs

LEMMA SortsOf ==
  /\ \A k : Of(k) \subseteq opening.records
  /\ \A k : \A r \in opening.records : r \in Of(k) <=> opening.kind[r] = k
BY DEF Of

\* What cites and what is named grows with what is told.
LEMMA LinksGrow ==
  ASSUME Framed, NEW S \in SUBSET opening.records, NEW T \in SUBSET opening.records, S \subseteq T
  PROVE  /\ CitedBy(S) \subseteq CitedBy(T) /\ CitedBy(T) \subseteq opening.records
         /\ NamedBy(S) \subseteq NamedBy(T) /\ NamedBy(T) \subseteq Of("lore")
<1>1. CitedBy(S) \subseteq CitedBy(T)
    BY DEF CitedBy
<1>2. UNION {opening.names[r] : r \in S} \subseteq UNION {opening.names[r] : r \in T}
    OBVIOUS
<1>3. CitedBy(T) \subseteq opening.records
    BY OpeningIs DEF CitedBy
<1> QED BY <1>1, <1>2, <1>3 DEF NamedBy

\* The lore that must be told with some lore is closed, and is the least that is.
LEMMA LoreWithIs ==
  ASSUME Framed, NEW S \in SUBSET Of("lore")
  PROVE  /\ S \subseteq LoreWith(S) /\ LoreWith(S) \subseteq Of("lore")
         /\ NamedBy(LoreWith(S)) \subseteq LoreWith(S)
         /\ \A T \in SUBSET Of("lore") : S \subseteq T /\ NamedBy(T) \subseteq T => LoreWith(S) \subseteq T
<1> DEFINE sets == {T \in SUBSET Of("lore") : NamedBy(T) \subseteq T}
           L    == LoreWith(S)
<1>0. Of("lore") \subseteq opening.records
    BY DEF Of
<1>1. L = {r \in opening.records : \A T \in sets : S \subseteq T => r \in T}
    BY DEF LoreWith, LeastAround
<1>2. S \subseteq L
    BY <1>0, <1>1
<1>3. Of("lore") \in sets
    BY <1>0, LinksGrow
<1>4. L \subseteq Of("lore")
    BY <1>1, <1>3
<1>5. ASSUME NEW x \in NamedBy(L) PROVE x \in L
  <2>1. x \in opening.records
    BY <1>0, <1>4, <1>5, LinksGrow
  <2>2. ASSUME NEW T \in sets, S \subseteq T PROVE x \in T
    <3>1. L \subseteq T
      BY <1>1, <2>2
    <3>2. NamedBy(L) \subseteq NamedBy(T)
      BY <3>1, <1>0, LinksGrow
    <3> QED BY <3>2, <1>5
  <2> QED BY <1>1, <2>1, <2>2
<1>6. \A T \in sets : S \subseteq T => L \subseteq T
    BY <1>1
<1> QED BY <1>2, <1>4, <1>5, <1>6

\* The same of records and what they cite.
LEMMA AllLinkedIs ==
  ASSUME Framed, NEW S \in SUBSET opening.records
  PROVE  /\ S \subseteq AllLinked(S) /\ AllLinked(S) \subseteq opening.records
         /\ Entire(AllLinked(S))
         /\ \A T \in SUBSET opening.records : S \subseteq T /\ Entire(T) => AllLinked(S) \subseteq T
<1> DEFINE sets == {T \in Around(S) : Entire(T)}
           L    == AllLinked(S)
<1>1. L = {r \in opening.records : \A T \in sets : S \subseteq T => r \in T}
    BY DEF AllLinked, LeastAround
<1>2. S \subseteq L /\ L \subseteq opening.records
    BY <1>1
<1>3. \A T \in SUBSET opening.records : S \subseteq T => T \in Around(S)
  <2> SUFFICES ASSUME NEW T \in SUBSET opening.records, S \subseteq T PROVE T \in Around(S)
    OBVIOUS
  <2>1. T = S \cup (T \ S) /\ T \ S \in SUBSET (opening.records \ S)
    OBVIOUS
  <2> QED BY <2>1 DEF Around
<1>4. \A T \in SUBSET opening.records : S \subseteq T /\ Entire(T) => L \subseteq T
    BY <1>1, <1>3
<1>5. \A T \in sets : S \subseteq T /\ T \in SUBSET opening.records
    BY DEF Around
<1>6. ASSUME NEW x \in CitedBy(L) PROVE x \in L
  <2>1. x \in opening.records
    BY <1>2, <1>6, LinksGrow
  <2>2. ASSUME NEW T \in sets, S \subseteq T PROVE x \in T
    <3>1. L \subseteq T
      BY <1>1, <2>2
    <3>2. CitedBy(L) \subseteq CitedBy(T)
      BY <3>1, <1>5, LinksGrow
    <3> QED BY <3>2, <1>6 DEF Entire
  <2> QED BY <1>1, <2>1, <2>2
<1>7. ASSUME NEW c \in Of("constraint"), opening.cites[c] \cap L # {} PROVE c \in L
  <2>1. c \in opening.records
    BY DEF Of
  <2>2. ASSUME NEW T \in sets, S \subseteq T PROVE c \in T
    <3>1. L \subseteq T
      BY <1>1, <2>2
    <3> QED BY <3>1, <1>7 DEF Entire
  <2> QED BY <1>1, <2>1, <2>2
<1> QED BY <1>2, <1>4, <1>6, <1>7 DEF Entire

\* Lore is told with what it names, unless it is only there because it is cited.
Sound(R) == /\ Entire(R)
            /\ \A r \in R : r \in Of("lore") /\ r \notin CitedBy(R) => NamedBy({r}) \subseteq R

LEMMA LinkedIsSound ==
  ASSUME Framed, NEW S \in SUBSET opening.records,
         \A r \in S : r \in Of("lore") /\ r \notin CitedBy(AllLinked(S)) => NamedBy({r}) \subseteq AllLinked(S)
  PROVE  Sound(AllLinked(S))
<1> DEFINE R == AllLinked(S)
<1>1. Entire(R) /\ R \subseteq opening.records /\ S \subseteq R
    BY AllLinkedIs
<1>2. ASSUME NEW r \in R, r \in Of("lore"), r \notin CitedBy(R), r \notin S PROVE FALSE
  <2> DEFINE T == R \ {r}
  <2>1. T \in SUBSET opening.records /\ S \subseteq T /\ T \subseteq R
    BY <1>1, <1>2
  <2>2. CitedBy(T) \subseteq T
    <3>1. CitedBy(T) \subseteq CitedBy(R)
      BY <2>1, <1>1, LinksGrow
    <3> QED BY <3>1, <1>1, <1>2 DEF Entire
  <2>3. \A c \in Of("constraint") : opening.cites[c] \cap T # {} => c \in T
    <3> SUFFICES ASSUME NEW c \in Of("constraint"), opening.cites[c] \cap T # {} PROVE c \in T
      OBVIOUS
    <3>1. c \in R
      BY <1>1 DEF Entire
    <3>2. c # r
      BY <1>2 DEF Of
    <3> QED BY <3>1, <3>2
  <2>4. R \subseteq T
    BY <2>1, <2>2, <2>3, AllLinkedIs DEF Entire
  <2> QED BY <2>4
<1> HIDE DEF R
<1>3. \A r \in R : r \in Of("lore") /\ r \notin CitedBy(R) => r \in S
    BY <1>2
<1> QED BY <1>1, <1>3 DEF Sound, R

-----------------------------------------------------------------------------
(* What a packet weighs.                                                   *)

Packets == [records : SUBSET opening.records, ending : SUBSET Paragraphs,
            passages : SUBSET Paragraphs, summaries : Nat, voices : SUBSET opening.records]

Below(m, w) == /\ m.records \subseteq w.records /\ m.ending \subseteq w.ending
               /\ m.passages \subseteq w.passages /\ m.summaries <= w.summaries
               /\ m.voices \subseteq w.voices

LEMMA ParagraphsAre ==
  ASSUME Framed
  PROVE  /\ LastParagraph \in Nat /\ Paragraphs = 1..LastParagraph
         /\ \A p \in Paragraphs : opening.lengths[p] \in Nat
BY OpeningIs DEF LastParagraph, Paragraphs

TokensOf(p) == {p} \X (1..opening.lengths[p])

LEMMA TokensFinite ==
  ASSUME Framed, NEW p \in Paragraphs
  PROVE  IsFiniteSet(TokensOf(p))
<1> DEFINE n == opening.lengths[p]
           f == [j \in 1..n |-> <<p, j>>]
<1>1. n \in Nat
    BY ParagraphsAre
<1>2. IsFiniteSet(1..n)
    BY <1>1, FS_Interval
<1>3. TokensOf(p) = {<<p, j>> : j \in 1..n}
    BY DEF TokensOf
<1>4. f \in [1..n -> TokensOf(p)] /\ \A x \in TokensOf(p) : \E j \in 1..n : f[j] = x
    BY <1>3
<1> HIDE DEF f, n
<1>5. f \in Surjection(1..n, TokensOf(p))
    BY <1>4 DEF Surjection
<1> QED BY <1>2, <1>5, FS_Surjection

LEMMA LengthGrows ==
  ASSUME Framed, NEW T \in SUBSET Paragraphs, NEW S \in SUBSET T
  PROVE  Length(S) \in Nat /\ Length(T) \in Nat /\ Length(S) <= Length(T)
<1> DEFINE f    == [p \in T |-> TokensOf(p)]
           all  == {TokensOf(p) : p \in T}
           some == {TokensOf(p) : p \in S}
<1>1. IsFiniteSet(Paragraphs)
  <2>1. LastParagraph \in Int /\ Paragraphs = 1..LastParagraph
    BY ParagraphsAre
  <2>2. IsFiniteSet(1..LastParagraph)
    BY <2>1, FS_Interval
  <2> QED BY <2>1, <2>2
<1>2. IsFiniteSet(T)
    BY <1>1, FS_Subset
<1>3. f \in Surjection(T, all)
    BY DEF Surjection
<1>4. IsFiniteSet(all)
    BY <1>2, <1>3, FS_Surjection
<1>5. IsFiniteSet(UNION all)
    BY <1>4, TokensFinite, FS_UNION
<1>6. (UNION some) \in SUBSET (UNION all)
    OBVIOUS
<1>7. IsFiniteSet(UNION some) /\ Cardinality(UNION some) <= Cardinality(UNION all)
    BY <1>5, <1>6, FS_Subset
<1>8. Length(S) = Cardinality(UNION some) /\ Length(T) = Cardinality(UNION all)
    BY DEF Length, TokensOf
<1> QED BY <1>5, <1>7, <1>8, FS_CardinalityType

LEMMA WeightGrows ==
  ASSUME Framed, NEW m \in Packets, NEW w \in Packets, Below(m, w)
  PROVE  Weight(m) \in Nat /\ Weight(w) \in Nat /\ Weight(m) <= Weight(w)
<1>1. \A S \in SUBSET opening.records, T \in SUBSET opening.records :
         S \subseteq T => /\ Cardinality(S) \in Nat /\ Cardinality(T) \in Nat
                          /\ Cardinality(S) <= Cardinality(T)
  <2> TAKE S \in SUBSET opening.records, T \in SUBSET opening.records
  <2> HAVE S \subseteq T
  <2>1. IsFiniteSet(T)
    BY OpeningIs, FS_Subset
  <2>2. IsFiniteSet(S) /\ Cardinality(S) <= Cardinality(T)
    BY <2>1, FS_Subset
  <2> QED BY <2>1, <2>2, FS_CardinalityType
<1>2. /\ m.records \in SUBSET opening.records /\ w.records \in SUBSET opening.records
      /\ m.voices \in SUBSET opening.records /\ w.voices \in SUBSET opening.records
      /\ m.summaries \in Nat /\ w.summaries \in Nat /\ m.summaries <= w.summaries
      /\ m.records \subseteq w.records /\ m.voices \subseteq w.voices
      /\ m.ending \in SUBSET w.ending /\ w.ending \in SUBSET Paragraphs
      /\ m.passages \in SUBSET w.passages /\ w.passages \in SUBSET Paragraphs
    BY DEF Packets, Below
<1>3. /\ Cardinality(m.records) \in Nat /\ Cardinality(w.records) \in Nat
      /\ Cardinality(m.records) <= Cardinality(w.records)
    BY <1>1, <1>2
<1>4. /\ Cardinality(m.voices) \in Nat /\ Cardinality(w.voices) \in Nat
      /\ Cardinality(m.voices) <= Cardinality(w.voices)
    BY <1>1, <1>2
<1>5. Length(m.ending) \in Nat /\ Length(w.ending) \in Nat /\ Length(m.ending) <= Length(w.ending)
    BY <1>2, LengthGrows
<1>6. Length(m.passages) \in Nat /\ Length(w.passages) \in Nat /\ Length(m.passages) <= Length(w.passages)
    BY <1>2, LengthGrows
<1> QED BY <1>2, <1>3, <1>4, <1>5, <1>6 DEF Weight

LEMMA BelowOrders ==
  ASSUME NEW m \in Packets, NEW w \in Packets, NEW x \in Packets
  PROVE  /\ Below(m, m)
         /\ Below(m, w) /\ Below(w, x) => Below(m, x)
<1>1. m.summaries \in Nat /\ w.summaries \in Nat /\ x.summaries \in Nat
    BY DEF Packets
<1> QED BY <1>1 DEF Below

-----------------------------------------------------------------------------
(* What is offered, one after the other.                                   *)

Items == [sort : {"summary"}, what : Nat] \cup [sort : {"passage"}, what : SUBSET Paragraphs]
            \cup [sort : {"hit"}, what : opening.records] \cup [sort : {"voice"}, what : opening.records]

LEMMA WithHitIs ==
  ASSUME Framed, NEW R \in SUBSET opening.records, NEW h \in opening.records
  PROVE  /\ R \subseteq WithHit(R, h) /\ h \in WithHit(R, h) /\ WithHit(R, h) \subseteq opening.records
         /\ Sound(R) => Sound(WithHit(R, h))
         /\ \A T \in SUBSET opening.records : R \subseteq T => WithHit(R, h) \subseteq WithHit(T, h)
<1> DEFINE L(S) == IF h \in Of("lore") THEN LoreWith((S \cap Of("lore")) \cup {h}) ELSE {h}
           A(S) == S \cup L(S)
<1>0. Of("lore") \subseteq opening.records
    BY DEF Of
<1>1. \A S : WithHit(S, h) = AllLinked(A(S))
    BY DEF WithHit
<1>2. \A S \in SUBSET opening.records :
         /\ h \in L(S) /\ A(S) \in SUBSET opening.records
         /\ h \in Of("lore") => /\ A(S) \cap Of("lore") = L(S)
                                /\ NamedBy(L(S)) \subseteq L(S) /\ L(S) \subseteq Of("lore")
  <2> TAKE S \in SUBSET opening.records
  <2>1. CASE h \in Of("lore")
    <3> DEFINE B == (S \cap Of("lore")) \cup {h}
    <3>1. B \in SUBSET Of("lore") /\ L(S) = LoreWith(B)
      BY <2>1
    <3>2. B \subseteq LoreWith(B) /\ LoreWith(B) \subseteq Of("lore") /\ NamedBy(LoreWith(B)) \subseteq LoreWith(B)
      BY <3>1, LoreWithIs
    <3> QED BY <3>1, <3>2, <1>0
  <2>2. CASE h \notin Of("lore")
    BY <2>2
  <2> QED BY <2>1, <2>2
<1>3. R \subseteq WithHit(R, h) /\ h \in WithHit(R, h) /\ WithHit(R, h) \subseteq opening.records
  <2>1. A(R) \subseteq AllLinked(A(R)) /\ AllLinked(A(R)) \subseteq opening.records
    BY <1>2, AllLinkedIs
  <2>2. R \subseteq A(R) /\ h \in A(R)
    BY <1>2
  <2> HIDE DEF A
  <2> QED BY <2>1, <2>2, <1>1
<1>4. ASSUME Sound(R) PROVE Sound(WithHit(R, h))
  <2> DEFINE W == AllLinked(A(R))
  <2>1. A(R) \in SUBSET opening.records /\ A(R) \subseteq W /\ W \subseteq opening.records
    BY <1>2, AllLinkedIs
  <2>2. ASSUME NEW r \in A(R), r \in Of("lore"), r \notin CitedBy(W) PROVE NamedBy({r}) \subseteq W
    <3>1. CASE h \in Of("lore")
      <4>1. r \in L(R) /\ NamedBy(L(R)) \subseteq L(R) /\ L(R) \subseteq opening.records
        BY <3>1, <2>2, <1>2, <1>0
      <4>2. NamedBy({r}) \subseteq NamedBy(L(R))
        <5> DEFINE K == L(R)
        <5>1. {r} \in SUBSET opening.records /\ K \in SUBSET opening.records /\ {r} \subseteq K
          BY <4>1
        <5> HIDE DEF K
        <5>2. NamedBy({r}) \subseteq NamedBy(K)
          BY <5>1, LinksGrow
        <5> QED BY <5>2 DEF K
      <4>3. L(R) \subseteq W
        BY <2>1
      <4> QED BY <4>1, <4>2, <4>3
    <3>2. CASE h \notin Of("lore")
      <4>1. r \in R
        BY <3>2, <2>2
      <4>2. R \subseteq W
        BY <2>1
      <4>3. CitedBy(R) \subseteq CitedBy(W)
        BY <4>2, <2>1, LinksGrow
      <4> QED BY <4>1, <4>2, <4>3, <2>2, <1>4 DEF Sound
    <3> QED BY <3>1, <3>2
  <2> HIDE DEF A
  <2> QED BY <2>1, <2>2, <1>1, LinkedIsSound
<1>5. ASSUME NEW T \in SUBSET opening.records, R \subseteq T PROVE WithHit(R, h) \subseteq WithHit(T, h)
  <2>1. L(R) \subseteq L(T)
    <3>1. CASE h \in Of("lore")
      <4> DEFINE B == (R \cap Of("lore")) \cup {h}
                 C == (T \cap Of("lore")) \cup {h}
      <4>1. B \in SUBSET Of("lore") /\ C \in SUBSET Of("lore") /\ B \subseteq C
        BY <3>1, <1>5
      <4>2. C \subseteq LoreWith(C) /\ LoreWith(C) \in SUBSET Of("lore") /\ NamedBy(LoreWith(C)) \subseteq LoreWith(C)
        BY <4>1, LoreWithIs
      <4>3. LoreWith(B) \subseteq LoreWith(C)
        BY <4>1, <4>2, LoreWithIs
      <4> QED BY <3>1, <4>3
    <3>2. CASE h \notin Of("lore")
      BY <3>2
    <3> QED BY <3>1, <3>2
  <2>2. A(R) \subseteq A(T) /\ A(R) \in SUBSET opening.records /\ A(T) \in SUBSET opening.records
    BY <2>1, <1>2, <1>5
  <2> HIDE DEF A
  <2>3. A(T) \subseteq AllLinked(A(T)) /\ AllLinked(A(T)) \subseteq opening.records /\ Entire(AllLinked(A(T)))
    BY <2>2, AllLinkedIs
  <2>4. AllLinked(A(R)) \subseteq AllLinked(A(T))
    BY <2>2, <2>3, AllLinkedIs
  <2> QED BY <2>4, <1>1
<1> QED BY <1>3, <1>4, <1>5

\* One offer: it is taken when it fits the target, and only adds.
Adds(m, w) == /\ Below(m, w) /\ w.ending = m.ending
              /\ Sound(m.records) => Sound(w.records)
              /\ m.ending \cap m.passages = {} => w.ending \cap w.passages = {}

OnlyVoices(m, w) == w = [m EXCEPT !.voices = w.voices]

LEMMA OfferIs ==
  ASSUME Framed, NEW m \in Packets, NEW item \in Items, NEW t \in Nat
  PROVE  /\ Offer(m, item, t) \in Packets /\ Adds(m, Offer(m, item, t))
         /\ Offer(m, item, t) = m \/ Weight(Offer(m, item, t)) <= t
         /\ item.sort # "voice" => Offer(m, item, t).voices = m.voices
         /\ item.sort = "voice" => OnlyVoices(m, Offer(m, item, t))
         /\ item.sort = "hit" => \/ item.what \in Offer(m, item, t).records
                                 \/ Weight([m EXCEPT !.records = WithHit(@, item.what)]) > t
<1> DEFINE w == Plus(m, item)
<1>0. m.records \in SUBSET opening.records /\ m.ending \in SUBSET Paragraphs
      /\ m.passages \in SUBSET Paragraphs /\ m.summaries \in Nat /\ m.voices \in SUBSET opening.records
      /\ m = [records |-> m.records, ending |-> m.ending, passages |-> m.passages,
              summaries |-> m.summaries, voices |-> m.voices]
    BY DEF Packets
<1>1. CASE item.sort = "summary"
  <2>1. w = [m EXCEPT !.summaries = @ + 1]
    BY <1>1 DEF Plus
  <2>2. w \in Packets /\ Adds(m, w) /\ w.voices = m.voices
    BY <2>1, <1>0 DEF Packets, Adds, Below
  <2>3. Below(m, m)
    BY BelowOrders
  <2>4. Weight(w) \in Nat
    BY <2>2, WeightGrows DEF Adds
  <2> HIDE DEF w
  <2> QED BY <1>1, <2>2, <2>3, <2>4 DEF Offer, w, Adds
<1>2. CASE item.sort = "passage"
  <2>0. item.what \in SUBSET Paragraphs
    BY <1>2 DEF Items
  <2>1. w = [m EXCEPT !.passages = @ \cup item.what]
    BY <1>2 DEF Plus
  <2>2. w \in Packets /\ Below(m, w) /\ w.ending = m.ending /\ w.records = m.records /\ w.voices = m.voices
        /\ w.passages = m.passages \cup item.what
    BY <2>0, <2>1, <1>0 DEF Packets, Below
  <2>3. Below(m, m)
    BY BelowOrders
  <2>4. ~Needless(m, item) => Adds(m, w)
    BY <1>2, <2>2 DEF Adds, Needless
  <2> HIDE DEF w
  <2> QED BY <1>2, <2>2, <2>3, <2>4 DEF Offer, w, Adds
<1>3. CASE item.sort = "hit"
  <2>0. item.what \in opening.records
    BY <1>3 DEF Items
  <2> DEFINE h == item.what
  <2>1. w = [m EXCEPT !.records = WithHit(@, h)]
    BY <1>3 DEF Plus
  <2>2. /\ m.records \subseteq WithHit(m.records, h) /\ h \in WithHit(m.records, h)
        /\ WithHit(m.records, h) \subseteq opening.records
        /\ Sound(m.records) => Sound(WithHit(m.records, h))
    BY <2>0, <1>0, WithHitIs
  <2>3. w.records = WithHit(m.records, h) /\ w.ending = m.ending /\ w.passages = m.passages
        /\ w.summaries = m.summaries /\ w.voices = m.voices
    BY <2>1, <1>0
  <2>4. w \in Packets
    BY <2>1, <2>2, <1>0 DEF Packets
  <2>5. Adds(m, w)
    BY <2>2, <2>3, <1>0 DEF Adds, Below
  <2>6. Below(m, m)
    BY BelowOrders
  <2>7. Weight(w) \in Nat
    BY <2>4, <2>5, WeightGrows DEF Adds
  <2>8. Offer(m, item, t) = IF h \notin m.records /\ Weight(w) <= t THEN w ELSE m
    BY <1>3 DEF Offer, Needless
  <2>9. Adds(m, m)
    BY <2>6 DEF Adds
  <2>10. Weight([m EXCEPT !.records = WithHit(@, item.what)]) = Weight(w)
    BY <2>1
  <2> HIDE DEF w
  <2>11. CASE h \notin m.records /\ Weight(w) <= t
    BY <2>2, <2>3, <2>4, <2>5, <2>8, <2>11, <1>3
  <2>12. CASE ~(h \notin m.records /\ Weight(w) <= t)
    BY <2>7, <2>8, <2>9, <2>10, <2>12, <1>3
  <2> QED BY <2>11, <2>12
<1>4. CASE item.sort = "voice"
  <2>1. w = [m EXCEPT !.voices = @ \cup {item.what}]
    BY <1>4 DEF Plus
  <2>2. item.what \in opening.records
    BY <1>4 DEF Items
  <2>3. w \in Packets /\ Adds(m, w)
    BY <2>1, <2>2, <1>0 DEF Packets, Adds, Below
  <2>4. w = [m EXCEPT !.voices = w.voices] /\ m = [m EXCEPT !.voices = m.voices]
    BY <2>1, <1>0
  <2>5. Below(m, m)
    BY BelowOrders
  <2> HIDE DEF w
  <2> QED BY <1>4, <2>3, <2>4, <2>5 DEF Offer, w, Adds, OnlyVoices
<1>5. item.sort \in {"summary", "passage", "hit", "voice"}
    BY DEF Items
<1> QED BY <1>1, <1>2, <1>3, <1>4, <1>5

OfferBody(m, items, t, f, i) == IF i = 0 THEN m ELSE Offer(f[i - 1], items[i], t)

LEMMA OffersExist ==
  ASSUME NEW m, NEW items, NEW t, NEW n \in Nat
  PROVE  \E f : f = [i \in 0..n |-> OfferBody(m, items, t, f, i)]
<1> DEFINE T == {k \in Nat : \E f : f = [i \in 0..k |-> OfferBody(m, items, t, f, i)]}
<1>1. 0 \in T
  <2> DEFINE f == [i \in 0..0 |-> m]
  <2>1. f = [i \in 0..0 |-> OfferBody(m, items, t, f, i)]
    BY DEF OfferBody
  <2> QED BY <2>1
<1>2. ASSUME NEW k \in Nat, k \in T PROVE k + 1 \in T
  <2>1. PICK f : f = [i \in 0..k |-> OfferBody(m, items, t, f, i)]
    BY <1>2
  <2> DEFINE g == [i \in 0..(k + 1) |-> IF i = k + 1 THEN Offer(f[k], items[k + 1], t) ELSE f[i]]
  <2>2. \A i \in 0..k : g[i] = f[i] /\ f[i] = OfferBody(m, items, t, f, i)
    BY <2>1
  <2>3. \A i \in 0..(k + 1) : g[i] = OfferBody(m, items, t, g, i)
    <3> TAKE i \in 0..(k + 1)
    <3>1. CASE i = 0
      <4>1. 0 \in 0..k
        OBVIOUS
      <4>2. g[0] = f[0] /\ f[0] = m
        BY <4>1, <2>2 DEF OfferBody
      <4> QED BY <3>1, <4>2 DEF OfferBody
    <3>2. CASE i = k + 1
      <4>1. g[k + 1] = Offer(f[k], items[k + 1], t) /\ g[k] = f[k] /\ (k + 1) - 1 = k /\ k + 1 # 0
        BY <2>2
      <4> QED BY <3>2, <4>1 DEF OfferBody
    <3>3. CASE i \in 1..k
      <4>1. i - 1 \in 0..k /\ i \in 0..k /\ i # 0
        BY <3>3
      <4>2. g[i - 1] = f[i - 1] /\ g[i] = OfferBody(m, items, t, f, i)
        BY <4>1, <2>2
      <4> QED BY <4>1, <4>2 DEF OfferBody
    <3> QED BY <3>1, <3>2, <3>3
  <2>4. g = [i \in 0..(k + 1) |-> OfferBody(m, items, t, g, i)]
    BY <2>3
  <2> HIDE DEF g
  <2>5. k + 1 \in Nat /\ \E h : h = [i \in 0..(k + 1) |-> OfferBody(m, items, t, h, i)]
    BY <2>4
  <2> QED BY <2>5
<1> HIDE DEF T
<1>3. Nat \subseteq T
    BY <1>1, <1>2, AllNaturals
<1> QED BY <1>3 DEF T

Path(m, items, t, f) ==
  /\ f[0] = m /\ \A i \in 1..Len(items) : f[i] = Offer(f[i - 1], items[i], t)
  /\ OfferAll(m, items, t) = f[Len(items)]

LEMMA OfferPath ==
  ASSUME NEW m, NEW items, Len(items) \in Nat, NEW t
  PROVE  \E f : Path(m, items, t, f)
<1> DEFINE n == Len(items)
           f == CHOOSE f : f = [i \in 0..n |-> OfferBody(m, items, t, f, i)]
<1>1. f = [i \in 0..n |-> OfferBody(m, items, t, f, i)]
    BY OffersExist
<1>2. OfferAll(m, items, t) = f[n]
    BY DEF OfferAll, OfferBody
<1> HIDE DEF f
<1>3. \A i \in 0..n : f[i] = OfferBody(m, items, t, f, i)
    BY <1>1
<1>4. f[0] = m /\ \A i \in 1..n : f[i] = Offer(f[i - 1], items[i], t)
    BY <1>3 DEF OfferBody
<1> QED BY <1>2, <1>4 DEF Path

LEMMA KeptOrders ==
  ASSUME NEW m \in Packets, NEW w \in Packets, NEW x \in Packets, Adds(m, w), Adds(w, x)
  PROVE  Adds(m, x)
BY BelowOrders DEF Adds

\* Whatever is offered: the packet grows, and stays as it is or within the target.
LEMMA OfferAllIs ==
  ASSUME Framed, NEW m \in Packets, NEW items \in Seq(Items), NEW t \in Nat
  PROVE  /\ OfferAll(m, items, t) \in Packets /\ Adds(m, OfferAll(m, items, t))
         /\ OfferAll(m, items, t) = m \/ Weight(OfferAll(m, items, t)) <= t
         /\ (\A i \in DOMAIN items : items[i].sort # "voice") => OfferAll(m, items, t).voices = m.voices
         /\ (\A i \in DOMAIN items : items[i].sort = "voice") =>
                OnlyVoices(m, OfferAll(m, items, t))
         /\ \A i \in DOMAIN items : items[i].sort = "hit" =>
                \/ items[i].what \in OfferAll(m, items, t).records
                \/ Weight([OfferAll(m, items, t) EXCEPT !.records = WithHit(@, items[i].what)]) > t
<1> DEFINE n == Len(items)
           plain == \A i \in 1..n : items[i].sort # "voice"
           voices == \A i \in 1..n : items[i].sort = "voice"
<1>0. n \in Nat /\ DOMAIN items = 1..n /\ \A i \in 1..n : items[i] \in Items
    OBVIOUS
<1>1. PICK f : Path(m, items, t, f)
    BY <1>0, OfferPath
<1>2. f[0] = m /\ OfferAll(m, items, t) = f[n] /\ \A i \in 1..n : f[i] = Offer(f[i - 1], items[i], t)
    BY <1>1 DEF Path
<1> DEFINE Good(i) == /\ f[i] \in Packets /\ Adds(m, f[i]) /\ (f[i] = m \/ Weight(f[i]) <= t)
                      /\ plain => f[i].voices = m.voices
                      /\ voices => OnlyVoices(m, f[i])
<1>3. \A i \in 0..n : Good(i)
  <2> DEFINE T == {i \in Nat : i <= n => Good(i)}
  <2>1. 0 \in T
    <3>1. m = [m EXCEPT !.voices = m.voices]
      BY DEF Packets
    <3>2. Adds(m, m)
      BY BelowOrders DEF Adds
    <3> QED BY <3>1, <3>2, <1>2 DEF OnlyVoices
  <2>2. ASSUME NEW k \in Nat, k \in T PROVE k + 1 \in T
    <3> SUFFICES ASSUME k + 1 <= n PROVE Good(k + 1)
      OBVIOUS
    <3>1. k + 1 \in 1..n /\ (k + 1) - 1 = k /\ Good(k)
      BY <1>0, <2>2
    <3> DEFINE item == items[k + 1]
               p == f[k]
               q == f[k + 1]
    <3>2. q = Offer(p, item, t) /\ p \in Packets /\ item \in Items
      BY <3>1, <1>0, <1>2
    <3>3. plain => item.sort # "voice"
      BY <3>1
    <3>4. voices => item.sort = "voice"
      BY <3>1
    <3>5. /\ Adds(m, p) /\ (p = m \/ Weight(p) <= t) /\ (plain => p.voices = m.voices)
          /\ voices => OnlyVoices(m, p)
      BY <3>1
    <3> HIDE DEF item, p, q, plain, voices
    <3>6. /\ q \in Packets /\ Adds(p, q) /\ (q = p \/ Weight(q) <= t)
          /\ item.sort # "voice" => q.voices = p.voices
          /\ item.sort = "voice" => OnlyVoices(p, q)
      <4> DEFINE o == Offer(p, item, t)
      <4>1. /\ o \in Packets /\ Adds(p, o) /\ (o = p \/ Weight(o) <= t)
            /\ item.sort # "voice" => o.voices = p.voices
            /\ item.sort = "voice" => OnlyVoices(p, o)
        <5>0. p \in Packets /\ item \in Items
          BY <3>2
        <5>1. o \in Packets /\ Adds(p, o)
          BY <5>0, OfferIs
        <5>2. o = p \/ Weight(o) <= t
          BY <5>0, OfferIs
        <5>3. item.sort # "voice" => o.voices = p.voices
          BY <5>0, OfferIs
        <5>4. item.sort = "voice" => OnlyVoices(p, o)
          BY <5>0, OfferIs
        <5> HIDE DEF o
        <5> QED BY <5>1, <5>2, <5>3, <5>4
      <4> HIDE DEF o
      <4>2. q = o
        BY <3>2 DEF o
      <4> QED BY <4>1, <4>2
    <3>7. Adds(m, q)
      BY <3>2, <3>5, <3>6, KeptOrders
    <3>8. q = m \/ Weight(q) <= t
      BY <3>5, <3>6
    <3>9. plain => q.voices = m.voices
      BY <3>3, <3>5, <3>6
    <3>10. voices => OnlyVoices(m, q)
      <4> HAVE voices
      <4>1. p = [m EXCEPT !.voices = p.voices] /\ q = [p EXCEPT !.voices = q.voices]
        BY <3>4, <3>5, <3>6 DEF OnlyVoices
      <4>2. m = [records |-> m.records, ending |-> m.ending, passages |-> m.passages,
                 summaries |-> m.summaries, voices |-> m.voices]
        BY DEF Packets
      <4>3. p = [records |-> m.records, ending |-> m.ending, passages |-> m.passages,
                 summaries |-> m.summaries, voices |-> p.voices]
        BY <4>1, <4>2
      <4>4. q = [records |-> m.records, ending |-> m.ending, passages |-> m.passages,
                 summaries |-> m.summaries, voices |-> q.voices]
        BY <4>1, <4>3
      <4> QED BY <4>2, <4>4 DEF OnlyVoices
    <3> QED BY <3>6, <3>7, <3>8, <3>9, <3>10 DEF q
  <2> HIDE DEF T, Good
  <2>3. Nat \subseteq T
    BY <2>1, <2>2, AllNaturals
  <2> QED BY <2>3, <1>0 DEF T
<1>4. \A i \in 0..n : f[i] \in Packets
    BY <1>3
<1>5. ASSUME NEW i \in 0..n PROVE Below(f[i], f[n])
  <2> DEFINE T == {k \in Nat : i + k <= n => Below(f[i], f[i + k])}
  <2>1. 0 \in T
    <3>1. i + 0 = i /\ Below(f[i], f[i])
      BY <1>4, BelowOrders
    <3> QED BY <3>1
  <2>2. ASSUME NEW k \in Nat, k \in T PROVE k + 1 \in T
    <3> SUFFICES ASSUME i + (k + 1) <= n PROVE Below(f[i], f[i + (k + 1)])
      OBVIOUS
    <3> DEFINE j == i + k
    <3>1. j + 1 \in 1..n /\ j \in 0..n /\ (j + 1) - 1 = j /\ i + (k + 1) = j + 1 /\ Below(f[i], f[j])
      BY <1>0, <2>2
    <3>2. f[j + 1] = Offer(f[j], items[j + 1], t) /\ f[j] \in Packets /\ f[j + 1] \in Packets
          /\ f[i] \in Packets /\ items[j + 1] \in Items
      BY <3>1, <1>0, <1>2, <1>4
    <3> HIDE DEF j
    <3> DEFINE item == items[j + 1]
               p == f[j]
    <3>6. p \in Packets /\ item \in Items
      BY <3>2
    <3>7. f[j + 1] = Offer(p, item, t)
      BY <3>2
    <3> HIDE DEF item, p
    <3>8. Adds(p, Offer(p, item, t))
      BY <3>6, OfferIs
    <3>3. Adds(f[j], f[j + 1])
      BY <3>7, <3>8 DEF p
    <3>4. Below(f[j], f[j + 1])
      BY <3>3 DEF Adds
    <3>5. Below(f[i], f[j + 1])
      BY <3>1, <3>2, <3>4, BelowOrders
    <3> QED BY <3>1, <3>5
  <2> HIDE DEF T
  <2>3. Nat \subseteq T
    BY <2>1, <2>2, AllNaturals
  <2>4. n - i \in Nat /\ i + (n - i) = n /\ n <= n
    BY <1>0
  <2>5. n - i \in T
    BY <2>3, <2>4
  <2>6. i + (n - i) <= n => Below(f[i], f[i + (n - i)])
    BY <2>5 DEF T
  <2> QED BY <2>4, <2>6
<1>6. ASSUME NEW i \in 1..n, items[i].sort = "hit"
      PROVE  \/ items[i].what \in f[n].records
             \/ Weight([f[n] EXCEPT !.records = WithHit(@, items[i].what)]) > t
  <2> DEFINE p == f[i - 1]
             q == f[i]
             r == f[n]
             h == items[i].what
  <2>1. i - 1 \in 0..n /\ i \in 0..n /\ n \in 0..n
    BY <1>0
  <2>2. p \in Packets /\ q \in Packets /\ r \in Packets /\ q = Offer(p, items[i], t) /\ items[i] \in Items
        /\ Below(q, r) /\ Below(p, r)
    BY <2>1, <1>0, <1>2, <1>4, <1>5
  <2>3. h \in opening.records
    BY <2>2, <1>6 DEF Items
  <2> HIDE DEF p, q, r
  <2>4. h \in q.records \/ Weight([p EXCEPT !.records = WithHit(@, h)]) > t
    BY <2>2, <1>6, OfferIs
  <2>5. CASE h \in q.records
    BY <2>2, <2>5 DEF Below, r
  <2>6. CASE Weight([p EXCEPT !.records = WithHit(@, h)]) > t
    <3> DEFINE a == [p EXCEPT !.records = WithHit(@, h)]
               b == [r EXCEPT !.records = WithHit(@, h)]
    <3>1. p.records \in SUBSET opening.records /\ r.records \in SUBSET opening.records
          /\ p.records \subseteq r.records
      BY <2>2 DEF Packets, Below
    <3>2. /\ WithHit(p.records, h) \subseteq opening.records /\ WithHit(r.records, h) \subseteq opening.records
          /\ WithHit(p.records, h) \subseteq WithHit(r.records, h)
      BY <3>1, <2>3, WithHitIs
    <3>3. a \in Packets /\ b \in Packets /\ Below(a, b)
      BY <3>2, <2>2 DEF Packets, Below
    <3> HIDE DEF a, b
    <3>4. Weight(a) \in Nat /\ Weight(b) \in Nat /\ Weight(a) <= Weight(b)
      BY <3>3, WeightGrows
    <3>5. Weight(b) > t
      BY <3>4, <2>6 DEF a
    <3> QED BY <3>5 DEF b, r
  <2> QED BY <2>4, <2>5, <2>6
<1>7. Good(n)
    BY <1>0, <1>3
<1>8. /\ f[n] \in Packets /\ Adds(m, f[n]) /\ (f[n] = m \/ Weight(f[n]) <= t)
      /\ plain => f[n].voices = m.voices
      /\ voices => OnlyVoices(m, f[n])
    BY <1>7
<1> HIDE DEF Good
<1>9. DOMAIN items = 1..n
    BY <1>0
<1> HIDE DEF n
<1> QED BY <1>2, <1>6, <1>8, <1>9

-----------------------------------------------------------------------------
(* What a request must have, and the end of the chapter.                   *)

LEMMA LeastOf ==
  ASSUME NEW S \in SUBSET Nat, S # {}
  PROVE  \E x \in S : \A y \in S : x <= y
<1>1. PICK x \in S : \A y \in S : <<y, x>> \notin OpToRel(<, Nat)
    BY NatLessThanWellFounded, WFMin
<1>2. \A y \in S : ~(y < x)
    BY <1>1 DEF OpToRel
<1> QED BY <1>2

LEMMA LeastIs ==
  ASSUME NEW S \in SUBSET Nat, S # {}
  PROVE  Min(S) \in S /\ \A x \in S : Min(S) <= x
<1>1. \E x \in S : \A y \in S : x <= y
    BY LeastOf
<1> QED BY <1>1 DEF Min

LEMMA FocalIs ==
  ASSUME Framed
  PROVE  Focal \subseteq Of("person") /\ (Of("person") \cap opening.spoken) \subseteq Focal
<1> DEFINE tasked == IF request.role \in {"chief", "writer"} THEN opening.cast ELSE {}
           named == tasked \cup opening.present \cup (Of("person") \cap opening.spoken)
           leading == {opening.ranking[i] : i \in 1..Min({2, Len(opening.ranking)})}
<1>1. Focal = IF named # {} THEN named ELSE IF request.role = "chief" THEN leading ELSE Of("person")
    BY DEF Focal
<1>2. named \subseteq Of("person")
    BY OpeningIs
<1>3. leading \subseteq Of("person")
  <2> DEFINE n == Len(opening.ranking)
  <2>1. n \in Nat /\ DOMAIN opening.ranking = 1..n
    BY OpeningIs
  <2>2. {2, n} \in SUBSET Nat /\ {2, n} # {} /\ n \in {2, n}
    BY <2>1
  <2> HIDE DEF n
  <2>3. Min({2, n}) <= n /\ Min({2, n}) \in Nat
    BY <2>2, LeastIs
  <2>4. \A i \in 1..Min({2, n}) : i \in DOMAIN opening.ranking
    BY <2>1, <2>3
  <2> QED BY <2>4, OpeningIs DEF n
<1> HIDE DEF leading
<1> QED BY <1>1, <1>2, <1>3

LEMMA RequiredIs ==
  ASSUME Framed
  PROVE  /\ Required \subseteq opening.records /\ Sound(Required)
         /\ Focal \cup opening.spoken \subseteq Required
<1> DEFINE people == Focal \cup (IF request.role = "chief" THEN Of("person") ELSE {})
           bonds == {r \in Of("bond") : opening.cites[r] \cap Focal # {}}
           talked == opening.spoken \ (Of("person") \cup Of("lore"))
           anchors == Focal \cup bonds \cup talked
           first == (Of("lore") \cap opening.spoken) \cup NamedBy(anchors)
           lore == LoreWith(first)
           all == people \cup bonds \cup talked \cup lore
<1>1. Required = AllLinked(all)
    BY DEF Required
<1>2. people \subseteq Of("person") /\ Focal \subseteq people
    BY FocalIs
<1>3. bonds \subseteq Of("bond") /\ Of("lore") \subseteq opening.records /\ Of("person") \subseteq opening.records
      /\ Of("bond") \subseteq opening.records
    BY DEF Of
<1>4. talked \subseteq opening.records /\ talked \cap Of("lore") = {}
    BY OpeningIs
<1>5. anchors \in SUBSET opening.records
    BY <1>2, <1>3, <1>4
<1>6. first \in SUBSET Of("lore")
    BY <1>5, LinksGrow
<1>7. first \subseteq lore /\ lore \subseteq Of("lore") /\ NamedBy(lore) \subseteq lore
    BY <1>6, LoreWithIs
<1>8. Of("lore") \cap Of("person") = {} /\ Of("lore") \cap Of("bond") = {}
    BY DEF Of
<1>9. all \in SUBSET opening.records /\ all \cap Of("lore") = lore
    BY <1>2, <1>3, <1>4, <1>7, <1>8
<1>10. Focal \cup opening.spoken \subseteq all
  <2>1. opening.spoken \subseteq talked \cup (Of("person") \cap opening.spoken) \cup (Of("lore") \cap opening.spoken)
    OBVIOUS
  <2>2. Of("person") \cap opening.spoken \subseteq Focal
    BY FocalIs
  <2>3. Of("lore") \cap opening.spoken \subseteq lore
    BY <1>7
  <2> QED BY <2>1, <2>2, <2>3, <1>2
<1> HIDE DEF all, lore, people, bonds, talked
<1>11. all \subseteq Required /\ Required \subseteq opening.records
    BY <1>1, <1>9, AllLinkedIs
<1>12. ASSUME NEW r \in all, r \in Of("lore") PROVE NamedBy({r}) \subseteq Required
  <2>1. r \in lore /\ lore \in SUBSET opening.records /\ lore \subseteq Required
    BY <1>3, <1>7, <1>9, <1>11, <1>12
  <2>2. NamedBy({r}) \subseteq NamedBy(lore)
    BY <2>1, LinksGrow
  <2> QED BY <2>1, <2>2, <1>7
<1>13. Sound(AllLinked(all))
    BY <1>1, <1>9, <1>12, LinkedIsSound
<1> QED BY <1>1, <1>10, <1>11, <1>13

LEMMA RequiredPacket ==
  ASSUME Framed
  PROVE  /\ RequiredMaterial \in Packets /\ EmptyPacket \in Packets
         /\ RequiredMaterial.records = Required /\ RequiredMaterial.passages = {}
         /\ RequiredMaterial.ending \in {{}, {LastParagraph}} /\ RequiredMaterial.voices = {}
         /\ (RequiredMaterial.ending # {} => LastParagraph \in Paragraphs)
<1> DEFINE last == IF request.role \in {"chief", "writer"} /\ LastParagraph > 0 THEN {LastParagraph} ELSE {}
<1>1. RequiredMaterial = [records |-> Required, ending |-> last, passages |-> {}, summaries |-> 0, voices |-> {}]
  <2>1. RequiredMaterial = [EmptyPacket EXCEPT !.records = Required, !.ending = last]
    BY DEF RequiredMaterial
  <2> HIDE DEF last
  <2> QED BY <2>1 DEF EmptyPacket
<1>2. last \in {{}, {LastParagraph}} /\ (last # {} => LastParagraph \in Paragraphs)
    BY ParagraphsAre
<1> HIDE DEF last
<1> QED BY <1>1, <1>2, RequiredIs DEF Packets, EmptyPacket

LEMMA ExtendIs ==
  ASSUME Framed, NEW m \in Packets, NEW t \in Nat,
         m.ending \in {{}, {LastParagraph}}, m.ending # {} => LastParagraph \in Paragraphs,
         m.ending \cap m.passages = {}
  PROVE  LET e == ExtendEnding(m, t, m.passages) IN
         /\ e \in Packets /\ Below(m, e) /\ (e = m \/ Weight(e) <= t)
         /\ e = [m EXCEPT !.ending = e.ending] /\ e.ending \cap e.passages = {}
         /\ \A p \in e.ending : p..LastParagraph \subseteq e.ending
<1> DEFINE reaches(i) == \A j \in i..(LastParagraph - 1) :
                            /\ j \notin m.passages
                            /\ Weight([m EXCEPT !.ending = EndingFrom(j)]) <= t
           S == {i \in Paragraphs : reaches(i)}
           e == ExtendEnding(m, t, m.passages)
<1>0. m = [records |-> m.records, ending |-> m.ending, passages |-> m.passages,
           summaries |-> m.summaries, voices |-> m.voices]
      /\ m.summaries \in Nat /\ m.passages \in SUBSET Paragraphs /\ m.records \in SUBSET opening.records
      /\ m.voices \in SUBSET opening.records
    BY DEF Packets
<1>1. e = [m EXCEPT !.ending = IF @ = {} THEN @ ELSE EndingFrom(Min(S))]
    BY DEF ExtendEnding
<1>2. CASE m.ending = {}
  <2>1. e = m
    BY <1>0, <1>1, <1>2
  <2>2. Below(m, m) /\ m = [m EXCEPT !.ending = m.ending]
    BY <1>0, BelowOrders
  <2> QED BY <2>1, <2>2, <1>2
<1>3. CASE m.ending = {LastParagraph}
  <2> DEFINE n == LastParagraph
             k == Min(S)
  <2>1. n \in Nat /\ n \in Paragraphs /\ Paragraphs = 1..n
    BY <1>3, ParagraphsAre
  <2>2. n..(n - 1) = {}
    BY <2>1
  <2>3. n \in S /\ S \in SUBSET Nat
    BY <2>1, <2>2
  <2>4. k \in S /\ k <= n
    BY <2>3, LeastIs
  <2>5. e = [m EXCEPT !.ending = k..n] /\ e.ending = k..n /\ e.passages = m.passages
    BY <1>0, <1>1, <1>3 DEF EndingFrom
  <2>6. k \in 1..n /\ reaches(k)
    BY <2>1, <2>4
  <2> HIDE DEF k, S
  <2>7. e \in Packets /\ Below(m, e)
    <3>1. k..n \subseteq Paragraphs /\ n \in k..n
      BY <2>1, <2>6
    <3>2. e = [records |-> m.records, ending |-> k..n, passages |-> m.passages,
               summaries |-> m.summaries, voices |-> m.voices]
      BY <2>5, <1>0
    <3> HIDE DEF e
    <3>3. e \in Packets
      BY <3>1, <3>2, <1>0 DEF Packets
    <3>4. Below(m, e)
      BY <3>1, <3>2, <1>0, <1>3 DEF Below
    <3> QED BY <3>3, <3>4
  <2>8. e = m \/ Weight(e) <= t
    <3>1. CASE k = n
      <4>1. k..n = {n}
        BY <3>1, <2>1
      <4> QED BY <4>1, <2>5, <1>0, <1>3
    <3>2. CASE k # n
      <4>1. k \in k..(n - 1)
        BY <3>2, <2>1, <2>6
      <4>2. Weight([m EXCEPT !.ending = EndingFrom(k)]) <= t
        BY <4>1, <2>6
      <4> QED BY <4>2, <2>5 DEF EndingFrom
    <3> QED BY <3>1, <3>2
  <2>9. (k..n) \cap m.passages = {}
    <3>1. \A j \in k..(n - 1) : j \notin m.passages
      BY <2>6
    <3>2. n \notin m.passages
      BY <1>3
    <3>3. \A j \in k..n : j = n \/ j \in k..(n - 1)
      BY <2>1, <2>6
    <3> QED BY <3>1, <3>2, <3>3
  <2>10. \A p \in k..n : p..n \subseteq k..n
    BY <2>1, <2>6
  <2>11. e = [m EXCEPT !.ending = e.ending]
    BY <2>5
  <2> HIDE DEF e
  <2> QED BY <2>5, <2>7, <2>8, <2>9, <2>10, <2>11 DEF e
<1> QED BY <1>2, <1>3

-----------------------------------------------------------------------------
(* What a lookup offers.                                                   *)

LookupOK(look) == /\ look.records \in Seq(opening.records)
                  /\ look.passages \in Seq(Paragraphs \X Paragraphs)

LEMMA SameCount ==
  ASSUME NEW a \in Nat, NEW b \in Nat, 1..a = 1..b
  PROVE  a = b
<1>1. a # 0 => a \in 1..b
    OBVIOUS
<1>2. b # 0 => b \in 1..a
    OBVIOUS
<1> QED BY <1>1, <1>2

LEMMA OffersAre ==
  ASSUME NEW D, NEW what \in Seq(D), NEW sort, [sort : {sort}, what : D] \subseteq Items
  PROVE  /\ Offers(sort, what) \in Seq(Items) /\ Len(Offers(sort, what)) = Len(what)
         /\ DOMAIN Offers(sort, what) = 1..Len(what)
         /\ \A i \in 1..Len(what) : Offers(sort, what)[i] = [sort |-> sort, what |-> what[i]]
<1>1. Len(what) \in Nat /\ DOMAIN what = 1..Len(what) /\ \A i \in 1..Len(what) : what[i] \in D
    OBVIOUS
<1>2. Offers(sort, what) = [i \in 1..Len(what) |-> [sort |-> sort, what |-> what[i]]]
    BY <1>1 DEF Offers
<1>3. \A i \in 1..Len(what) : [sort |-> sort, what |-> what[i]] \in Items
    BY <1>1
<1> HIDE DEF Items
<1>4. Offers(sort, what) \in [1..Len(what) -> Items]
    BY <1>2, <1>3
<1>5. /\ Offers(sort, what) \in Seq(Items) /\ Len(Offers(sort, what)) = Len(what)
      /\ DOMAIN Offers(sort, what) = 1..Len(what)
  <2> DEFINE n == Len(what)
             o == Offers(sort, what)
  <2>1. n \in Nat /\ o \in [1..n -> Items]
    BY <1>1, <1>4
  <2> HIDE DEF n, o
  <2>2. o \in Seq(Items)
    BY <2>1
  <2>3. DOMAIN o = 1..n
    BY <2>1
  <2>4. Len(o) = n
    <3>1. Len(o) \in Nat /\ DOMAIN o = 1..Len(o)
      BY <2>2
    <3>2. 1..Len(o) = 1..n
      BY <3>1, <2>3
    <3> QED BY <3>1, <3>2, <2>1, SameCount
  <2> QED BY <2>2, <2>3, <2>4 DEF n, o
<1>6. \A i \in 1..Len(what) : Offers(sort, what)[i] = [sort |-> sort, what |-> what[i]]
    BY <1>2
<1> QED BY <1>5, <1>6

LEMMA SummaryOffersAre ==
  ASSUME Framed, NEW m \in Packets
  PROVE  /\ SummaryOffers(m) \in Seq(Items)
         /\ \A i \in DOMAIN SummaryOffers(m) : SummaryOffers(m)[i].sort = "summary"
<1> DEFINE k == opening.summaries - m.summaries
           counts == [i \in 1..k |-> i]
<1>1. k \in Int
    BY OpeningIs DEF Packets
<1> HIDE DEF k
<1>2. counts \in Seq(Nat)
  <2>1. CASE k \in Nat
    BY <2>1
  <2>2. CASE k \notin Nat
    <3>1. 1..k = 1..0 /\ 0 \in Nat
      BY <2>2, <1>1
    <3>2. counts \in [1..0 -> Nat]
      BY <3>1
    <3> HIDE DEF counts
    <3> QED BY <3>2
  <2> QED BY <2>1, <2>2
<1>3. SummaryOffers(m) = Offers("summary", counts)
    BY DEF SummaryOffers, k
<1> HIDE DEF counts
<1>4. [sort : {"summary"}, what : Nat] \subseteq Items
    BY DEF Items
<1>5. /\ Offers("summary", counts) \in Seq(Items) /\ DOMAIN Offers("summary", counts) = 1..Len(counts) /\ Len(Offers("summary", counts)) = Len(counts)
      /\ \A i \in 1..Len(counts) : Offers("summary", counts)[i] = [sort |-> "summary", what |-> counts[i]]
    BY <1>2, <1>4, OffersAre
<1> DEFINE o == Offers("summary", counts)
<1>6. \A i \in DOMAIN o : o[i].sort = "summary"
  <2> TAKE i \in DOMAIN o
  <2>1. i \in 1..Len(counts)
    BY <1>5
  <2>2. o[i] = [sort |-> "summary", what |-> counts[i]]
    BY <2>1, <1>5
  <2> QED BY <2>2
<1> HIDE DEF o
<1> QED BY <1>3, <1>5, <1>6 DEF o

LEMMA HitOffersAre ==
  ASSUME Framed, NEW look, LookupOK(look)
  PROVE  /\ HitOffers(look) \in Seq(Items) /\ Len(HitOffers(look)) = Len(look.records)
         /\ \A i \in DOMAIN look.records :
               HitOffers(look)[i] = [sort |-> "hit", what |-> look.records[i]]
<1>1. [sort : {"hit"}, what : opening.records] \subseteq Items
    BY DEF Items
<1>2. look.records \in Seq(opening.records)
    BY DEF LookupOK
<1>3. /\ Offers("hit", look.records) \in Seq(Items)
      /\ Len(Offers("hit", look.records)) = Len(look.records)
      /\ \A i \in 1..Len(look.records) :
            Offers("hit", look.records)[i] = [sort |-> "hit", what |-> look.records[i]]
    BY <1>1, <1>2, OffersAre
<1>4. DOMAIN look.records = 1..Len(look.records)
    BY <1>2
<1> QED BY <1>3, <1>4 DEF HitOffers

LEMMA PassageOffersAre ==
  ASSUME NEW what \in Seq(SUBSET Paragraphs)
  PROVE  /\ Offers("passage", what) \in Seq(Items) /\ Len(Offers("passage", what)) = Len(what)
         /\ \A i \in DOMAIN Offers("passage", what) : Offers("passage", what)[i].sort = "passage"
<1>1. [sort : {"passage"}, what : SUBSET Paragraphs] \subseteq Items
    BY DEF Items
<1>2. /\ Offers("passage", what) \in Seq(Items) /\ DOMAIN Offers("passage", what) = 1..Len(what) /\ Len(Offers("passage", what)) = Len(what)
      /\ \A i \in 1..Len(what) : Offers("passage", what)[i] = [sort |-> "passage", what |-> what[i]]
    BY <1>1, OffersAre
<1> DEFINE o == Offers("passage", what)
<1>3. \A i \in DOMAIN o : o[i].sort = "passage"
  <2> TAKE i \in DOMAIN o
  <2>1. i \in 1..Len(what)
    BY <1>2
  <2>2. o[i] = [sort |-> "passage", what |-> what[i]]
    BY <2>1, <1>2
  <2> QED BY <2>2
<1> HIDE DEF o
<1> QED BY <1>2, <1>3 DEF o

LEMMA SetToSeqIs ==
  ASSUME NEW S, IsFiniteSet(S)
  PROVE  SetToSeq(S) \in Seq(S)
<1>1. Cardinality(S) \in Nat /\ ExistsBijection(1..Cardinality(S), S)
    BY FS_CardinalityType
<1>2. PICK f : f \in Bijection(1..Cardinality(S), S)
    BY <1>1 DEF ExistsBijection
<1>3. f \in [1..Cardinality(S) -> S] /\ IsInjective(f)
    BY <1>2 DEF Bijection, Injection, IsInjective
<1>4. SetToSeq(S) \in [1..Cardinality(S) -> S]
    BY <1>3 DEF SetToSeq
<1> QED BY <1>1, <1>4

LEMMA VoiceOffersAre ==
  ASSUME Framed, NEW m \in Packets
  PROVE  /\ VoiceOffers(m) \in Seq(Items)
         /\ \A i \in DOMAIN VoiceOffers(m) : VoiceOffers(m)[i].sort = "voice"
<1> DEFINE S == m.records \cap Of("person")
<1>1. S \in SUBSET opening.records
    BY DEF Packets
<1>2. IsFiniteSet(S)
    BY <1>1, OpeningIs, FS_Subset
<1>3. SetToSeq(S) \in Seq(S)
    BY <1>2, SetToSeqIs
<1>4. [sort : {"voice"}, what : S] \subseteq Items
    BY <1>1 DEF Items
<1>5. VoiceOffers(m) = Offers("voice", SetToSeq(S))
    BY DEF VoiceOffers
<1> HIDE DEF S
<1> DEFINE q == SetToSeq(S)
<1>7. q \in Seq(S)
    BY <1>3
<1> HIDE DEF q
<1>8. /\ Offers("voice", q) \in Seq(Items) /\ DOMAIN Offers("voice", q) = 1..Len(q) /\ Len(Offers("voice", q)) = Len(q)
      /\ \A i \in 1..Len(q) : Offers("voice", q)[i] = [sort |-> "voice", what |-> q[i]]
    BY <1>4, <1>7, OffersAre
<1> DEFINE o == Offers("voice", q)
<1>9. \A i \in DOMAIN o : o[i].sort = "voice"
  <2> TAKE i \in DOMAIN o
  <2>1. i \in 1..Len(q)
    BY <1>8
  <2>2. o[i] = [sort |-> "voice", what |-> q[i]]
    BY <2>1, <1>8
  <2> QED BY <2>2
<1> HIDE DEF o
<1> QED BY <1>5, <1>8, <1>9 DEF o, q

LEMMA SpansAre ==
  ASSUME Framed, NEW look, LookupOK(look)
  PROVE  Spans(look) \in Seq(SUBSET Paragraphs)
<1>1. look.passages \in Seq(Paragraphs \X Paragraphs)
    BY DEF LookupOK
<1> DEFINE n == Len(look.passages)
<1>2. n \in Nat /\ DOMAIN look.passages = 1..n
      /\ \A k \in 1..n : look.passages[k] \in Paragraphs \X Paragraphs
    BY <1>1
<1>3. \A k \in 1..n : look.passages[k][1]..look.passages[k][2] \in SUBSET Paragraphs
  <2> TAKE k \in 1..n
  <2>1. look.passages[k][1] \in Paragraphs /\ look.passages[k][2] \in Paragraphs
    BY <1>2
  <2> QED BY <2>1, ParagraphsAre
<1>4. Spans(look) = [k \in 1..n |-> look.passages[k][1]..look.passages[k][2]]
    BY <1>2 DEF Spans
<1> HIDE DEF n
<1> QED BY <1>2, <1>3, <1>4

-----------------------------------------------------------------------------
(* What is built in steps.                                                  *)

LEMMA Stays ==
  ASSUME NEW n \in Nat, NEW D, NEW g, g[0] \in D,
         \A i \in 1..n : g[i - 1] \in D => g[i] \in D
  PROVE  \A i \in 0..n : g[i] \in D
<1> DEFINE T == {i \in Nat : i <= n => g[i] \in D}
<1>1. 0 \in T
    OBVIOUS
<1>2. ASSUME NEW k \in Nat, k \in T PROVE k + 1 \in T
  <2>1. (k + 1) - 1 = k /\ (k + 1 <= n => k + 1 \in 1..n)
    OBVIOUS
  <2> QED BY <1>2, <2>1
<1> HIDE DEF T
<1>3. Nat \subseteq T
    BY <1>1, <1>2, AllNaturals
<1> QED BY <1>3 DEF T

Iterated(n, D, a, F, h) ==
  h \in [0..n -> D] /\ h[0] = a /\ \A i \in 1..n : h[i] = F[i][h[i - 1]]

LEMMA Iterates ==
  ASSUME NEW n \in Nat, NEW D, NEW a \in D, NEW F \in [1..n -> [D -> D]]
  PROVE  \E h : Iterated(n, D, a, F, h)
<1> DEFINE Good(k, h) == h[0] = a /\ \A i \in 1..k : h[i] = F[i][h[i - 1]]
           T == {k \in Nat : k <= n => \E h \in [0..k -> D] : Good(k, h)}
<1>1. 0 \in T
  <2>1. [i \in 0..0 |-> a] \in [0..0 -> D] /\ Good(0, [i \in 0..0 |-> a])
    OBVIOUS
  <2> QED BY <2>1
<1>2. ASSUME NEW k \in Nat, k \in T PROVE k + 1 \in T
  <2>1. CASE k + 1 > n
    BY <2>1
  <2>2. CASE k + 1 <= n
    <3>1. PICK h \in [0..k -> D] : Good(k, h)
      BY <1>2, <2>2
    <3> DEFINE g == [i \in 0..(k + 1) |-> IF i = k + 1 THEN F[k + 1][h[k]] ELSE h[i]]
    <3>2. F[k + 1][h[k]] \in D
      BY <2>2
    <3>3. g \in [0..(k + 1) -> D] /\ g[k + 1] = F[k + 1][h[k]] /\ \A i \in 0..k : g[i] = h[i]
      BY <3>2
    <3> HIDE DEF g
    <3>4. g[0] = a
      BY <3>1, <3>3
    <3>5. \A i \in 1..(k + 1) : g[i] = F[i][g[i - 1]]
      <4> TAKE i \in 1..(k + 1)
      <4>1. CASE i = k + 1
        <5>1. i - 1 = k /\ g[k] = h[k]
          BY <4>1, <3>3
        <5> QED BY <4>1, <5>1, <3>3
      <4>2. CASE i # k + 1
        <5>1. i \in 1..k /\ i - 1 \in 0..k /\ i \in 0..k
          BY <4>2
        <5>2. g[i] = h[i] /\ g[i - 1] = h[i - 1] /\ h[i] = F[i][h[i - 1]]
          BY <5>1, <3>1, <3>3
        <5> QED BY <5>2
      <4> QED BY <4>1, <4>2
    <3>6. Good(k + 1, g)
      BY <3>4, <3>5
    <3> HIDE DEF Good
    <3> QED BY <3>3, <3>6
  <2> QED BY <2>1, <2>2
<1> HIDE DEF T
<1>3. Nat \subseteq T
    BY <1>1, <1>2, AllNaturals
<1> QED BY <1>3 DEF T, Iterated

Quotes == {{p} : p \in Paragraphs}

LEMMA OneByOneIs ==
  ASSUME Framed, NEW span \in Paragraphs \X Paragraphs
  PROVE  OneByOne(span) \in Seq(Quotes)
<1> DEFINE k == span[2] - span[1] + 1
<1>1. /\ span[1] \in 1..LastParagraph /\ span[2] \in 1..LastParagraph /\ LastParagraph \in Nat
      /\ Paragraphs = 1..LastParagraph
    BY ParagraphsAre
<1>2. k \in Int /\ \A j \in 1..k : span[1] + j - 1 \in Paragraphs
    BY <1>1
<1>3. \A j \in 1..k : {span[1] + j - 1} \in Quotes
    BY <1>2 DEF Quotes
<1>4. OneByOne(span) = [j \in 1..k |-> {span[1] + j - 1}]
    BY DEF OneByOne
<1> DEFINE s == OneByOne(span)
<1>5. s \in [1..k -> Quotes]
    BY <1>3, <1>4
<1> HIDE DEF s, k
<1>6. CASE k \in Nat
    BY <1>5, <1>6 DEF s
<1>7. CASE k \notin Nat
  <2>1. 1..k = 1..0 /\ 0 \in Nat
    BY <1>7, <1>2
  <2>2. s \in [1..0 -> Quotes]
    BY <2>1, <1>5
  <2> QED BY <2>2 DEF s
<1> QED BY <1>6, <1>7

LEMMA SinglesAre ==
  ASSUME Framed, NEW look, LookupOK(look)
  PROVE  Singles(look) \in Seq(Quotes)
<1> DEFINE n == Len(look.passages)
           D == Seq(Quotes)
           F == [k \in 1..n |-> [s \in D |-> s \o OneByOne(look.passages[k])]]
           Body(f) == [k \in 0..n |-> IF k = 0 THEN <<>> ELSE f[k - 1] \o OneByOne(look.passages[k])]
<1>1. n \in Nat /\ \A k \in 1..n : look.passages[k] \in Paragraphs \X Paragraphs
    BY DEF LookupOK
<1>2. \A k \in 1..n : OneByOne(look.passages[k]) \in D
    BY <1>1, OneByOneIs
<1>3. \A s, w \in D : s \o w \in D
    OBVIOUS
<1>4. <<>> \in D
    OBVIOUS
<1> HIDE DEF D
<1>5. F \in [1..n -> [D -> D]] /\ \A k \in 1..n : \A s \in D : F[k][s] = s \o OneByOne(look.passages[k])
    BY <1>2, <1>3
<1> HIDE DEF n, F
<1>6. PICK h \in [0..n -> D] : h[0] = <<>> /\ \A i \in 1..n : h[i] = F[i][h[i - 1]]
  <2>1. n \in Nat /\ <<>> \in D /\ F \in [1..n -> [D -> D]]
    BY <1>1, <1>4, <1>5
  <2>2. \E h : Iterated(n, D, <<>>, F, h)
    BY <2>1, Iterates
  <2> QED BY <2>2 DEF Iterated
<1>7. \A i \in 0..n : h[i] = IF i = 0 THEN <<>> ELSE h[i - 1] \o OneByOne(look.passages[i])
  <2> TAKE i \in 0..n
  <2>1. CASE i = 0
    BY <2>1, <1>6
  <2>2. CASE i # 0
    <3>1. i \in 1..n /\ i - 1 \in 0..n
      BY <2>2, <1>1
    <3>2. h[i - 1] \in D
      BY <3>1
    <3> QED BY <3>1, <3>2, <2>2, <1>5, <1>6
  <2> QED BY <2>1, <2>2
<1>8. \E f : f = Body(f)
  <2>1. h = Body(h)
    BY <1>7
  <2> HIDE DEF Body
  <2> QED BY <2>1
<1> DEFINE f == CHOOSE f : f = Body(f)
<1>9. f = Body(f)
    BY <1>8
<1>10. Singles(look) = f[n]
    BY DEF Singles, n
<1> HIDE DEF f
<1>11. f[0] = <<>> /\ \A i \in 1..n : f[i] = f[i - 1] \o OneByOne(look.passages[i])
  <2>1. \A i \in 0..n : f[i] = IF i = 0 THEN <<>> ELSE f[i - 1] \o OneByOne(look.passages[i])
    BY <1>9
  <2>2. 0 \in 0..n /\ \A i \in 1..n : i \in 0..n /\ i # 0
    BY <1>1
  <2>3. f[0] = <<>>
    BY <2>1, <2>2
  <2>4. ASSUME NEW i \in 1..n PROVE f[i] = f[i - 1] \o OneByOne(look.passages[i])
    <3>1. i \in 0..n /\ i # 0
      BY <2>2
    <3> QED BY <2>1, <3>1
  <2> QED BY <2>3, <2>4
<1>12. \A i \in 0..n : f[i] \in D
  <2>1. f[0] \in D
    BY <1>4, <1>11
  <2>2. \A i \in 1..n : f[i - 1] \in D => f[i] \in D
    BY <1>2, <1>3, <1>11
  <2> QED BY <2>1, <2>2, <1>1, Stays
<1> QED BY <1>1, <1>10, <1>12 DEF D

LEMMA FirstQuoteIs ==
  ASSUME Framed, NEW look, LookupOK(look)
  PROVE  FirstQuote(look) \subseteq Paragraphs /\ LastParagraph \notin FirstQuote(look)
<1> DEFINE s == Singles(look)
           quotes == {k \in DOMAIN s : s[k] # {LastParagraph}}
<1>1. FirstQuote(look) = IF quotes = {} THEN {} ELSE s[Min(quotes)]
    BY DEF FirstQuote
<1>2. s \in Seq(Quotes)
    BY SinglesAre
<1> HIDE DEF s
<1>3. quotes \in SUBSET Nat /\ \A k \in quotes : s[k] \in Quotes
    BY <1>2
<1>4. quotes # {} => Min(quotes) \in quotes
    BY <1>3, LeastIs
<1>5. quotes # {} => s[Min(quotes)] \in Quotes /\ s[Min(quotes)] # {LastParagraph}
    BY <1>3, <1>4
<1> HIDE DEF quotes
<1>6. CASE quotes # {}
  <2>1. PICK p \in Paragraphs : s[Min(quotes)] = {p}
    BY <1>5, <1>6 DEF Quotes
  <2> QED BY <2>1, <1>1, <1>5, <1>6
<1> QED BY <1>1, <1>6

-----------------------------------------------------------------------------
(* What is chosen.                                                         *)

Bare(look) ==
  IF request.role = "chief" /\ request.policy = "chief-focus-v4"
  THEN [RequiredMaterial EXCEPT !.summaries = Min({1, opening.summaries}), !.passages = FirstQuote(look)]
  ELSE RequiredMaterial

BareSpare(m, hit) == Weight([m EXCEPT !.records = WithHit(@, hit), !.voices = {}])

Chosen(m, bare, t, look) ==
  /\ m \in Packets /\ Below(bare, m) /\ (m = bare \/ Weight(m) <= t)
  /\ Sound(m.records) /\ m.ending \cap m.passages = {}
  /\ \A p \in m.ending : p..LastParagraph \subseteq m.ending
  /\ \A i \in DOMAIN look.records :
        look.records[i] \in m.records \/ BareSpare(m, look.records[i]) > t

LEMMA Joined ==
  ASSUME NEW D, NEW a \in Seq(D), NEW b \in Seq(D)
  PROVE  /\ a \o b \in Seq(D) /\ Len(a \o b) = Len(a) + Len(b)
         /\ \A i \in DOMAIN a : i \in DOMAIN (a \o b) /\ (a \o b)[i] = a[i]
         /\ \A i \in DOMAIN b : Len(a) + i \in DOMAIN (a \o b) /\ (a \o b)[Len(a) + i] = b[i]
         /\ \A j \in DOMAIN (a \o b) : \/ j \in DOMAIN a /\ (a \o b)[j] = a[j]
                                       \/ \E i \in DOMAIN b : (a \o b)[j] = b[i]
<1>1. a \o b \in Seq(D) /\ Len(a \o b) = Len(a) + Len(b)
    OBVIOUS
<1>2. Len(a) \in Nat /\ Len(b) \in Nat /\ DOMAIN a = 1..Len(a) /\ DOMAIN b = 1..Len(b)
      /\ DOMAIN (a \o b) = 1..(Len(a) + Len(b))
    BY <1>1
<1>3. \A i \in DOMAIN a : i \in DOMAIN (a \o b) /\ (a \o b)[i] = a[i]
    BY <1>2
<1>4. \A i \in DOMAIN b : Len(a) + i \in DOMAIN (a \o b) /\ (a \o b)[Len(a) + i] = b[i]
    BY <1>2
<1>5. ASSUME NEW j \in DOMAIN (a \o b)
      PROVE  \/ j \in DOMAIN a /\ (a \o b)[j] = a[j]
             \/ \E i \in DOMAIN b : (a \o b)[j] = b[i]
  <2>1. CASE j <= Len(a)
    BY <2>1, <1>2, <1>3
  <2>2. CASE j > Len(a)
    <3>1. j - Len(a) \in DOMAIN b /\ Len(a) + (j - Len(a)) = j
      BY <2>2, <1>2
    <3>2. (a \o b)[j] = b[j - Len(a)]
      BY <3>1, <1>4
    <3> QED BY <3>1, <3>2
  <2> QED BY <2>1, <2>2, <1>2
<1> QED BY <1>1, <1>3, <1>4, <1>5

Silent(items) == \A i \in DOMAIN items : items[i].sort # "voice"

LEMMA SilentJoin ==
  ASSUME NEW D, NEW a \in Seq(D), NEW b \in Seq(D), Silent(a), Silent(b)
  PROVE  Silent(a \o b)
<1>1. \A j \in DOMAIN (a \o b) : \/ j \in DOMAIN a /\ (a \o b)[j] = a[j]
                                 \/ \E i \in DOMAIN b : (a \o b)[j] = b[i]
    BY Joined
<1> QED BY <1>1 DEF Silent

LEMMA HistoryOffers ==
  ASSUME Framed, NEW m \in Packets, NEW what \in Seq(SUBSET Paragraphs)
  PROVE  /\ SummaryOffers(m) \o Offers("passage", what) \in Seq(Items)
         /\ Silent(SummaryOffers(m) \o Offers("passage", what))
<1>1. SummaryOffers(m) \in Seq(Items) /\ Silent(SummaryOffers(m))
    BY SummaryOffersAre DEF Silent
<1>2. Offers("passage", what) \in Seq(Items) /\ Silent(Offers("passage", what))
    BY PassageOffersAre DEF Silent
<1>3. Silent(SummaryOffers(m) \o Offers("passage", what))
    BY <1>1, <1>2, SilentJoin
<1>4. SummaryOffers(m) \o Offers("passage", what) \in Seq(Items)
    BY <1>1, <1>2
<1> QED BY <1>3, <1>4

LEMMA HitsSilent ==
  ASSUME Framed, NEW look, LookupOK(look)
  PROVE  /\ Silent(HitOffers(look)) /\ HitOffers(look) \in Seq(Items)
         /\ DOMAIN HitOffers(look) = DOMAIN look.records
<1>1. /\ HitOffers(look) \in Seq(Items) /\ Len(HitOffers(look)) = Len(look.records)
      /\ look.records \in Seq(opening.records)
      /\ \A i \in DOMAIN look.records :
             HitOffers(look)[i] = [sort |-> "hit", what |-> look.records[i]]
    BY HitOffersAre DEF LookupOK
<1>2. DOMAIN HitOffers(look) = 1..Len(HitOffers(look)) /\ DOMAIN look.records = 1..Len(look.records)
    BY <1>1
<1>3. DOMAIN HitOffers(look) = DOMAIN look.records
    BY <1>1, <1>2
<1>4. ASSUME NEW i \in DOMAIN HitOffers(look) PROVE HitOffers(look)[i].sort # "voice"
  <2>1. HitOffers(look)[i] = [sort |-> "hit", what |-> look.records[i]]
    BY <1>1, <1>3
  <2> QED BY <2>1
<1> QED BY <1>1, <1>3, <1>4 DEF Silent

\* Hits at the end of what is offered to a packet without voices.
LEMMA HitsOffered ==
  ASSUME Framed, NEW m \in Packets, NEW look, LookupOK(look), NEW before \in Seq(Items),
         Silent(before), m.voices = {}, NEW t \in Nat
  PROVE  LET w == OfferAll(m, before \o HitOffers(look), t) IN
         /\ w \in Packets /\ Adds(m, w) /\ (w = m \/ Weight(w) <= t) /\ w.voices = {}
         /\ \A i \in DOMAIN look.records :
               look.records[i] \in w.records \/ BareSpare(w, look.records[i]) > t
<1> DEFINE items == before \o HitOffers(look)
           w == OfferAll(m, items, t)
<1>1. HitOffers(look) \in Seq(Items) /\ Silent(HitOffers(look)) /\ DOMAIN HitOffers(look) = DOMAIN look.records
      /\ \A i \in DOMAIN look.records :
             HitOffers(look)[i] = [sort |-> "hit", what |-> look.records[i]]
    BY HitsSilent, HitOffersAre
<1>2. items \in Seq(Items) /\ Silent(items)
    BY <1>1, Joined, SilentJoin
<1>3. \A i \in DOMAIN look.records : Len(before) + i \in DOMAIN items
          /\ items[Len(before) + i] = HitOffers(look)[i]
    BY <1>1, Joined
<1> HIDE DEF items
<1>4. /\ w \in Packets /\ Adds(m, w) /\ (w = m \/ Weight(w) <= t)
      /\ (\A i \in DOMAIN items : items[i].sort # "voice") => w.voices = m.voices
      /\ \A i \in DOMAIN items : items[i].sort = "hit" =>
            \/ items[i].what \in w.records
            \/ Weight([w EXCEPT !.records = WithHit(@, items[i].what)]) > t
    BY <1>2, OfferAllIs
<1>5. w.voices = {}
    BY <1>2, <1>4 DEF Silent
<1>6. ASSUME NEW i \in DOMAIN look.records
      PROVE  look.records[i] \in w.records \/ BareSpare(w, look.records[i]) > t
  <2> DEFINE j == Len(before) + i
  <2>1. j \in DOMAIN items /\ items[j] = [sort |-> "hit", what |-> look.records[i]]
    BY <1>1, <1>3
  <2> HIDE DEF j, w
  <2>2. items[j].sort = "hit" /\ items[j].what = look.records[i]
    BY <2>1
  <2>3. look.records[i] \in w.records \/ Weight([w EXCEPT !.records = WithHit(@, look.records[i])]) > t
    BY <2>1, <2>2, <1>4
  <2>4. [w EXCEPT !.records = WithHit(@, look.records[i])]
        = [w EXCEPT !.records = WithHit(@, look.records[i]), !.voices = {}]
    BY <1>4, <1>5 DEF Packets
  <2> QED BY <2>3, <2>4 DEF BareSpare
<1> QED BY <1>4, <1>5, <1>6 DEF items

LEMMA KeyIs ==
  ASSUME Framed, NEW look, LookupOK(look), NEW t \in Nat
  PROVE  Chosen(KeyMaterial(t, look), RequiredMaterial, t, look)
<1> DEFINE bare == RequiredMaterial
           e == ExtendEnding(bare, t, bare.passages)
           before == SummaryOffers(e) \o Offers("passage", Spans(look))
           w == OfferAll(e, before \o HitOffers(look), t)
<1>1. /\ bare \in Packets /\ bare.records = Required /\ bare.passages = {} /\ bare.voices = {}
      /\ bare.ending \in {{}, {LastParagraph}} /\ (bare.ending # {} => LastParagraph \in Paragraphs)
    BY RequiredPacket
<1>2. e = ExtendEnding(bare, t, {}) /\ bare.ending \cap bare.passages = {}
    BY <1>1
<1> HIDE DEF bare
<1>3. /\ e \in Packets /\ Below(bare, e) /\ (e = bare \/ Weight(e) <= t)
      /\ e = [bare EXCEPT !.ending = e.ending] /\ e.ending \cap e.passages = {}
      /\ \A p \in e.ending : p..LastParagraph \subseteq e.ending
  <2>1. /\ bare \in Packets /\ bare.ending \in {{}, {LastParagraph}} /\ bare.ending \cap bare.passages = {}
        /\ (bare.ending # {} => LastParagraph \in Paragraphs)
    BY <1>1
  <2> QED BY <2>1, ExtendIs
<1>4. w = KeyMaterial(t, look)
  <2>1. before \o HitOffers(look)
          = SummaryOffers(e) \o Offers("passage", Spans(look)) \o HitOffers(look)
    OBVIOUS
  <2> QED BY <2>1, <1>2 DEF KeyMaterial, bare
<1> HIDE DEF e
<1>5. e.records = Required /\ e.voices = {}
  <2>1. [bare EXCEPT !.ending = e.ending].records = bare.records
        /\ [bare EXCEPT !.ending = e.ending].voices = bare.voices
    BY <1>1 DEF Packets
  <2> QED BY <2>1, <1>1, <1>3
<1>6. before \in Seq(Items) /\ Silent(before)
    BY <1>3, SpansAre, HistoryOffers
<1> HIDE DEF before
<1>7. /\ w \in Packets /\ Adds(e, w) /\ (w = e \/ Weight(w) <= t) /\ w.voices = {}
      /\ \A i \in DOMAIN look.records :
            look.records[i] \in w.records \/ BareSpare(w, look.records[i]) > t
    BY <1>3, <1>5, <1>6, HitsOffered
<1> HIDE DEF w
<1>8. Sound(e.records)
    BY <1>5, RequiredIs
<1>9. /\ Below(e, w) /\ w.ending = e.ending /\ Sound(w.records) /\ w.ending \cap w.passages = {}
    BY <1>3, <1>7, <1>8 DEF Adds
<1>10. Below(bare, w) /\ (w = bare \/ Weight(w) <= t)
    BY <1>1, <1>3, <1>7, <1>9, BelowOrders
<1> QED BY <1>3, <1>4, <1>7, <1>9, <1>10 DEF Chosen, bare

LEMMA ChiefIs ==
  ASSUME Framed, NEW look, LookupOK(look), NEW t \in Nat,
         request.role = "chief", request.policy = "chief-focus-v4"
  PROVE  Chosen(ChiefMaterial(t, look), Bare(look), t, look)
<1> DEFINE bare == [RequiredMaterial EXCEPT !.summaries = Min({1, opening.summaries}),
                                            !.passages = FirstQuote(look)]
           before == SummaryOffers(bare) \o Offers("passage", Singles(look))
           quoted == OfferAll(bare, before, t)
           e == ExtendEnding(quoted, t, quoted.passages)
           told == OfferAll(e, HitOffers(look), t)
           w == OfferAll(told, VoiceOffers(told), t)
<1>1. bare = Bare(look) /\ w = ChiefMaterial(t, look)
    BY DEF Bare, ChiefMaterial
<1>2. /\ bare \in Packets /\ bare.records = Required /\ bare.voices = {}
      /\ bare.ending \in {{}, {LastParagraph}} /\ (bare.ending # {} => LastParagraph \in Paragraphs)
      /\ bare.ending \cap bare.passages = {}
  <2>1. Min({1, opening.summaries}) \in Nat
    <3>1. {1, opening.summaries} \in SUBSET Nat /\ {1, opening.summaries} # {}
      BY OpeningIs
    <3> HIDE DEF bare
    <3> QED BY <3>1, LeastIs
  <2>2. FirstQuote(look) \subseteq Paragraphs /\ LastParagraph \notin FirstQuote(look)
    BY FirstQuoteIs
  <2> QED BY <2>1, <2>2, RequiredPacket DEF Packets
<1> HIDE DEF bare
<1>3. before \in Seq(Items) /\ Silent(before)
  <2>1. Singles(look) \in Seq(SUBSET Paragraphs)
    <3>1. Singles(look) \in Seq(Quotes) /\ Quotes \subseteq SUBSET Paragraphs
      BY SinglesAre DEF Quotes
    <3> QED BY <3>1
  <2> QED BY <1>2, <2>1, HistoryOffers
<1> HIDE DEF before
<1>4. /\ quoted \in Packets /\ Adds(bare, quoted) /\ (quoted = bare \/ Weight(quoted) <= t)
      /\ quoted.voices = {}
  <2>1. quoted.voices = bare.voices
    BY <1>2, <1>3, OfferAllIs DEF Silent
  <2> QED BY <1>2, <1>3, <2>1, OfferAllIs
<1> HIDE DEF quoted
<1>5. Sound(bare.records)
    BY <1>2, RequiredIs
<1>6. /\ Below(bare, quoted) /\ quoted.ending = bare.ending
      /\ Sound(quoted.records) /\ quoted.ending \cap quoted.passages = {}
    BY <1>2, <1>4, <1>5 DEF Adds
<1>7. /\ e \in Packets /\ Below(quoted, e) /\ (e = quoted \/ Weight(e) <= t)
      /\ e = [quoted EXCEPT !.ending = e.ending] /\ e.ending \cap e.passages = {}
      /\ \A p \in e.ending : p..LastParagraph \subseteq e.ending
    BY <1>2, <1>4, <1>6, ExtendIs
<1> HIDE DEF e
<1>8. e.records = quoted.records /\ e.voices = {}
  <2>1. [quoted EXCEPT !.ending = e.ending].records = quoted.records
        /\ [quoted EXCEPT !.ending = e.ending].voices = quoted.voices
    BY <1>4 DEF Packets
  <2> QED BY <2>1, <1>4, <1>7
<1>9. /\ told \in Packets /\ Adds(e, told) /\ (told = e \/ Weight(told) <= t) /\ told.voices = {}
      /\ \A i \in DOMAIN look.records :
            look.records[i] \in told.records \/ BareSpare(told, look.records[i]) > t
  <2>1. <<>> \in Seq(Items) /\ Silent(<<>>)
    BY DEF Silent
  <2>2. HitOffers(look) \in Seq(Items)
    BY HitsSilent
  <2>3. <<>> \o HitOffers(look) = HitOffers(look)
    BY <2>2
  <2> DEFINE none == <<>>
             v == OfferAll(e, none \o HitOffers(look), t)
  <2>4. v = told
    BY <2>3
  <2>5. none \in Seq(Items) /\ Silent(none)
    BY <2>1
  <2> HIDE DEF none, told
  <2>6. /\ v \in Packets /\ Adds(e, v) /\ (v = e \/ Weight(v) <= t) /\ v.voices = {}
        /\ \A i \in DOMAIN look.records :
              look.records[i] \in v.records \/ BareSpare(v, look.records[i]) > t
    BY <1>7, <1>8, <2>5, HitsOffered
  <2> QED BY <2>4, <2>6
<1> HIDE DEF told
<1>10. /\ Below(e, told) /\ told.ending = e.ending /\ Sound(told.records) /\ told.ending \cap told.passages = {}
    BY <1>6, <1>7, <1>8, <1>9 DEF Adds
<1>11. /\ w \in Packets /\ Adds(told, w) /\ (w = told \/ Weight(w) <= t) /\ OnlyVoices(told, w)
  <2>1. VoiceOffers(told) \in Seq(Items)
        /\ \A i \in DOMAIN VoiceOffers(told) : VoiceOffers(told)[i].sort = "voice"
    BY <1>9, VoiceOffersAre
  <2> QED BY <1>9, <2>1, OfferAllIs
<1> HIDE DEF w
<1>12. /\ Below(told, w) /\ w.ending = told.ending /\ Sound(w.records) /\ w.ending \cap w.passages = {}
    BY <1>10, <1>11 DEF Adds
<1>13. w.records = told.records /\ \A hit : BareSpare(w, hit) = BareSpare(told, hit)
  <2>1. w = [told EXCEPT !.voices = w.voices]
    BY <1>11 DEF OnlyVoices
  <2>2. w.records = told.records
    BY <2>1, <1>9 DEF Packets
  <2>3. ASSUME NEW hit PROVE BareSpare(w, hit) = BareSpare(told, hit)
    <3>1. [w EXCEPT !.records = WithHit(@, hit), !.voices = {}]
          = [told EXCEPT !.records = WithHit(@, hit), !.voices = {}]
      BY <2>1, <1>9 DEF Packets
    <3> QED BY <3>1 DEF BareSpare
  <2> QED BY <2>2, <2>3
<1>14. Below(bare, w)
  <2>1. Below(bare, e)
    BY <1>2, <1>4, <1>6, <1>7, BelowOrders
  <2>2. Below(bare, told)
    BY <2>1, <1>2, <1>7, <1>9, <1>10, BelowOrders
  <2> QED BY <2>2, <1>2, <1>9, <1>11, <1>12, BelowOrders
<1>15. w = bare \/ Weight(w) <= t
    BY <1>4, <1>7, <1>9, <1>11
<1>16. \A p \in w.ending : p..LastParagraph \subseteq w.ending
    BY <1>7, <1>10, <1>12
<1>17. \A i \in DOMAIN look.records :
          look.records[i] \in w.records \/ BareSpare(w, look.records[i]) > t
    BY <1>9, <1>13
<1> QED BY <1>1, <1>11, <1>12, <1>14, <1>15, <1>16, <1>17 DEF Chosen

-----------------------------------------------------------------------------
(* The older policy.                                                       *)

LEMMA RoomIs ==
  ASSUME NEW start \in SUBSET opening.records, NEW optional \in Seq(opening.records), NEW limit
  PROVE  /\ start \subseteq TakeWhileRoom(start, optional, limit)
         /\ TakeWhileRoom(start, optional, limit) \subseteq opening.records
<1> DEFINE n == Len(optional)
           D == {T \in SUBSET opening.records : start \subseteq T}
           F == [k \in 1..n |-> [S \in D |-> RoomFor(S, optional[k], limit)]]
           Body(f) == [k \in 0..n |-> IF k = 0 THEN start ELSE RoomFor(f[k - 1], optional[k], limit)]
<1>1. n \in Nat /\ \A k \in 1..n : optional[k] \in opening.records
    OBVIOUS
<1>2. \A k \in 1..n : \A S \in D : RoomFor(S, optional[k], limit) \in D
    BY <1>1 DEF RoomFor
<1>3. start \in D
    OBVIOUS
<1>4. D \subseteq {T \in SUBSET opening.records : start \subseteq T}
    OBVIOUS
<1> HIDE DEF D
<1>5. F \in [1..n -> [D -> D]] /\ \A k \in 1..n : \A S \in D : F[k][S] = RoomFor(S, optional[k], limit)
    BY <1>2
<1> HIDE DEF n, F
<1>6. PICK h : Iterated(n, D, start, F, h)
    BY <1>1, <1>3, <1>5, Iterates
<1>7. \A i \in 0..n : h[i] = IF i = 0 THEN start ELSE RoomFor(h[i - 1], optional[i], limit)
  <2> TAKE i \in 0..n
  <2>0. h \in [0..n -> D] /\ h[0] = start /\ \A j \in 1..n : h[j] = F[j][h[j - 1]]
    BY <1>6 DEF Iterated
  <2>1. CASE i = 0
    BY <2>1, <2>0
  <2>2. CASE i # 0
    <3>1. i \in 1..n /\ i - 1 \in 0..n
      BY <2>2, <1>1
    <3>2. h[i - 1] \in D
      BY <3>1, <2>0
    <3> QED BY <3>1, <3>2, <2>2, <1>5, <2>0
  <2> QED BY <2>1, <2>2
<1>8. \E f : f = Body(f)
  <2>1. h \in [0..n -> D]
    BY <1>6 DEF Iterated
  <2>2. h = Body(h)
    BY <1>7, <2>1
  <2> HIDE DEF Body
  <2> QED BY <2>2
<1> DEFINE f == CHOOSE f : f = Body(f)
<1>9. f = Body(f)
    BY <1>8
<1>10. TakeWhileRoom(start, optional, limit) = f[n]
    BY DEF TakeWhileRoom, n
<1> HIDE DEF f
<1>11. \A i \in 0..n : f[i] = IF i = 0 THEN start ELSE RoomFor(f[i - 1], optional[i], limit)
    BY <1>9
<1>12. \A i \in 0..n : f[i] \in D
  <2>1. f[0] \in D
    BY <1>1, <1>3, <1>11
  <2>2. ASSUME NEW i \in 1..n, f[i - 1] \in D PROVE f[i] \in D
    <3>1. i \in 0..n /\ i # 0
      BY <1>1
    <3>2. f[i] = RoomFor(f[i - 1], optional[i], limit)
      BY <3>1, <1>11
    <3> QED BY <3>2, <2>2, <1>2
  <2> QED BY <2>1, <2>2, <1>1, Stays
<1> QED BY <1>1, <1>4, <1>10, <1>12

LoreAbove(S) == {T \in SUBSET Of("lore") : S \subseteq T /\ NamedBy(T) \subseteq T}

LEMMA RagLoreIs ==
  ASSUME Framed, NEW R \in SUBSET opening.records
  PROVE  /\ RagLore(R) \in SUBSET Of("lore") /\ NamedBy(RagLore(R)) \subseteq RagLore(R)
         /\ (Of("lore") \cap opening.spoken) \subseteq RagLore(R) /\ NamedBy(R) \subseteq RagLore(R)
<1>1. ((Of("lore") \cap opening.spoken) \cup NamedBy(R)) \in SUBSET Of("lore")
    BY DEF NamedBy
<1> QED BY <1>1, LoreWithIs DEF RagLore

LEMMA LoreRoomIs ==
  ASSUME Framed, NEW start, NEW S \in LoreAbove(start), NEW l, NEW limit
  PROVE  LoreRoomFor(S, l, limit) \in LoreAbove(start)
<1>1. CASE l \in Of("lore")
  <2>1. (S \cup {l}) \in SUBSET Of("lore") /\ start \subseteq S
    BY <1>1 DEF LoreAbove
  <2>2. /\ S \cup {l} \subseteq LoreWith(S \cup {l}) /\ LoreWith(S \cup {l}) \subseteq Of("lore")
        /\ NamedBy(LoreWith(S \cup {l})) \subseteq LoreWith(S \cup {l})
    BY <2>1, LoreWithIs
  <2>3. LoreWith(S \cup {l}) \in LoreAbove(start)
    BY <2>1, <2>2 DEF LoreAbove
  <2> QED BY <2>3 DEF LoreRoomFor
<1>2. CASE l \notin Of("lore")
    BY <1>2 DEF LoreRoomFor
<1> QED BY <1>1, <1>2

LEMMA RagWithLoreIs ==
  ASSUME Framed, NEW look, LookupOK(look), NEW R \in SUBSET opening.records
  PROVE  RagWithLore(look, R) \in LoreAbove(RagLore(R))
<1> DEFINE n == Len(look.records)
           start == RagLore(R)
           limit == inputLimit \div 4
           D == LoreAbove(start)
           F == [k \in 1..n |-> [S \in D |-> LoreRoomFor(S, look.records[k], limit)]]
           Body(f) == [k \in 0..n |-> IF k = 0 THEN start ELSE LoreRoomFor(f[k - 1], look.records[k], limit)]
<1>1. n \in Nat
    BY DEF LookupOK
<1>3. start \in D
    BY RagLoreIs DEF LoreAbove
<1>4. RagWithLore(look, R) = (CHOOSE f : f = Body(f))[n]
    BY DEF RagWithLore
<1> HIDE DEF start, limit
<1>2. \A k \in 1..n : \A S \in D : LoreRoomFor(S, look.records[k], limit) \in D
    BY LoreRoomIs
<1> HIDE DEF D
<1>5. F \in [1..n -> [D -> D]]
      /\ \A k \in 1..n : \A S \in D : F[k][S] = LoreRoomFor(S, look.records[k], limit)
    BY <1>2
<1> HIDE DEF n, F
<1>6. PICK h : Iterated(n, D, start, F, h)
    BY <1>1, <1>3, <1>5, Iterates
<1>7. \A i \in 0..n : h[i] = IF i = 0 THEN start ELSE LoreRoomFor(h[i - 1], look.records[i], limit)
  <2> TAKE i \in 0..n
  <2>0. h \in [0..n -> D] /\ h[0] = start /\ \A j \in 1..n : h[j] = F[j][h[j - 1]]
    BY <1>6 DEF Iterated
  <2>1. CASE i = 0
    BY <2>1, <2>0
  <2>2. CASE i # 0
    <3>1. i \in 1..n /\ i - 1 \in 0..n
      BY <2>2, <1>1
    <3>2. h[i - 1] \in D
      BY <3>1, <2>0
    <3> QED BY <3>1, <3>2, <2>2, <1>5, <2>0
  <2> QED BY <2>1, <2>2
<1>8. \E f : f = Body(f)
  <2>1. h \in [0..n -> D]
    BY <1>6 DEF Iterated
  <2>2. h = Body(h)
    BY <1>7, <2>1
  <2> HIDE DEF Body
  <2> QED BY <2>2
<1> DEFINE f == CHOOSE f : f = Body(f)
<1>9. f = Body(f)
    BY <1>8
<1>10. RagWithLore(look, R) = f[n]
    BY <1>4
<1> HIDE DEF f
<1>11. \A i \in 0..n : f[i] = IF i = 0 THEN start ELSE LoreRoomFor(f[i - 1], look.records[i], limit)
    BY <1>9
<1>12. \A i \in 0..n : f[i] \in D
  <2>1. f[0] \in D
    BY <1>1, <1>3, <1>11
  <2>2. ASSUME NEW i \in 1..n, f[i - 1] \in D PROVE f[i] \in D
    <3>1. i \in 0..n /\ i # 0
      BY <1>1
    <3>2. f[i] = LoreRoomFor(f[i - 1], look.records[i], limit)
      BY <3>1, <1>11
    <3> QED BY <3>2, <2>2, <1>2
  <2> QED BY <2>1, <2>2, <1>1, Stays
<1> QED BY <1>1, <1>10, <1>12 DEF D, start

LEMMA NeighboursAre ==
  ASSUME Framed, NEW S \in SUBSET opening.records
  PROVE  SetToSeq(S) \in Seq(opening.records)
<1>1. IsFiniteSet(S)
    BY OpeningIs, FS_Subset
<1> DEFINE q == SetToSeq(S)
<1>2. q \in Seq(S)
    BY <1>1, SetToSeqIs
<1> HIDE DEF q
<1>3. q \in Seq(opening.records)
    BY <1>2
<1> QED BY <1>3 DEF q

LEMMA RagRecordsAre ==
  ASSUME Framed, NEW look, LookupOK(look)
  PROVE  /\ RagRecords(look) \subseteq opening.records
         /\ Focal \cup (opening.spoken \ Of("lore")) \subseteq RagRecords(look)
         /\ CitedBy(RagRecords(look)) \ Of("lore") \subseteq RagRecords(look)
<1> DEFINE people == IF request.role = "chief" THEN Of("person") ELSE Focal
           must == people \cup {r \in Of("bond") : opening.cites[r] \cap people # {}}
                       \cup (opening.spoken \ (Of("person") \cup Of("lore")))
           some == (CitedBy(must \cap Of("bond")) \cap Of("person")) \ people
           taken == TakeWhileRoom(must, SetToSeq(some) \o look.records, inputLimit \div 2)
           sets == {T \in Around(taken) : CitedBy(T) \ Of("lore") \subseteq T}
           R == RagRecords(look)
<1>1. R = {r \in opening.records : \A T \in sets : taken \subseteq T => r \in T}
    BY DEF RagRecords, LeastAround
<1>2. Focal \subseteq people /\ people \subseteq Of("person") /\ (Of("person") \cap opening.spoken) \subseteq people
    BY FocalIs
<1> HIDE DEF people
<1>3. must \subseteq opening.records /\ Focal \cup (opening.spoken \ Of("lore")) \subseteq must
    BY <1>2, OpeningIs, SortsOf
<1>4. some \in SUBSET opening.records
    BY DEF Of
<1> HIDE DEF must, some
<1>5. must \subseteq taken /\ taken \subseteq opening.records
  <2>1. SetToSeq(some) \in Seq(opening.records) /\ look.records \in Seq(opening.records)
    BY <1>4, NeighboursAre DEF LookupOK
  <2>2. SetToSeq(some) \o look.records \in Seq(opening.records)
    BY <2>1, Joined
  <2> QED BY <1>3, <2>2, RoomIs
<1> HIDE DEF taken
<1>6. taken \subseteq R /\ R \subseteq opening.records
    BY <1>1, <1>5
<1>7. \A T \in sets : T \in SUBSET opening.records
    BY <1>5 DEF Around
<1>8. ASSUME NEW x \in CitedBy(R) \ Of("lore") PROVE x \in R
  <2>1. x \in opening.records
    BY <1>6, LinksGrow
  <2>2. ASSUME NEW T \in sets, taken \subseteq T PROVE x \in T
    <3>1. R \subseteq T /\ T \in SUBSET opening.records
      BY <1>1, <1>7, <2>2
    <3>2. CitedBy(R) \subseteq CitedBy(T)
      BY <3>1, <1>6, LinksGrow
    <3>3. x \in CitedBy(T) \ Of("lore")
      BY <3>2
    <3> QED BY <3>3
  <2> QED BY <1>1, <2>1, <2>2
<1> QED BY <1>3, <1>5, <1>6, <1>8

\* Nothing is said of the older policy but this.
Complete(R) ==
  /\ Focal \cup opening.spoken \subseteq R
  /\ \A r \in R : /\ opening.cites[r] \subseteq R
                  /\ opening.kind[r] = "lore" /\ r \notin CitedBy(R) => NamedBy({r}) \subseteq R

LEMMA NamesAre ==
  ASSUME Framed, NEW R \in SUBSET opening.records, NEW r \in R
  PROVE  /\ NamedBy({r}) \subseteq NamedBy(R) /\ opening.cites[r] \subseteq CitedBy(R)
         /\ opening.cites[r] \subseteq opening.records
         /\ opening.cites[r] \cap Of("lore") \subseteq NamedBy(R)
<1>1. NamedBy({r}) \subseteq NamedBy(R)
    BY LinksGrow
<1>2. opening.cites[r] \subseteq CitedBy(R)
    BY DEF CitedBy
<1>3. opening.cites[r] \subseteq opening.records
    BY OpeningIs
<1> QED BY <1>1, <1>2, <1>3 DEF NamedBy

LEMMA RagIsComplete ==
  ASSUME Framed, NEW look, LookupOK(look)
  PROVE  Complete(RagMaterial(look).records)
<1> DEFINE R == RagRecords(look)
           L == RagWithLore(look, R)
           M == R \cup L
<1>1. RagMaterial(look).records = M
    BY DEF RagMaterial, EmptyPacket
<1>2. /\ R \in SUBSET opening.records /\ CitedBy(R) \ Of("lore") \subseteq R
      /\ Focal \cup (opening.spoken \ Of("lore")) \subseteq R
    BY RagRecordsAre
<1>3. L \in LoreAbove(RagLore(R))
    BY <1>2, RagWithLoreIs
<1> HIDE DEF R, L
<1>4. /\ L \in SUBSET Of("lore") /\ NamedBy(L) \subseteq L /\ RagLore(R) \subseteq L
    BY <1>3 DEF LoreAbove
<1>5. (Of("lore") \cap opening.spoken) \subseteq L /\ NamedBy(R) \subseteq L
    BY <1>2, <1>4, RagLoreIs
<1>6. L \in SUBSET opening.records
    BY <1>4, SortsOf
<1>7. ASSUME NEW r \in M
      PROVE  opening.cites[r] \subseteq M /\ NamedBy({r}) \subseteq M
  <2>1. CASE r \in R
    <3>1. /\ NamedBy({r}) \subseteq NamedBy(R) /\ opening.cites[r] \subseteq CitedBy(R)
          /\ opening.cites[r] \cap Of("lore") \subseteq NamedBy(R)
      BY <2>1, <1>2, NamesAre
    <3> QED BY <3>1, <1>2, <1>5
  <2>2. CASE r \in L
    <3>1. NamedBy({r}) \subseteq NamedBy(L)
      BY <2>2, <1>6, NamesAre
    <3>2. opening.cites[r] = {}
      BY <2>2, <1>4, <1>6, OpeningIs, SortsOf
    <3> QED BY <3>1, <3>2, <1>4
  <2> QED BY <2>1, <2>2
<1>8. Focal \cup opening.spoken \subseteq M
    BY <1>2, <1>5
<1> HIDE DEF M
<1>9. Complete(M)
    BY <1>7, <1>8 DEF Complete
<1> QED BY <1>1, <1>9

LEMMA SoundIsComplete ==
  ASSUME Framed, NEW R \in SUBSET opening.records, Sound(R), Required \subseteq R
  PROVE  /\ Complete(R)
         /\ \A c \in Of("constraint") : opening.cites[c] \cap R # {} => c \in R
<1>1. Focal \cup opening.spoken \subseteq R
    BY RequiredIs
<1>2. Entire(R)
    BY DEF Sound
<1>3. \A r \in R : opening.cites[r] \subseteq R
    BY <1>2 DEF Entire, CitedBy
<1>4. \A r \in R : opening.kind[r] = "lore" /\ r \notin CitedBy(R) => NamedBy({r}) \subseteq R
    BY SortsOf DEF Sound
<1> QED BY <1>1, <1>2, <1>3, <1>4 DEF Complete, Entire

-----------------------------------------------------------------------------
(* The loop.                                                               *)

ByTarget == ByKeys /\ request.role \notin {"editor", "reader"}

LEMMA RenderIs ==
  ASSUME Framed, ByTarget, NEW look, LookupOK(look), NEW t \in Nat
  PROVE  Chosen(Render(t, look), Bare(look), t, look)
<1>1. request.policy # "role-rag-v2" /\ request.role # "editor" /\ request.role # "reader"
    BY DEF ByTarget, ByKeys
<1>2. CASE request.role = "chief" /\ request.policy = "chief-focus-v4"
    BY <1>1, <1>2, ChiefIs DEF Render
<1>3. CASE ~(request.role = "chief" /\ request.policy = "chief-focus-v4")
    BY <1>1, <1>3, KeyIs DEF Render, Bare
<1> QED BY <1>2, <1>3

LEMMA BareIs ==
  ASSUME Framed, NEW look, LookupOK(look)
  PROVE  Bare(look) \in Packets /\ Bare(look).records = Required
<1>1. CASE ~(request.role = "chief" /\ request.policy = "chief-focus-v4")
    BY <1>1, RequiredPacket DEF Bare
<1>2. CASE request.role = "chief" /\ request.policy = "chief-focus-v4"
  <2>1. Min({1, opening.summaries}) \in Nat
    <3>1. {1, opening.summaries} \in SUBSET Nat /\ {1, opening.summaries} # {}
      BY OpeningIs
    <3> QED BY <3>1, LeastIs
  <2>2. FirstQuote(look) \subseteq Paragraphs
    BY FirstQuoteIs
  <2> QED BY <1>2, <2>1, <2>2, RequiredPacket DEF Packets, Bare
<1> QED BY <1>1, <1>2

\* Bare packets differ in what they must quote, and in nothing else.
LEMMA BareWeighs ==
  ASSUME Framed, NEW look, LookupOK(look), NEW seen, LookupOK(seen)
  PROVE  /\ Weight(Bare(look)) \in Nat /\ Weight(Bare(seen)) \in Nat
         /\ Quoted(look) \in Nat /\ Quoted(seen) \in Nat
         /\ Weight(Bare(look)) + Quoted(seen) = Weight(Bare(seen)) + Quoted(look)
<1> DEFINE chief == request.role = "chief" /\ request.policy = "chief-focus-v4"
<1>1. Weight(Bare(look)) \in Nat /\ Weight(Bare(seen)) \in Nat
    BY BareIs, WeightGrows, BelowOrders
<1>2. CASE ~chief
    BY <1>1, <1>2 DEF Bare, Quoted
<1>3. CASE chief
  <2> DEFINE r == RequiredMaterial
             rest == Cardinality(r.records) + Min({1, opening.summaries}) + Cardinality(r.voices)
                         + Length(r.ending)
  <2>1. /\ Length(FirstQuote(look)) \in Nat /\ Length(FirstQuote(seen)) \in Nat
    BY FirstQuoteIs, LengthGrows
  <2>2. r \in Packets
    BY RequiredPacket
  <2>3. /\ Weight(Bare(look)) = rest + Length(FirstQuote(look))
        /\ Weight(Bare(seen)) = rest + Length(FirstQuote(seen))
    BY <1>3, <2>2 DEF Bare, Weight, Packets
  <2>4. rest \in Int
    <3>1. Min({1, opening.summaries}) \in Nat
      <4>1. {1, opening.summaries} \in SUBSET Nat /\ {1, opening.summaries} # {}
        BY OpeningIs
      <4> QED BY <4>1, LeastIs
    <3>2. Cardinality(r.records) \in Nat /\ Cardinality(r.voices) \in Nat
      BY <2>2, OpeningIs, FS_Subset, FS_CardinalityType DEF Packets
    <3>3. Length(r.ending) \in Nat
      BY <2>2, LengthGrows DEF Packets
    <3> QED BY <3>1, <3>2, <3>3
  <2>5. Quoted(look) = Length(FirstQuote(look)) /\ Quoted(seen) = Length(FirstQuote(seen))
    BY <1>3 DEF Quoted
  <2> HIDE DEF rest, r
  <2> QED BY <1>1, <2>1, <2>3, <2>4, <2>5
<1> QED BY <1>2, <1>3

\* The smallest target settles it: it gives the bare packet.
LEMMA ZeroSettles ==
  ASSUME Framed, ByTarget, NEW look, LookupOK(look)
  PROVE  /\ Weight(Render(0, look)) = Weight(Bare(look))
         /\ Weight(Bare(look)) > 0 => Render(0, look) = Bare(look)
<1> DEFINE b == Bare(look)
           z == Render(0, look)
<1>1. Chosen(z, b, 0, look) /\ b \in Packets
    BY RenderIs, BareIs
<1> HIDE DEF b, z
<1>2. z \in Packets /\ Below(b, z) /\ (z = b \/ Weight(z) <= 0)
    BY <1>1 DEF Chosen
<1>3. Weight(b) \in Nat /\ Weight(z) \in Nat /\ Weight(b) <= Weight(z)
    BY <1>1, <1>2, WeightGrows
<1>4. Weight(z) = Weight(b) /\ (Weight(b) > 0 => z = b)
    BY <1>2, <1>3
<1> QED BY <1>4 DEF b, z

LEMMA TargetIs ==
  ASSUME Framed, keyTarget \in 0..12
  PROVE  SoftTarget \in Nat /\ SoftTarget <= keyTarget
<1> DEFINE S == {Targets[request.role], inputLimit \div 2, keyTarget}
<1>1. request.role \in DOMAIN Targets /\ inputLimit \in Nat
    BY OpeningIs
<1>2. \A role \in DOMAIN Targets : Targets[role] \in Nat
    BY DEF Targets
<1>3. inputLimit \div 2 \in Nat
    BY <1>1
<1>4. S \in SUBSET Nat /\ S # {} /\ keyTarget \in S
    BY <1>1, <1>2, <1>3
<1>5. SoftTarget = Min(S)
    BY DEF SoftTarget
<1> HIDE DEF S
<1> QED BY <1>4, <1>5, LeastIs

\* How many rounds it takes to come to a target.
RoundsTo(k) == IF k > 6 THEN 0 ELSE IF k > 3 THEN 1 ELSE IF k > 1 THEN 2 ELSE 4 - k

LEMMA FewRounds ==
  ASSUME NEW k \in 0..12, NEW s \in Nat, s <= k, s > 0
  PROVE  /\ Smaller(s) \in 0..12 /\ RoundsTo(k) + 1 <= RoundsTo(Smaller(s))
         /\ RoundsTo(k) \in 0..4
<1>1. CASE s > 2
  <2>1. Smaller(s) = s \div 2
    BY <1>1 DEF Smaller, Floor
  <2>2. s \in 3..12 /\ (s <= 6 => s \div 2 <= 3) /\ (s <= 3 => s \div 2 <= 1)
    BY <1>1
  <2>3. s \div 2 \in 1..6
    BY <2>2
  <2> QED BY <2>1, <2>2, <2>3 DEF RoundsTo
<1>2. CASE s <= 2
  <2>1. Smaller(s) = 0
    BY <1>2 DEF Smaller, Floor
  <2> QED BY <2>1 DEF RoundsTo
<1> QED BY <1>1, <1>2

LEMMA OfferedAreOK ==
  ASSUME Framed
  PROVE  /\ LookupOK(NoLookup) /\ LookupOK(opening.plain)
         /\ \A look \in opening.lookups \cup {opening.plain} :
                LookupOK(Found(look)) /\ Found(look).revision = workRevision
<1>1. \A l \in opening.lookups \cup {opening.plain} : LookupOK(l)
    BY OpeningsAssumption DEF Framed, LookupOK, Paragraphs
<1>2. LookupOK(NoLookup)
    BY DEF LookupOK, NoLookup
<1>3. ASSUME NEW look \in opening.lookups \cup {opening.plain}
      PROVE  LookupOK(Found(look)) /\ Found(look).revision = workRevision
  <2>1. LookupOK(look)
    BY <1>1
  <2> QED BY <2>1 DEF LookupOK, Found
<1> QED BY <1>1, <1>2, <1>3

-----------------------------------------------------------------------------
(* What is frozen is the same after a step.                                *)

Frozen == opening' = opening /\ request' = request

LEMMA SameSorts ==
  ASSUME Frozen
  PROVE  /\ \A k : Of(k)' = Of(k)
         /\ \A S : CitedBy(S)' = CitedBy(S)
         /\ \A S : NamedBy(S)' = NamedBy(S)
         /\ \A S : Entire(S)' = Entire(S)
         /\ \A S : Around(S)' = Around(S)
<1>1. \A k : Of(k)' = Of(k)
    BY DEF Of, Frozen
<1>2. \A S : CitedBy(S)' = CitedBy(S)
    BY DEF CitedBy, Frozen
<1>3. \A S : NamedBy(S)' = NamedBy(S)
    BY <1>1, <1>2 DEF NamedBy, Frozen
<1>4. \A S : Entire(S)' = Entire(S)
    BY <1>1, <1>2 DEF Entire, Frozen
<1>5. \A S : Around(S)' = Around(S)
    BY DEF Around, Frozen
<1> QED BY <1>1, <1>2, <1>3, <1>4, <1>5

LEMMA SameClosures ==
  ASSUME Frozen
  PROVE  /\ \A S : LoreWith(S)' = LoreWith(S)
         /\ \A S : AllLinked(S)' = AllLinked(S)
         /\ \A S, h : WithHit(S, h)' = WithHit(S, h)
<1>1. \A S, sets : LeastAround(S, sets)' = LeastAround(S, sets)
    BY DEF LeastAround, Frozen
<1>2. \A S : LoreWith(S)' = LoreWith(S)
  <2>1. Of("lore")' = Of("lore") /\ \A T : NamedBy(T)' = NamedBy(T)
    BY SameSorts
  <2>2. {T \in SUBSET Of("lore") : NamedBy(T) \subseteq T}' = {T \in SUBSET Of("lore") : NamedBy(T) \subseteq T}
    BY <2>1
  <2> QED BY <1>1, <2>2 DEF LoreWith
<1>3. \A S : AllLinked(S)' = AllLinked(S)
    BY <1>1, SameSorts DEF AllLinked
<1>4. \A S, h : WithHit(S, h)' = WithHit(S, h)
    BY <1>2, <1>3, SameSorts DEF WithHit
<1> QED BY <1>2, <1>3, <1>4

LEMMA SameRequired ==
  ASSUME Frozen
  PROVE  Focal' = Focal /\ Required' = Required
<1>1. Focal' = Focal
  <2>1. Of("person")' = Of("person")
    BY SameSorts
  <2>2. opening' = opening /\ request' = request
    BY DEF Frozen
  <2>3. {opening.ranking[i] : i \in 1..Min({2, Len(opening.ranking)})}'
        = {opening.ranking[i] : i \in 1..Min({2, Len(opening.ranking)})}
    BY <2>2
  <2>4. (IF request.role \in {"chief", "writer"} THEN opening.cast ELSE {})'
        = IF request.role \in {"chief", "writer"} THEN opening.cast ELSE {}
    BY <2>2
  <2> QED BY <2>1, <2>2, <2>3, <2>4 DEF Focal
<1>2. Required' = Required
  <2>1. Of("person")' = Of("person") /\ Of("lore")' = Of("lore") /\ Of("bond")' = Of("bond")
    BY SameSorts
  <2>2. opening' = opening /\ request' = request
    BY DEF Frozen
  <2>3. {r \in Of("bond") : opening.cites[r] \cap Focal # {}}'
        = {r \in Of("bond") : opening.cites[r] \cap Focal # {}}
    BY <1>1, <2>1, <2>2
  <2> DEFINE people == Focal \cup (IF request.role = "chief" THEN Of("person") ELSE {})
             bonds == {r \in Of("bond") : opening.cites[r] \cap Focal # {}}
             talked == opening.spoken \ (Of("person") \cup Of("lore"))
             anchors == Focal \cup bonds \cup talked
             told == (Of("lore") \cap opening.spoken) \cup NamedBy(anchors)
             whole == people \cup bonds \cup talked \cup LoreWith(told)
  <2>4. Required = AllLinked(whole) /\ Required' = AllLinked(whole)'
    BY DEF Required
  <2>5. people' = people /\ bonds' = bonds /\ talked' = talked
    BY <1>1, <2>1, <2>2, <2>3
  <2> HIDE DEF people, bonds, talked
  <2>6. anchors' = anchors
    BY <1>1, <2>5
  <2> HIDE DEF anchors
  <2>7. NamedBy(anchors)' = NamedBy(anchors)
    BY <2>6, SameSorts
  <2>8. told' = told
    BY <2>1, <2>2, <2>7
  <2> HIDE DEF told
  <2>9. LoreWith(told)' = LoreWith(told)
    BY <2>8, SameClosures
  <2>10. whole' = whole
    BY <2>5, <2>9
  <2> HIDE DEF whole
  <2>11. AllLinked(whole)' = AllLinked(whole)
    BY <2>10, SameClosures
  <2> QED BY <2>4, <2>11
<1> QED BY <1>1, <1>2

LEMMA SamePackets ==
  ASSUME Frozen
  PROVE  /\ Paragraphs' = Paragraphs /\ LastParagraph' = LastParagraph /\ Packets' = Packets
         /\ \A S : Length(S)' = Length(S)
         /\ \A m : Weight(m)' = Weight(m)
         /\ RequiredMaterial' = RequiredMaterial
         /\ \A look : Bare(look)' = Bare(look) /\ Quoted(look)' = Quoted(look)
         /\ \A m, hit : BareSpare(m, hit)' = BareSpare(m, hit)
         /\ \A S : Sound(S)' = Sound(S)
         /\ \A S : Complete(S)' = Complete(S)
<1>1. Paragraphs' = Paragraphs /\ LastParagraph' = LastParagraph
    BY DEF Frozen, Paragraphs, LastParagraph
<1>2. Packets' = Packets
    BY <1>1 DEF Packets, Frozen
<1>3. \A S : Length(S)' = Length(S)
    BY DEF Frozen, Length
<1>4. \A m : Weight(m)' = Weight(m)
    BY <1>3 DEF Weight
<1>5. RequiredMaterial' = RequiredMaterial
    BY <1>1, SameRequired DEF RequiredMaterial, Frozen
<1>6. \A look : FirstQuote(look)' = FirstQuote(look)
    BY <1>1 DEF FirstQuote
<1>7. \A look : Bare(look)' = Bare(look) /\ Quoted(look)' = Quoted(look)
    BY <1>3, <1>5, <1>6 DEF Bare, Quoted, Frozen
<1>8. \A m, hit : BareSpare(m, hit)' = BareSpare(m, hit)
    BY <1>4, SameClosures DEF BareSpare
<1>9. \A S : Sound(S)' = Sound(S)
    BY SameSorts DEF Sound
<1>10. \A S : Complete(S)' = Complete(S)
  <2> TAKE S
  <2>1. opening' = opening
    BY DEF Frozen
  <2>2. Focal' = Focal
    BY SameRequired
  <2>3. CitedBy(S)' = CitedBy(S)
    BY SameSorts
  <2>4. \A r : NamedBy({r})' = NamedBy({r})
    BY SameSorts
  <2> QED BY <2>1, <2>2, <2>3, <2>4 DEF Complete
<1> QED BY <1>1, <1>2, <1>3, <1>4, <1>5, <1>7, <1>8, <1>9, <1>10

LEMMA SameChosen ==
  ASSUME Frozen, NEW m, NEW bare, NEW t, NEW look
  PROVE  Chosen(m, bare, t, look)' <=> Chosen(m, bare, t, look)
BY SamePackets DEF Chosen, Below

LEMMA SameReader ==
  ASSUME Frozen
  PROVE  ReaderMaterial' = ReaderMaterial
<1>1. \A m, t, q : ExtendEnding(m, t, q)' = ExtendEnding(m, t, q)
    BY SamePackets DEF ExtendEnding, EndingFrom
<1> QED BY <1>1, SamePackets DEF ReaderMaterial

LEMMA SameLookups ==
  ASSUME Frozen
  PROVE  \A look : LookupOK(look)' <=> LookupOK(look)
BY SamePackets DEF LookupOK, Frozen

-----------------------------------------------------------------------------
(* The invariant of a preparation.                                         *)

Rendered == inputStep \in {"count", "claimed", "refused"}
TakesTargets == request.role \notin {"editor", "reader"}

\* What is rendered is what its policy and its role make of it.
MaterialRight ==
  Rendered => /\ ByTarget => Chosen(material, Bare(lookup), SoftTarget, lookup)
              /\ ~ByKeys => Complete(material.records)
              /\ ByKeys /\ request.role = "reader" => material = ReaderMaterial

RoundsRight ==
  /\ keyTarget \in 0..12 /\ rounds \in Nat
  /\ TakesTargets => /\ inputStep = "render" => rounds <= RoundsTo(keyTarget)
                     /\ Rendered => rounds <= RoundsTo(keyTarget) + 1

LookupRight ==
  /\ LookupOK(lookup)
  /\ inputStep \in {"render", "count", "claimed"} => lookup.revision = workRevision
  /\ inputFailure.saved => /\ LookupOK(inputFailure.lookup)
                           /\ inputFailure.lookup.revision = inputFailure.revision

\* A limit that was measured is enough for the bare packet of the lookup it was measured with,
\* and a refusal means that another lookup made the packet quote more.
Enough(look, limit) == Fits(IF request.role = "reader" THEN ReaderMaterial ELSE Bare(look), limit)
AllowanceRight ==
  /\ \A look \in measured :
        /\ LookupOK(look)
        /\ ByKeys /\ request.role # "editor" => Enough(look, inputLimit)
        /\ ByKeys /\ inputStep = "refused" => Quoted(lookup) > Quoted(look)
  /\ inputStep = "refused" => request.role # "editor"

Steps == {"bind", "render", "count", "refused", "failed", "claimed"}
RequestInv == /\ Framed /\ inputStep \in Steps
              /\ MaterialRight /\ RoundsRight /\ LookupRight /\ AllowanceRight

LEMMA RequestInit == InitRequest => RequestInv
<1> SUFFICES ASSUME InitRequest PROVE RequestInv
    OBVIOUS
<1>1. Framed
    BY DEF InitRequest, Framed
<1>2. LookupOK(lookup)
    BY <1>1, OfferedAreOK DEF InitRequest
<1>3. keyTarget = 12
    BY DEF InitRequest, Targets
<1>4. RoundsRight
    BY <1>3 DEF InitRequest, RoundsRight, Rendered
<1> QED BY <1>1, <1>2, <1>4
        DEF InitRequest, RequestInv, NoFailure, MaterialRight, LookupRight, AllowanceRight, Rendered, Steps

LEMMA SameFrame ==
  ASSUME Framed, Frozen, inputLimit' \in InputLimits
  PROVE  /\ Framed' /\ (ByKeys' <=> ByKeys) /\ (ByTarget' <=> ByTarget)
         /\ (TakesTargets' <=> TakesTargets) /\ request'.role = request.role
         /\ \A look, limit : Enough(look, limit)' <=> Enough(look, limit)
<1>1. \A m, limit : Fits(m, limit)' <=> Fits(m, limit)
    BY SamePackets DEF Fits, Frozen
<1>2. \A look, limit : Enough(look, limit)' <=> Enough(look, limit)
    BY <1>1, SamePackets, SameReader DEF Enough, Frozen
<1> QED BY <1>2 DEF Framed, Frozen, ByKeys, ByTarget, TakesTargets

LEMMA SameAllowance ==
  ASSUME RequestInv, Frozen, inputLimit' = inputLimit, measured' \in {{}, measured},
         inputStep' = "refused" => inputStep = "refused" /\ lookup' = lookup
  PROVE  AllowanceRight'
<1>1. Framed /\ inputLimit' \in InputLimits
    BY DEF RequestInv, Framed
<1>2. /\ request'.role = request.role /\ (ByKeys' <=> ByKeys)
      /\ \A look, limit : Enough(look, limit)' <=> Enough(look, limit)
    BY <1>1, SameFrame
<1>3. \A look : (LookupOK(look)' <=> LookupOK(look)) /\ Quoted(look)' = Quoted(look)
    BY SameLookups, SamePackets
<1>4. \A look : Enough(look, inputLimit)' <=> Enough(look, inputLimit)
    BY <1>2
<1>5. inputStep' = "refused" => Quoted(lookup)' = Quoted(lookup)
    BY <1>3
<1> QED BY <1>2, <1>3, <1>4, <1>5 DEF AllowanceRight, RequestInv

LEMMA BindStep ==
  ASSUME RequestInv, BindRequest
  PROVE  RequestInv'
<1>1. Framed /\ Frozen /\ inputLimit' \in InputLimits
    BY DEF RequestInv, BindRequest, Frozen, Framed
<1>2. Framed' /\ request'.role = request.role
    BY <1>1, SameFrame
<1>3. \/ lookup' = inputFailure.lookup /\ SavedLookup
      \/ \E look \in opening.lookups \cup {opening.plain} : lookup' = Found(look)
    BY DEF BindRequest
<1>4. LookupOK(lookup') /\ lookup'.revision = workRevision
  <2>1. CASE SavedLookup /\ lookup' = inputFailure.lookup
    BY <2>1 DEF SavedLookup, RequestInv, LookupRight
  <2>2. CASE \E look \in opening.lookups \cup {opening.plain} : lookup' = Found(look)
    BY <2>2, <1>1, OfferedAreOK
  <2> QED BY <2>1, <2>2, <1>3
<1>5. inputStep' = "render" /\ keyTarget' = 12 /\ rounds' = 0
    BY DEF BindRequest, Targets
<1>6. MaterialRight' /\ inputStep' \in Steps
    BY <1>5 DEF MaterialRight, Rendered, Steps
<1>7. RoundsRight'
    BY <1>5 DEF RoundsRight, Rendered, RoundsTo
<1>8. LookupRight'
  <2>1. \A look : LookupOK(look)' <=> LookupOK(look)
    BY <1>1, SameLookups
  <2>2. workRevision' = workRevision /\ inputFailure' = inputFailure
    BY DEF BindRequest
  <2> QED BY <2>1, <2>2, <1>4 DEF LookupRight, RequestInv
<1>9. AllowanceRight'
  <2>1. measured' = measured /\ inputLimit' = inputLimit
    BY DEF BindRequest
  <2> QED BY <2>1, <1>1, <1>5, SameAllowance
<1> QED BY <1>2, <1>6, <1>7, <1>8, <1>9 DEF RequestInv

LEMMA RenderStep ==
  ASSUME RequestInv, RenderRequest
  PROVE  RequestInv'
<1>1. Framed /\ Frozen /\ inputLimit' = inputLimit /\ inputLimit' \in InputLimits
    BY DEF RequestInv, RenderRequest, Frozen, Framed
<1>2. /\ Framed' /\ request'.role = request.role /\ (ByKeys' <=> ByKeys) /\ (ByTarget' <=> ByTarget)
      /\ (TakesTargets' <=> TakesTargets)
    BY <1>1, SameFrame
<1>3. /\ inputStep = "render" /\ material' = Render(SoftTarget, lookup) /\ inputStep' = "count"
      /\ lookup' = lookup /\ keyTarget' = keyTarget /\ workRevision' = workRevision
      /\ inputFailure' = inputFailure /\ measured' = measured
    BY DEF RenderRequest
<1>4. LookupOK(lookup) /\ keyTarget \in 0..12 /\ rounds \in Nat
    BY DEF RequestInv, LookupRight, RoundsRight
<1>5. SoftTarget \in Nat /\ SoftTarget' = SoftTarget
    BY <1>1, <1>3, <1>4, TargetIs DEF SoftTarget, Frozen
<1>6. MaterialRight'
  <2>1. ASSUME ByTarget PROVE Chosen(material, Bare(lookup), SoftTarget, lookup)'
    <3>1. Chosen(material', Bare(lookup), SoftTarget, lookup)
      BY <1>1, <1>3, <1>4, <1>5, <2>1, RenderIs
    <3>2. Bare(lookup)' = Bare(lookup)
      BY <1>1, <1>3, SamePackets
    <3> QED BY <3>1, <3>2, <1>1, <1>3, <1>5, SameChosen
  <2>2. ASSUME ~ByKeys PROVE Complete(material.records)'
    <3>1. material' = RagMaterial(lookup)
      BY <1>3, <2>2 DEF Render, ByKeys
    <3>2. Complete(material'.records)
      BY <3>1, <1>1, <1>4, RagIsComplete
    <3> QED BY <3>2, <1>1, SamePackets
  <2>3. ASSUME ByKeys, request.role = "reader" PROVE material' = ReaderMaterial'
    <3>1. material' = ReaderMaterial
      BY <1>3, <2>3 DEF Render, ByKeys
    <3> QED BY <3>1, <1>1, SameReader
  <2> QED BY <2>1, <2>2, <2>3, <1>2 DEF MaterialRight
<1>7. RoundsRight'
  <2>1. rounds' \in Nat /\ rounds' <= rounds + 1
    <3>1. {rounds + 1, MaxRounds} \in SUBSET Nat /\ {rounds + 1, MaxRounds} # {}
      BY <1>4, PreparationsAssumption
    <3>2. Min({rounds + 1, MaxRounds}) \in {rounds + 1, MaxRounds}
          /\ \A x \in {rounds + 1, MaxRounds} : Min({rounds + 1, MaxRounds}) <= x
      BY <3>1, LeastIs
    <3> QED BY <3>1, <3>2 DEF RenderRequest
  <2>2. TakesTargets => rounds <= RoundsTo(keyTarget)
    BY <1>3 DEF RequestInv, RoundsRight
  <2>3. RoundsTo(keyTarget) \in Nat
    BY <1>4 DEF RoundsTo
  <2>4. TakesTargets' => rounds' <= RoundsTo(keyTarget) + 1
    BY <2>1, <2>2, <2>3, <1>2, <1>4
  <2> QED BY <2>1, <2>4, <1>3, <1>4 DEF RoundsRight
<1>8. LookupRight'
  <2>1. \A look : LookupOK(look)' <=> LookupOK(look)
    BY <1>1, SameLookups
  <2> QED BY <2>1, <1>3 DEF LookupRight, RequestInv
<1>9. AllowanceRight'
    BY <1>1, <1>3, SameAllowance
<1> QED BY <1>2, <1>3, <1>6, <1>7, <1>8, <1>9 DEF RequestInv, Steps

\* A step that renders nothing and binds nothing keeps what was made.
LEMMA StillRight ==
  ASSUME RequestInv, Frozen, inputLimit' = inputLimit, lookup' = lookup, material' = material,
         keyTarget' = keyTarget, Rendered
  PROVE  /\ Framed' /\ MaterialRight' /\ \A look : LookupOK(look)' <=> LookupOK(look)
         /\ request'.role = request.role /\ (ByKeys' <=> ByKeys) /\ (TakesTargets' <=> TakesTargets)
<1>1. Framed /\ inputLimit' \in InputLimits
    BY DEF RequestInv, Framed
<1>2. /\ Framed' /\ request'.role = request.role /\ (ByKeys' <=> ByKeys) /\ (ByTarget' <=> ByTarget)
      /\ (TakesTargets' <=> TakesTargets)
    BY <1>1, SameFrame
<1>3. SoftTarget' = SoftTarget
    BY DEF SoftTarget, Frozen
<1>4. Bare(lookup)' = Bare(lookup)
    BY SamePackets
<1>5. Chosen(material, Bare(lookup), SoftTarget, lookup)' <=> Chosen(material, Bare(lookup), SoftTarget, lookup)
    BY <1>3, <1>4, SameChosen
<1>6. Complete(material.records)' <=> Complete(material.records)
    BY SamePackets
<1>7. ReaderMaterial' = ReaderMaterial
    BY SameReader
<1>8. MaterialRight'
    BY <1>2, <1>5, <1>6, <1>7 DEF MaterialRight, RequestInv
<1>9. \A look : LookupOK(look)' <=> LookupOK(look)
    BY SameLookups
<1> QED BY <1>2, <1>8, <1>9

LEMMA FailStep ==
  ASSUME RequestInv, RenderFails
  PROVE  RequestInv'
<1>1. Framed /\ Frozen /\ inputLimit' = inputLimit /\ inputLimit' \in InputLimits
    BY DEF RequestInv, RenderFails, Frozen, Framed
<1>2. Framed' /\ request'.role = request.role /\ (ByKeys' <=> ByKeys)
    BY <1>1, SameFrame
<1>3. /\ inputStep' = "failed" /\ lookup' = lookup /\ keyTarget' = keyTarget /\ workRevision' = workRevision
      /\ inputFailure' = inputFailure /\ measured' = measured /\ rounds' = rounds
    BY DEF RenderFails
<1>4. MaterialRight' /\ RoundsRight'
    BY <1>3 DEF MaterialRight, RoundsRight, Rendered, RequestInv
<1>5. LookupRight'
  <2>1. \A look : LookupOK(look)' <=> LookupOK(look)
    BY <1>1, SameLookups
  <2> QED BY <2>1, <1>3 DEF LookupRight, RequestInv
<1>6. AllowanceRight'
    BY <1>1, <1>3, SameAllowance
<1> QED BY <1>2, <1>3, <1>4, <1>5, <1>6 DEF RequestInv, Steps

LEMMA ShrinkStep ==
  ASSUME RequestInv, ShrinkTarget
  PROVE  RequestInv'
<1>1. Framed /\ Frozen /\ inputLimit' = inputLimit /\ inputLimit' \in InputLimits
    BY DEF RequestInv, ShrinkTarget, Frozen, Framed
<1>2. Framed' /\ request'.role = request.role /\ (ByKeys' <=> ByKeys) /\ (TakesTargets' <=> TakesTargets)
    BY <1>1, SameFrame
<1>3. /\ inputStep = "count" /\ inputStep' = "render" /\ lookup' = lookup /\ workRevision' = workRevision
      /\ inputFailure' = inputFailure /\ measured' = measured /\ rounds' = rounds
      /\ ReportedTarget > 0 /\ keyTarget' = Smaller(ReportedTarget)
    BY DEF ShrinkTarget
<1>4. keyTarget \in 0..12 /\ rounds \in Nat /\ (TakesTargets => rounds <= RoundsTo(keyTarget) + 1)
    BY <1>3 DEF RequestInv, RoundsRight, Rendered
<1>5. SoftTarget \in Nat /\ SoftTarget <= keyTarget
    BY <1>1, <1>4, TargetIs
<1>6. ASSUME TakesTargets PROVE RoundsRight'
  <2>1. ReportedTarget = SoftTarget
    BY <1>3, <1>6 DEF ReportedTarget, TakesTargets
  <2>2. /\ keyTarget' \in 0..12 /\ RoundsTo(keyTarget) + 1 <= RoundsTo(keyTarget')
        /\ RoundsTo(keyTarget) \in 0..4
    BY <2>1, <1>3, <1>4, <1>5, FewRounds
  <2>3. RoundsTo(keyTarget') \in Int
    BY <2>2 DEF RoundsTo
  <2>4. rounds' <= RoundsTo(keyTarget')
    BY <2>2, <2>3, <1>3, <1>4, <1>6
  <2>5. keyTarget' \in 0..12 /\ rounds' \in Nat /\ ~Rendered'
    BY <2>2, <1>3, <1>4 DEF Rendered
  <2> QED BY <2>4, <2>5 DEF RoundsRight
<1>7. ASSUME ~TakesTargets PROVE RoundsRight'
  <2>1. ReportedTarget \in {0, 2}
    BY <1>7 DEF TakesTargets, ReportedTarget, Targets
  <2>2. keyTarget' \in 0..12
    BY <2>1, <1>3 DEF Smaller, Floor
  <2>3. rounds' \in Nat /\ ~TakesTargets'
    BY <1>2, <1>3, <1>4, <1>7
  <2> QED BY <2>2, <2>3 DEF RoundsRight
<1>8. LookupRight'
  <2>1. \A look : LookupOK(look)' <=> LookupOK(look)
    BY <1>1, SameLookups
  <2> QED BY <2>1, <1>3 DEF LookupRight, RequestInv
<1>9. AllowanceRight' /\ MaterialRight' /\ inputStep' \in Steps
    BY <1>1, <1>3, SameAllowance DEF MaterialRight, Rendered, Steps
<1> QED BY <1>2, <1>6, <1>7, <1>8, <1>9 DEF RequestInv

LEMMA RefuseStep ==
  ASSUME RequestInv, RefuseRequest
  PROVE  RequestInv'
<1>1. Framed /\ Frozen /\ inputLimit' = inputLimit /\ lookup' = lookup /\ material' = material
      /\ keyTarget' = keyTarget /\ rounds' = rounds /\ workRevision' = workRevision /\ measured' = measured
      /\ inputStep = "count" /\ inputStep' = "refused"
      /\ inputFailure' = [saved |-> TRUE, revision |-> workRevision, lookup |-> lookup]
      /\ ~Fits(material, inputLimit) /\ ReportedTarget = 0
    BY DEF RequestInv, RefuseRequest, Frozen
<1>2. Rendered
    BY <1>1 DEF Rendered
<1>3. /\ Framed' /\ MaterialRight' /\ (\A look : LookupOK(look)' <=> LookupOK(look))
      /\ request'.role = request.role /\ (ByKeys' <=> ByKeys) /\ (TakesTargets' <=> TakesTargets)
    BY <1>1, <1>2, StillRight
<1>4. RoundsRight'
    BY <1>1, <1>2, <1>3 DEF RoundsRight, RequestInv, Rendered
<1>5. LookupRight'
    BY <1>1, <1>3 DEF LookupRight, RequestInv
<1>6. request.role # "editor"
    BY <1>1 DEF ReportedTarget, Targets
\* A lookup it was measured with made the packet quote less.
<1>7. ASSUME ByKeys, NEW look \in measured PROVE Quoted(lookup) > Quoted(look)
  <2>1. LookupOK(look) /\ LookupOK(lookup) /\ Enough(look, inputLimit)
    BY <1>6, <1>7 DEF RequestInv, AllowanceRight, LookupRight
  <2>2. request.role # "reader"
    <3>1. ASSUME request.role = "reader" PROVE FALSE
      <4>1. material = ReaderMaterial
        BY <1>2, <1>7, <3>1 DEF RequestInv, MaterialRight
      <4> QED BY <4>1, <2>1, <3>1, <1>1 DEF Enough
    <3> QED BY <3>1
  <2>3. ByTarget
    BY <1>6, <1>7, <2>2 DEF ByTarget
  <2>4. SoftTarget = 0
    BY <1>1, <1>6, <1>7, <2>2 DEF ReportedTarget, ByKeys
  <2>5. /\ material \in Packets /\ Below(Bare(lookup), material)
        /\ (material = Bare(lookup) \/ Weight(material) <= 0)
    BY <1>2, <2>3, <2>4 DEF RequestInv, MaterialRight, Chosen
  <2>6. Weight(Bare(lookup)) \in Nat /\ Weight(material) \in Nat
        /\ Weight(Bare(lookup)) <= Weight(material)
    BY <1>1, <2>1, <2>5, BareIs, WeightGrows
  <2>7. Weight(material) = Weight(Bare(lookup))
    BY <2>5, <2>6
  <2>8. /\ request.fixed + Weight(Bare(look)) <= inputLimit
        /\ ~(request.fixed + Weight(Bare(lookup)) <= inputLimit)
    BY <1>1, <2>1, <2>2, <2>7 DEF Enough, Fits
  <2>9. request.fixed \in Nat /\ inputLimit \in Nat
    BY <1>1, PreparationsAssumption DEF Framed
  <2> QED BY <1>1, <2>1, <2>8, <2>9, BareWeighs
<1>8. AllowanceRight'
  <2>1. \A look : Enough(look, inputLimit)' <=> Enough(look, inputLimit)
    <3>1. inputLimit' \in InputLimits
      BY <1>1 DEF Framed
    <3> QED BY <3>1, <1>1, SameFrame
  <2>2. \A look : Quoted(look)' = Quoted(look)
    BY <1>1, SamePackets
  <2>3. Quoted(lookup)' = Quoted(lookup)
    BY <1>1, <2>2
  <2> QED BY <2>1, <2>2, <2>3, <1>1, <1>3, <1>6, <1>7 DEF AllowanceRight, RequestInv
<1> QED BY <1>1, <1>3, <1>4, <1>5, <1>8 DEF RequestInv, Steps

LEMMA ClaimStep ==
  ASSUME RequestInv, ClaimRequest
  PROVE  RequestInv'
<1>1. Framed /\ Frozen /\ inputLimit' = inputLimit /\ lookup' = lookup /\ material' = material
      /\ keyTarget' = keyTarget /\ rounds' = rounds /\ workRevision' = workRevision /\ measured' = measured
      /\ inputStep = "count" /\ inputStep' = "claimed" /\ inputFailure' = inputFailure
    BY DEF RequestInv, ClaimRequest, Frozen
<1>2. Rendered
    BY <1>1 DEF Rendered
<1>3. /\ Framed' /\ MaterialRight' /\ (\A look : LookupOK(look)' <=> LookupOK(look))
      /\ request'.role = request.role /\ (ByKeys' <=> ByKeys) /\ (TakesTargets' <=> TakesTargets)
    BY <1>1, <1>2, StillRight
<1>4. RoundsRight'
    BY <1>1, <1>2, <1>3 DEF RoundsRight, RequestInv, Rendered
<1>5. LookupRight' /\ AllowanceRight'
    BY <1>1, <1>3, SameAllowance DEF LookupRight, RequestInv
<1> QED BY <1>1, <1>3, <1>4, <1>5 DEF RequestInv, Steps

LEMMA EditStep ==
  ASSUME RequestInv, EditWork
  PROVE  RequestInv'
<1>1. Framed /\ Frozen /\ inputLimit' = inputLimit /\ lookup' = lookup /\ material' = material
      /\ keyTarget' = keyTarget /\ rounds' = rounds /\ measured' = {}
      /\ inputStep \in {"bind", "refused"} /\ inputStep' = inputStep /\ inputFailure' = inputFailure
    BY DEF RequestInv, EditWork, BeforeTry, Frozen
<1>2. Framed' /\ (TakesTargets' <=> TakesTargets) /\ \A look : LookupOK(look)' <=> LookupOK(look)
  <2>1. inputLimit' \in InputLimits
    BY <1>1 DEF Framed
  <2> QED BY <2>1, <1>1, SameFrame, SameLookups
<1>3. MaterialRight'
  <2>1. CASE Rendered
    BY <2>1, <1>1, StillRight
  <2>2. CASE ~Rendered
    BY <2>2, <1>1 DEF MaterialRight, Rendered
  <2> QED BY <2>1, <2>2
<1>4. RoundsRight'
    BY <1>1, <1>2 DEF RoundsRight, RequestInv, Rendered
<1>5. LookupRight' /\ AllowanceRight'
    BY <1>1, <1>2, SameAllowance DEF LookupRight, RequestInv
<1> QED BY <1>1, <1>2, <1>3, <1>4, <1>5 DEF RequestInv, Steps

LEMMA WidenStep ==
  ASSUME RequestInv, NEW limit \in InputLimits, WidenInput(limit)
  PROVE  RequestInv'
<1>1. Framed /\ Frozen /\ inputLimit' = limit /\ lookup' = lookup /\ keyTarget' = keyTarget
      /\ rounds' = rounds /\ workRevision' = workRevision
      /\ inputStep' = "bind" /\ inputFailure' = inputFailure /\ measured' = {PreviewLookup}
      /\ Fits(Render(0, PreviewLookup), limit)
    BY DEF RequestInv, WidenInput, Frozen
<1>2. /\ Framed' /\ request'.role = request.role /\ (ByKeys' <=> ByKeys) /\ (TakesTargets' <=> TakesTargets)
      /\ \A look : Enough(look, limit)' <=> Enough(look, limit)
    BY <1>1, SameFrame
<1>3. MaterialRight' /\ RoundsRight'
    BY <1>1 DEF MaterialRight, RoundsRight, Rendered, RequestInv
<1>4. \A look : LookupOK(look)' <=> LookupOK(look)
    BY <1>1, SameLookups
<1>5. LookupRight'
    BY <1>1, <1>4 DEF LookupRight, RequestInv
<1>6. LookupOK(PreviewLookup)
    BY <1>1, OfferedAreOK DEF PreviewLookup, SavedLookup, RequestInv, LookupRight
<1>7. ASSUME ByKeys, request.role # "editor" PROVE Enough(PreviewLookup, limit)
  <2>1. CASE request.role = "reader"
    BY <2>1, <1>1, <1>7 DEF Enough, Render, ByKeys
  <2>2. CASE request.role # "reader"
    <3>1. ByTarget
      BY <2>2, <1>7 DEF ByTarget
    <3>2. Weight(Render(0, PreviewLookup)) = Weight(Bare(PreviewLookup))
      BY <3>1, <1>1, <1>6, ZeroSettles
    <3> QED BY <3>2, <2>2, <1>1 DEF Enough, Fits
  <2> QED BY <2>1, <2>2
<1>8. AllowanceRight'
  <2>1. ASSUME NEW look, look = PreviewLookup
        PROVE  LookupOK(look)' /\ (ByKeys' /\ request'.role # "editor" => Enough(look, limit)')
    BY <1>2, <1>4, <1>6, <1>7, <2>1
  <2> QED BY <2>1, <1>1 DEF AllowanceRight
<1> QED BY <1>1, <1>2, <1>3, <1>5, <1>8 DEF RequestInv, Steps

LEMMA RequestStep == RequestInv /\ [NextRequest]_requestVars => RequestInv'
<1> SUFFICES ASSUME RequestInv, [NextRequest]_requestVars PROVE RequestInv'
    OBVIOUS
<1>1. CASE BindRequest
    BY <1>1, BindStep
<1>2. CASE RenderRequest
    BY <1>2, RenderStep
<1>3. CASE RenderFails
    BY <1>3, FailStep
<1>4. CASE ShrinkTarget
    BY <1>4, ShrinkStep
<1>5. CASE RefuseRequest
    BY <1>5, RefuseStep
<1>6. CASE ClaimRequest
    BY <1>6, ClaimStep
<1>7. CASE EditWork
    BY <1>7, EditStep
<1>8. CASE \E limit \in InputLimits : WidenInput(limit)
    BY <1>8, WidenStep
<1>9. CASE UNCHANGED requestVars
  <2>1. /\ Framed /\ Frozen /\ inputLimit' = inputLimit /\ inputLimit' \in InputLimits
        /\ lookup' = lookup /\ material' = material
        /\ keyTarget' = keyTarget /\ rounds' = rounds /\ workRevision' = workRevision /\ measured' = measured
        /\ inputStep' = inputStep /\ inputFailure' = inputFailure
    BY <1>9 DEF RequestInv, requestVars, Frozen, Framed
  <2>2. /\ Framed' /\ request'.role = request.role /\ (ByKeys' <=> ByKeys)
        /\ (TakesTargets' <=> TakesTargets)
    BY <2>1, SameFrame
  <2>3. MaterialRight'
    <3>1. CASE Rendered
      BY <3>1, <2>1, StillRight
    <3>2. CASE ~Rendered
      BY <3>2, <2>1 DEF MaterialRight, Rendered
    <3> QED BY <3>1, <3>2
  <2>4. RoundsRight'
    BY <2>1, <2>2 DEF RoundsRight, RequestInv, Rendered
  <2>5. LookupRight' /\ AllowanceRight'
    BY <2>1, <2>2, SameLookups, SameAllowance DEF LookupRight, RequestInv
  <2> QED BY <2>1, <2>2, <2>3, <2>4, <2>5 DEF RequestInv
<1> QED BY <1>1, <1>2, <1>3, <1>4, <1>5, <1>6, <1>7, <1>8, <1>9 DEF NextRequest

LEMMA RequestSafe == RequestInv => RequestIsSound
<1> SUFFICES ASSUME RequestInv PROVE RequestIsSound
    OBVIOUS
<1>0. Framed /\ LookupOK(lookup) /\ keyTarget \in 0..12
    BY DEF RequestInv, LookupRight, RoundsRight
<1>1. ASSUME Packed, ByKeys
      PROVE  /\ Complete(material.records)
             /\ \A c \in Of("constraint") :
                    opening.cites[c] \cap material.records # {} => c \in material.records
             /\ Weight(material) <= SoftTarget \/ material = Render(0, lookup)
             /\ \A i \in DOMAIN lookup.records :
                    \/ lookup.records[i] \in material.records
                    \/ Spare(lookup.records[i]) > SoftTarget
             /\ \A p \in material.ending : p..LastParagraph \subseteq material.ending
             /\ material.ending \cap material.passages = {}
  <2>1. ByTarget /\ Rendered
    BY <1>1 DEF Packed, ByTarget, Rendered
  <2>2. Chosen(material, Bare(lookup), SoftTarget, lookup)
    BY <2>1 DEF RequestInv, MaterialRight
  <2>3. Bare(lookup) \in Packets /\ Bare(lookup).records = Required
    BY <1>0, BareIs
  <2>4. /\ material \in Packets /\ Sound(material.records) /\ Required \subseteq material.records
    BY <2>2, <2>3 DEF Chosen, Below
  <2>5. material.records \in SUBSET opening.records
    BY <2>4 DEF Packets
  <2>6. Weight(material) <= SoftTarget \/ material = Render(0, lookup)
    <3>1. SoftTarget \in Nat /\ Weight(material) \in Nat
      BY <1>0, <2>4, TargetIs, WeightGrows, BelowOrders
    <3>2. CASE material = Bare(lookup) /\ Weight(material) > SoftTarget
      <4>1. Weight(Bare(lookup)) > 0
        BY <3>1, <3>2
      <4> QED BY <4>1, <3>2, <2>1, <1>0, ZeroSettles
    <3> QED BY <3>1, <3>2, <2>2 DEF Chosen
  <2>7. \A i \in DOMAIN lookup.records :
            \/ lookup.records[i] \in material.records
            \/ Spare(lookup.records[i]) > SoftTarget
    BY <2>2 DEF Chosen, BareSpare, Spare
  <2> QED BY <1>0, <2>2, <2>4, <2>5, <2>6, <2>7, SoundIsComplete DEF Chosen
<1>2. ASSUME Packed PROVE Complete(material.records) /\ rounds <= 5
  <2>1. Complete(material.records)
    <3>1. CASE ~ByKeys
      BY <3>1, <1>2 DEF Packed, RequestInv, MaterialRight, Rendered
    <3> QED BY <3>1, <1>1, <1>2
  <2>2. rounds \in Nat /\ rounds <= RoundsTo(keyTarget) + 1
    BY <1>2 DEF Packed, RequestInv, RoundsRight, TakesTargets, Rendered
  <2>3. RoundsTo(keyTarget) \in 0..4
    BY <1>0 DEF RoundsTo
  <2> QED BY <2>1, <2>2, <2>3
<1>3. WellPacked
    BY <1>1, <1>2 DEF WellPacked, Complete
<1>4. LimitIsKept
    BY DEF LimitIsKept, RequestInv, AllowanceRight, LookupRight
<1> QED BY <1>3, <1>4 DEF RequestIsSound

(* A request names nothing it does not hold, has what its task speaks of   *)
(* and all that its target has room for, is settled in five rounds; a      *)
(* limit a preview found to be enough is enough for the request that is    *)
(* sent, unless the lookup of a chief's checkpoint makes it quote a longer *)
(* paragraph than the preview's; none is sent with a lookup made for       *)
(* another text.                                                           *)
THEOREM RequestSound == RequestSpec => []RequestIsSound
<1>1. RequestSpec => []RequestInv
    BY RequestInit, RequestStep, PTL DEF RequestSpec
<1> QED BY <1>1, RequestSafe, PTL

=============================================================================
