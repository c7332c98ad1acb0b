------------------------------ MODULE LocalTasks ------------------------------
(***************************************************************************)
(* The queue of local tasks (services/local_tasks.py): exports of a formal *)
(* version and rebuilds of the search index, run without any paid call by  *)
(* the worker of each application process under a lease.                   *)
(*                                                                         *)
(* A task is a row, numbered in the order of creation.  A worker claims it *)
(* in one transaction, executes it in a second one, writes the artifact to *)
(* a file, and ends it in a third.  Nothing renews the lease: it may run   *)
(* out while its owner still works, and another worker takes over.         *)
(***************************************************************************)
EXTENDS Naturals

CONSTANTS
  Workers,     \* the workers, by the owner name they put into a lease
  NoWorker,    \* no owner
  Keys,        \* idempotency keys of the clients
  MaxTasks,    \* how many tasks may be created
  MaxVersion,  \* how many formal versions the project reaches
  MaxFaults    \* how many failures one behaviour may contain

ASSUME LocalTasksAssumption ==
  /\ NoWorker \notin Workers
  /\ MaxTasks \in Nat /\ MaxVersion \in Nat \ {0} /\ MaxFaults \in Nat

Tasks    == 1 .. MaxTasks
Versions == 1 .. MaxVersion

VARIABLES
  version,  \* the project's current formal version; a blank or pruned one leaves no documents
  documented,  \* the versions that leave documents (chapters or state) to search
  task,     \* local_tasks rows
  keys,     \* idempotency records of queue_local_task
  files,    \* artifact files: the task and the worker that wrote it, into its content root
  index,    \* search_documents: versions they are of, and those with documents marked current
  worker,   \* the tick of each worker
  faults    \* failures so far (bounds the model)

vars == <<version, documented, task, keys, files, index, worker, faults>>

Kinds    == {"export", "search_rebuild"}
Finished == {"completed", "failed"}

\* "input" is the formal version of the manifest; "output" names the content a worker
\* produced (formats carry timestamps, so no two executions agree); "key" is the request
\* that created the row.
TaskRow == [status : {"none", "queued", "running"} \cup Finished, kind : Kinds,
            input : 0 .. MaxVersion, owner : Workers \cup {NoWorker}, expired : BOOLEAN,
            output : Workers \cup {NoWorker}, key : Keys \cup {NoWorker}]
NoTask  == [status |-> "none", kind |-> "export", input |-> 0, owner |-> NoWorker,
            expired |-> FALSE, output |-> NoWorker, key |-> NoWorker]

KeyRow == [kind : Kinds, input : 0 .. MaxVersion, task : 0 .. MaxTasks]
NoKey  == [kind |-> "export", input |-> 0, task |-> 0]

\* Where a tick stands: its task, the versions whose documents a rebuild read, and those
\* whose documents other rebuilds committed after this one deleted the old ones.
WorkerPc  == {"idle", "begin", "write", "sources", "delete", "insert", "finish", "fail"}
WorkerRow == [pc : WorkerPc, task : 0 .. MaxTasks, docs : SUBSET Versions,
              after : SUBSET Versions]
Resting   == [pc |-> "idle", task |-> 0, docs |-> {}, after |-> {}]

Index == [docs : SUBSET Versions, marked : SUBSET Versions]

Fault       == faults < MaxFaults /\ faults' = faults + 1
At(w, pc)   == worker[w].pc = pc
TaskOf(w)   == worker[w].task
Goto(w, pc) == worker' = [worker EXCEPT ![w].pc = pc]
Rest(w)     == worker' = [worker EXCEPT ![w] = Resting]
Rebuild(t)  == task[t].status # "none" /\ task[t].kind = "search_rebuild"

-----------------------------------------------------------------------------
(* Requests.                                                               *)

\* A command of the author publishes a formal version; rollbacks and restarts do, too, and
\* one may be blank.
Publish ==
  /\ version < MaxVersion
  /\ version' = version + 1
  /\ documented' \in {documented, documented \cup {version + 1}}
  /\ UNCHANGED <<task, keys, files, index, worker, faults>>

\* A version that is pruned, or loses the chapters it consists of, takes its documents along
\* (ON DELETE CASCADE of search_documents).
LoseDocuments(v) ==
  /\ v \in documented \ {version}
  /\ documented' = documented \ {v}
  /\ index' = [docs |-> index.docs \ {v}, marked |-> index.marked \ {v}]
  /\ worker' = [w \in Workers |-> [worker[w] EXCEPT !.after = @ \ {v}]]
  /\ UNCHANGED <<version, task, keys, files, faults>>

\* A key that was used changes nothing any more: a repetition of its request returns the
\* recorded task, another kind or version under the same key is a conflict.
KnownForCurrent(key) == keys[key].task # 0 /\ keys[key].input = version
Known(key)           == keys[key].task # 0

Pending(t) == Rebuild(t) /\ task[t].status \in {"queued", "running"}

\* The newest pending rebuild, if it was requested for the current version.
Shared == {t \in Tasks : /\ Pending(t) /\ task[t].input = version
                         /\ \A s \in Tasks : Pending(s) => s <= t}

\* queue, under the lock of the project row and of the key: a repetition returns the task it
\* made, a rebuild joins the pending one, anything else is a new row.
Queue(key, kind) ==
  /\ ~Known(key)
  /\ \/ \E t \in Shared :
          /\ kind = "search_rebuild"
          /\ keys' = [keys EXCEPT ![key] = [kind |-> kind, input |-> version, task |-> t]]
          /\ UNCHANGED task
     \/ \E t \in Tasks :
          /\ kind = "search_rebuild" => Shared = {}
          /\ task[t].status = "none" /\ \A s \in Tasks : s < t => task[s].status # "none"
          /\ task' = [task EXCEPT ![t] = [NoTask EXCEPT !.status = "queued", !.kind = kind,
                                                        !.input = version, !.key = key]]
          /\ keys' = [keys EXCEPT ![key] = [kind |-> kind, input |-> version, task |-> t]]
  /\ UNCHANGED <<version, documented, files, index, worker, faults>>

-----------------------------------------------------------------------------
(* The worker.                                                             *)

NeverStarted(t) == task[t].status = "queued"
Claimable(t)    == task[t].status = "queued" \/ (task[t].status = "running" /\ task[t].expired)

\* A row that a transaction ending the task may hold locked; claim skips it.
RowLocked(t) == \E w \in Workers : TaskOf(w) = t /\ worker[w].pc \in {"finish", "fail"}

\* claim: the oldest queued task, or one whose lease ran out.  (A commit without its
\* acknowledgement is this action followed by Crash: tick raises and run goes on polling.)
Claim(w) ==
  /\ At(w, "idle")
  /\ \E t \in Tasks :
       /\ Claimable(t) /\ \A s \in Tasks : s < t /\ Claimable(s) => RowLocked(s)
       /\ task' = [task EXCEPT ![t].status = "running", ![t].owner = w, ![t].expired = FALSE]
       /\ worker' = [worker EXCEPT ![w] = [Resting EXCEPT !.pc = "begin", !.task = t]]
  /\ UNCHANGED <<version, documented, keys, files, index, faults>>

HoldsRunning(w) == task[TaskOf(w)].status = "running"
Holds(w)        == task[TaskOf(w)].owner = w /\ task[TaskOf(w)].status = "running"
OwnsAlways(w)   == TRUE
Owns(w)         == task[TaskOf(w)].owner = w

\* The second transaction reads the row without a lock and leaves a task it lost.  An
\* export reads the version of its manifest, which is refused when the chapters it lists
\* were renumbered meanwhile; a rebuild is refused for any version but the current one.
Begin(w) ==
  LET t == TaskOf(w) IN
  /\ At(w, "begin")
  /\ \/ ~Holds(w) /\ Rest(w) /\ UNCHANGED faults
     \/ Holds(w) /\ task[t].kind = "export" /\ Goto(w, "write") /\ UNCHANGED faults
     \/ /\ Holds(w) /\ task[t].kind = "search_rebuild" /\ task[t].input = version
        /\ Goto(w, "sources") /\ UNCHANGED faults
     \/ Holds(w) /\ task[t].input # version /\ Goto(w, "fail") /\ UNCHANGED faults
     \/ Fault /\ Goto(w, "fail")
  /\ UNCHANGED <<version, documented, task, keys, files, index>>

\* rebuild_project_index reads the documents of every version ...
Sources(w) ==
  /\ At(w, "sources")
  /\ worker' = [worker EXCEPT ![w].pc = "delete", ![w].docs = documented]
  /\ UNCHANGED <<version, documented, task, keys, files, index, faults>>

\* ... deletes the documents that are committed when the statement starts ...
Delete(w) ==
  /\ At(w, "delete")
  /\ Goto(w, "insert")
  /\ UNCHANGED <<version, documented, task, keys, files, index, faults>>

\* ... and inserts its own, those of the version its task was begun for marked current.
\* The transaction is rolled back when a version was forgotten meanwhile (foreign key) or
\* another rebuild committed documents with the same keys.
Admitted(w) == worker[w].docs \subseteq documented \ worker[w].after

Built(w) ==
  LET row == worker[w] IN
  /\ index' = [docs   |-> row.after \cup row.docs,
               marked |-> (index.marked \cap row.after) \cup (row.docs \cap {task[row.task].input})]
  /\ \E pc \in {"finish", "fail"} :
       /\ pc = "fail" => Fault
       /\ pc = "finish" => UNCHANGED faults
       /\ worker' = [x \in Workers |->
            IF x = w THEN [Resting EXCEPT !.pc = pc, !.task = row.task]
            ELSE IF At(x, "insert")
                 THEN [worker[x] EXCEPT !.after = (@ \cap row.after) \cup row.docs]
            ELSE worker[x]]

Insert(w) ==
  /\ At(w, "insert")
  /\ \/ Admitted(w) /\ Built(w)
     \/ ~Admitted(w) /\ Goto(w, "fail") /\ UNCHANGED <<index, faults>>
     \/ Fault /\ Goto(w, "fail") /\ UNCHANGED index
  /\ UNCHANGED <<version, documented, task, keys, files>>

\* _write_artifact: a temporary file, renamed when complete.
WriteIgnoresErrors(w) ==
  /\ At(w, "write")
  /\ \/ files' = files \cup {<<TaskOf(w), w>>} /\ UNCHANGED faults
     \/ Fault /\ UNCHANGED files
  /\ Goto(w, "finish")
  /\ UNCHANGED <<version, documented, task, keys, index>>

Write(w) ==
  /\ At(w, "write")
  /\ \/ files' = files \cup {<<TaskOf(w), w>>} /\ Goto(w, "finish") /\ UNCHANGED faults
     \/ Fault /\ Goto(w, "fail") /\ UNCHANGED files
  /\ UNCHANGED <<version, documented, task, keys, index>>

Completed(w) ==
  task' = [task EXCEPT ![TaskOf(w)].status = "completed", ![TaskOf(w)].output = w,
                       ![TaskOf(w)].owner = NoWorker, ![TaskOf(w)].expired = FALSE]

\* The third transaction, under the lock of the row.  A commit may fail, or succeed
\* without its acknowledgement; both continue as an exception.
Finish(w) ==
  /\ At(w, "finish")
  /\ \/ ~Holds(w) /\ Rest(w) /\ UNCHANGED <<task, faults>>
     \/ Holds(w) /\ Completed(w) /\ Rest(w) /\ UNCHANGED faults
     \/ Holds(w) /\ Completed(w) /\ Goto(w, "fail") /\ Fault
     \/ Fault /\ Goto(w, "fail") /\ UNCHANGED task
  /\ UNCHANGED <<version, documented, keys, files, index>>

\* The exception handler of tick; when it fails itself, the lease recovers the task.
Fail(w) ==
  LET t == TaskOf(w) IN
  /\ At(w, "fail")
  /\ \/ /\ Owns(w)
        /\ task' = [task EXCEPT ![t].status = "failed", ![t].owner = NoWorker,
                                ![t].expired = FALSE]
        /\ UNCHANGED faults
     \/ ~Owns(w) /\ UNCHANGED <<task, faults>>
     \/ Fault /\ UNCHANGED task
  /\ Rest(w)
  /\ UNCHANGED <<version, documented, keys, files, index>>

-----------------------------------------------------------------------------
(* Time and crashes.                                                       *)

Working(w, t) == ~At(w, "idle") /\ TaskOf(w) = t

Expires(t) ==
  /\ task[t].status = "running" /\ ~task[t].expired
  /\ task' = [task EXCEPT ![t].expired = TRUE]
  /\ UNCHANGED <<version, documented, keys, files, index, worker>>

\* The lease of a worker that is gone runs out ...
ExpireDead(t) ==
  /\ \A w \in Workers : task[t].owner = w => ~Working(w, t)
  /\ Expires(t) /\ UNCHANGED faults

\* ... and so may one of a worker that takes long; there is no heartbeat.
ExpireLate(t) ==
  /\ \E w \in Workers : task[t].owner = w /\ Working(w, t)
  /\ Fault /\ Expires(t)

\* The process dies, or its shutdown gives up waiting for the worker.
Crash(w) ==
  /\ ~At(w, "idle")
  /\ Fault /\ Rest(w)
  /\ UNCHANGED <<version, documented, task, keys, files, index>>

Init ==
  /\ version = 1 /\ documented \in SUBSET {1}
  /\ task = [t \in Tasks |-> NoTask]
  /\ keys = [k \in Keys |-> NoKey]
  /\ files = {}
  /\ index = [docs |-> {}, marked |-> {}]
  /\ worker = [w \in Workers |-> Resting]
  /\ faults = 0

Tick(w) ==
  \/ Claim(w) \/ Begin(w) \/ Sources(w) \/ Delete(w) \/ Insert(w) \/ Write(w)
  \/ Finish(w) \/ Fail(w)

Next ==
  \/ Publish
  \/ \E v \in Versions : LoseDocuments(v)
  \/ \E k \in Keys, kind \in Kinds : Queue(k, kind)
  \/ \E w \in Workers : Tick(w) \/ Crash(w)
  \/ \E t \in Tasks : ExpireDead(t) \/ ExpireLate(t)

Spec == Init /\ [][Next]_vars

\* Workers poll while their process lives (LocalTaskRunner.run), restarted processes start
\* new ones, and time passes.
Fairness ==
  /\ \A w \in Workers : WF_vars(Tick(w))
  /\ \A t \in Tasks : WF_vars(ExpireDead(t))

FairSpec == Spec /\ Fairness

-----------------------------------------------------------------------------
(* What readers of the rows are told.                                      *)

\* LocalSearchService.status: documents marked current that belong to another version ...
NewestIsOld    == index.docs # {} /\ version \notin index.docs
StaleDocuments == index.marked \ {version} # {}

\* ... decide what is said of the index once the newest rebuild has ended.
NewestRebuild(t) == Rebuild(t) /\ \A s \in Tasks : Rebuild(s) => s <= t

IndexReady ==
  /\ ~StaleDocuments
  /\ \A t \in Tasks : NewestRebuild(t) => task[t].status = "completed"
  /\ index.docs # {} \/ \E t \in Tasks : NewestRebuild(t)

-----------------------------------------------------------------------------
(* Properties.                                                             *)

\* Every variable keeps its shape.
TypeOK ==
  /\ version \in Versions /\ documented \subseteq Versions
  /\ task \in [Tasks -> TaskRow]
  /\ keys \in [Keys -> KeyRow]
  /\ files \subseteq Tasks \X Workers
  /\ index \in Index
  /\ worker \in [Workers -> WorkerRow]
  /\ faults \in 0 .. MaxFaults

\* A completed export has its artifact: the file of exactly the output its row names exists
\* under the content root of the worker that completed it, whichever workers executed the
\* task before and wherever they died (local_tasks.py tick).
CompletedHasArtifact ==
  \A t \in Tasks : task[t].status = "completed" /\ task[t].kind = "export"
                     => <<t, task[t].output>> \in files

\* One request creates one task, however often it is repeated and whatever was published in
\* between (local_tasks.py queue, idempotency.py load_idempotent_response).
OneTaskPerKey ==
  \A s, t \in Tasks : task[s].status # "none" /\ task[t].status # "none"
                        /\ task[s].key = task[t].key => s = t

\* What an author asked for is one task, and what that task says it made is there
\* (local_tasks.py queue, tick).
TasksAreSound == CompletedHasArtifact /\ OneTaskPerKey

\* An index that is called ready and shows anything as current shows the current version,
\* and holds the documents of every version there is: no late rebuild of an older version,
\* and no two rebuilds that delete and insert at the same time, leave one with documents of
\* another version marked current, or with part of the book missing (local_search.py
\* rebuild_project_index, status).  It may show nothing as current: one that was built while
\* the book was blank stays ready.
ReadyIsCurrent ==
  IndexReady /\ index.marked # {} => index.marked = {version} /\ index.docs = documented

\* Only the worker that holds the lease ends a task, and the end is final: no late worker,
\* repeated claim or failing acknowledgement changes what its author was told (local_tasks.py
\* tick).
EndsOnce ==
  [][\A t \in Tasks :
       /\ task[t].status \in Finished => task'[t] = task[t]
       /\ task[t].status = "running" /\ task'[t].status \in Finished =>
            \E w \in Workers : /\ task[t].owner = w /\ TaskOf(w) = t
                               /\ worker'[w] # worker[w]]_task

\* Queued tasks all come to an end, although workers die with them and leases are never
\* renewed.
TaskEnds ==
  (\E t \in Tasks : task[t].status = "queued")
    ~> (\A t \in Tasks : task[t].status \in Finished \cup {"none"})
=============================================================================
