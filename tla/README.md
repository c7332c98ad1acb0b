# A verification project for xs-agent (novel_writer)

xs-agent writes long novels with an author in charge. One *stage* (a batch) plans, writes and
reviews a few chapters by a sequence of *paid* model calls; the author reads the result and adopts
it as the next formal version of the project. What is hard about it is not the text but what
surrounds it: a kernel that spends the author's money, which must never send a request twice, never
lose an answer that was paid for and never silently continue after an outcome it does not know; and
services that publish, delete, index, archive and import while that kernel works.

This directory holds TLA+ modules for the kernel and its services, TLC configurations that check
them on small instances, and proofs checked by TLAPS for all instances. Paths below are relative to
the root of the repository; `generation/`, `services/` and the like stand for
`src/novel_writer/generation/` and so on.

| File | What it is |
| --- | --- |
| `GenerationKernel.tla` | the kernel: runtime and stage commands, fairness, properties |
| `PaidCallLedger.tla` | the abstract promise about paid calls, which the kernel refines |
| `LocalTasks.tla` | the queue of local tasks and the search index it rebuilds |
| `ProjectDeletion.tla` | deletion of a book and the cleanup of its files |
| `FormalVersions.tla` | the chain of formal versions and what is based on it |
| `KnowledgeIndex.tla`, `Retrieval.tla` | the vector index; what a request is told of the book |
| `ProviderProfiles.tla`, `ProviderCall.tla` | profiles, keys and probes; one paid request on the wire |
| `Maintenance.tla`, `SystemArchive.tla` | offline tools against live applications; the archive itself |
| `StageBudget.tla`, `RequestMaterial.tla`, `StageFacts.tla` | a stage's money; what fits into a request; how reports become story facts |
| `ReferenceStyles.tla`, `BookIntake.tla`, `Templates.tla`, `Reading.tla` | styles; import, export and mirror; prompt defaults; search and reader view |
| `MCKernel.tla`, `MCLiveness.tla`, `MCServices.tla`, `MCBudget.tla`, `MCFacts.tla`, `MCIntake.tla`, `MCRequest.tla`, `MCTemplates.tla`, `*.cfg` | instances for TLC |
| `GenerationKernel_proofs.tla` | type correctness of the kernel, one send per call, the refinement of the ledger; answers are kept, formal versions followed, pauses honoured, executing calls attended |
| `OneExecutor_proofs.tla` | what holds while one process executes: order, memory, no repetition, active stages are driven |
| `Services_proofs.tla` | local tasks, template defaults, the paid request and what a request holds |
| `Operations_proofs.tla` | the vector index, offline tools, the system archive |
| `Deletions_proofs.tla`, `FormalVersions_proofs.tla` | deletion and profiles; the chain of formal versions |
| `StageBudget_proofs.tla` | the bound of a stage |
| `Library_proofs.tla` | reference styles, the reading desk, what a request is told of the book |
| `PROJECT.json` | components, runs, mutants, source map, findings, hazards, theorems |

## 1. Inventory

| Component | State it keeps | Operations | What makes it correct |
| --- | --- | --- | --- |
| **Runtime** `generation/runtime.py`, `response_journal.py`, `response_binding.py`, lifespan in `api/app.py` | rows `generation_batches`, `generation_calls`; in memory `tasks`, `pending_starts`, `pending_responses`, `available`; the advisory lock; receipt files | `start`, `run`, `claim`, `dispatch`, `persist_response`, `compile_response`, `local_failure`, `finish_error`, `maintain`, `reconcile`, `recover_responses`, `close` | at most one send per claimed call; an answer is never lost or changed; an unknown outcome blocks; nothing active is abandoned; a pause is obeyed |
| **Stage commands** `generation/service.py`, `continuation.py`, `input_recovery.py`, `step_recovery.py`, `stage*.py`, `longform.py`, `diagnostics.py`, `api/routes/generation.py` | the same rows, `batch.state` (JSON) | create/replace, authorize, continue, pause, edit plan, edit text, recover a step or an input, resolve unknown, revalidate, adopt | steps in order, completed work kept, one executing call, only the current version continued |
| Recovery, amendments, budget `generation/budget.py`, `novel.py`, `memory_recovery.py`, `step_recovery.py`, `input_recovery.py`, `amendments.py` | one-time authorizations and slots in `batch.state` | preview, authorize, claim | cost within the confirmed total, a slot used once |
| Facts of a stage `generation/reports.py`, `lifecycle.py`, `longform.py`, `stage_adoption.py`, `domain/state.py`, `plot.py` | reports and suggested changes in `batch.state`, the story state | compile a report, collect, hand out to chapters, adopt | evidence points at formal text, nothing is lost between units |
| Request preparation `generation/request_preparation.py`, `key_materials.py`, `key_context.py` | saved preparation failures | choose records under a target, render, shrink, refuse | required material is never dropped, preparation ends |
| Prompt and contract builders `generation/context.py`, `prompts.py`, `*_contract.py`; trial pipeline | none of their own | text assembly | deterministic, frozen by fingerprint |
| Formal versions `services/workflow*.py`, `formal_version_sync.py`, `version_maintenance.py`, `formal_title_renames.py` | version chain, project pointer, chapters, workspaces | adopt, roll back, truncate, restart, rename, prune, archive | a chain whose state holds the evidence of its chapters; open work rebased or archived |
| Idempotency `services/idempotency.py` | key records, advisory locks | claim, replay, bind, retire | a repeated command returns the first result |
| Local tasks `services/local_tasks.py` | task rows with leases, artifact files | queue, claim, execute, complete, fail | one result per task although leases expire |
| Project deletion `services/project_deletion*.py` | receipt, cleanup journal, files | preview, confirm, delete rows, clean files, resume | shared content survives, cleanup completes |
| Maintenance `core/maintenance.py`, system archive `services/system_archive.py`, `scripts/` | leases, advisory and table locks, archive files | archive, inspect, drill, relocate receipts | never beside a live application; an archive is whole |
| Knowledge index and lookups `knowledge/`, `generation/knowledge_*.py` | documents, vectors, index status; frozen sources, receipts | enqueue, tick, install, query, freeze, rank, render | an index answers only for its own model; a hit is in the frozen text |
| Import, export, mirror `services/import_previews.py`, `data_portability.py`, `project_workspaces.py` | previews, setup drafts, folder | preview, commit, back up, restore, synchronise | what was confirmed is imported |
| Reading desk `services/local_search.py`, `reader_view.py`, `state_health.py` | `search_documents`, damaged facts | rebuild, search, view, repair | a ready index is current; a view is of one version |
| Reference styles `services/reference_styles.py` | sources, samples, style versions | register, judge, draft, activate, delete | every rule traces to a passage |
| Templates `services/prompt_template_store.py`, `craft_template_store.py` | version files and pointers | save, seed, upgrade, freeze | no save is lost, every bundle is on record |
| Providers `providers/` | none | wire formats, streams, errors | each end of a request is classified |
| Profiles, credentials `services/provider_profile*.py`, `core/credentials.py` | registry, overlays, key files | edit, probe, verify, delete | verified means measured; a deleted profile is not sent |
| HTTP surface, dashboards, reader site, deployment, scripts, migrations, frontend | - | - | not modelled |

How they interact. A route of the HTTP surface runs a command of the stage service in one database
transaction and, after the commit, calls `GenerationRuntime.start`. The runtime runs one asyncio
task per stage: it claims the next action (a committed row, before anything is sent), sends one
request through a provider, writes the answer to the journal and the row, and lets the stage
service interpret it. A maintenance loop beside it keeps the advisory lock, reconciles after a
restart and recovers receipts. Adoption hands the stage's chapters to formal versions, which
archive every other open stage and refuse while a call is in flight or unknown. A new version
queues a vector index by a trigger and a rebuild of the search index as a local task. Deletion and
the offline tools lock every table, so only what is written outside a transaction (files)
interleaves with them.

Hard behaviours. All are listed with their lines under `hazards` in `PROJECT.json`; the ones that
shape the models are:

* *stale objects*: `claim`, `compile_response`, `local_failure` and `finish_error` read a row,
  then wait for its lock (or take none) and act on the object they read. SQLAlchemy's identity
  map does not refresh a loaded object when the locking select returns it, and a flush writes
  the changed columns only; the JSON column `state` is always written whole.
* *ambiguous outcomes*: a request that was sent may have been paid for although no answer came;
  a commit may succeed although its acknowledgement is lost.
* *ownership*: the advisory lock belongs to a connection. When that breaks, another process may
  become owner while the first still has a task in flight, and the first may discard it late.
* *partial failure*: journal and database fail independently, and so does the write that should
  record a failure; commands that write several files die between two of them.
* *shutdown*: tasks drain for a grace period and are then cancelled at whatever await they are.
* *recovery protocols*: replays of replays, edits in between, reports that are skipped for an
  independent cold read, grants that were made for a state that has moved.
* *several statements per page*: a search, a rebuild or a reader view sees what was committed by
  the time of each of its statements.

## 2. Plan

The most important behaviour first. Done:

1. `GenerationKernel` + `PaidCallLedger`: runtime, stage commands, ownership, receipts. All safety
   properties of its runs are proved, partly under hypotheses that section 6 names, and so is the
   refinement.
2. `LocalTasks`, `ProjectDeletion`, `FormalVersions`, `KnowledgeIndex`, `ProviderProfiles`,
   `Maintenance`: the services that share rows, files and locks. All their safety and action
   properties are proved, where section 6 names no hypothesis for any value of the constants.
3. `StageBudget`, `ProviderCall`, `ReferenceStyles`, `RequestMaterial`, `BookIntake`, `StageFacts`,
   `Templates`, `SystemArchive`, `Reading`, `Retrieval`: model-checked; `StageBudget`, `ProviderCall`,
   `ReferenceStyles`, `Templates`, `SystemArchive`, `Reading` and `Retrieval` proved as well.

Left, in this order:

4. Proofs for the rest of group 3, the formal texts of a stage (`FactsAreSound`) first.
5. The choice of the next action in full (`longform.py choose_next`, which is a linear order in
   the kernel), and the trial pipeline.

## 3. The kernel model

`GenerationKernel` keeps the names of the code. A *batch* is a row of `generation_batches` reduced
to `status`, `authorized`, `pause`, `next` (the action in `next_action`), `base` (the formal
version it continues) and `state`, the JSON column. A *call* is a row of `generation_calls` keyed
by stage and slot: slots `1..Steps` are the ordinary slots of the actions 1 (the Chief plan), 2
(a unit), 3 (its handoff) and so on; slots above are the one-time replacement slots of step
recovery. `at` is the order of calls within a stage, `rev` and `text` the checkpoint a call was
claimed at.

Text, prompts, fingerprints, prices and token counts are abstracted. Fingerprints of previews become
equality of the number of author edits (`rev`); the candidate is one of four values of `Texts`;
an answer is usable (`good`), complete but unusable (`bad`) or cut off (`cut`).

Two rules decide what is one action:

* A transaction that locks its row before reading it is one action.
* A transaction that reads first is two: `ClaimRead`/`Claim`, `CompileRead`/`Compile`,
  `FailRead`/`FailWrite`, `FinishErrorRead`/`FinishError`, `RevalidateRead`/`RevalidateCompile`.
  The read stores the row in `seen`; the second action computes from `seen` and `Flush` writes the
  columns that differ from it, and the JSON column always.

Between two awaits a coroutine runs alone, so a stretch without an await and without a transaction
belongs to the action beside it (for instance the done callback that starts a requested task again
is part of `EndTask`).

| Code | Actions |
| --- | --- |
| commands of `GenerationService` and the generation routes | `Create`, `Authorize`, `Pause`, `AuthorizeInput`, `AuthorizeStep`, `ResolveUnknown`, `EditPlan`, `EditCandidate`, `Adopt`; `Start` is the route after its commit |
| `GenerationRuntime.claim` | `ClaimRead`, then `ClaimNothing`, `ClaimRefused`, `ClaimTooLarge` or `Claim` |
| `dispatch` | `SendRefused`, `Send`, `Receive`, `NoAnswer`, `SaveJournal` |
| `persist_response`, `forget_response` | `Store`, `Forget` |
| `compile_response` | `CompileRead`, `Compile`, `CompileRaises` |
| `local_failure`, `finish_error` | `FailRead`, `FailWrite`, `FinishErrorRead`, `FinishError`, `FinishErrorFails` |
| `maintain_once`, `_acquire_owner`, `check_owner`, `reconcile` | `AcquireOwner`, `OpenService`, `DiscardOwner`; `LoseOwner` is the connection breaking |
| `recover_responses` | `Recover` |
| start and end of a process | `Boot`, `Drain`, `Cancel`, `Close`, `Crash` |
| the revalidate route | `Revalidate`, `RevalidateRead`, `RevalidateCompile` |

`sent`, `got`, `lost` and `handoffs` are not in the code: they record what happened on the wire,
what arrived, which receipts died with their only holder, and how often an answer became work.

`PaidCallLedger` is the promise without processes, locks or stages: claim durably, send once,
receive once, store unchanged, deliver only a stored good answer. The kernel implements it
through `claimed <- calls with a row`, `answer <- got`, `stored <- call.response`,
`delivered <- calls with a handoff` (`LedgerSpec`).

## 4. The services

Each module has variables of its own; what a service reads of another (a formal version, the calls
in flight) is part of its own module, reduced to what it reads. The header comment of a module says
what it is about and `map` in `PROJECT.json` which lines each definition stands for.

**`LocalTasks`** keeps one row per task (`status`, the `input` version of its manifest, the lease as
`owner` and `expired`, the content it produced as the worker that produced it, the request that
made it), the idempotency records of `queue_local_task`, the artifact files, the search index and
the place of each worker in its tick (`Claim`, `Begin`, for a rebuild `Sources`, `Delete`,
`Insert`, else `Write`, then `Finish` or `Fail`). Time is the action that lets a lease run out. The
three statements of a rebuild are separate because other transactions commit between them: its
`DELETE` does not see documents committed after the statement started (`after`), and the unique key of
`search_documents` then rolls the later rebuild back, as the foreign key does when a version it read
was pruned (`Admitted`). The index is the set of versions its documents are of and the set of those
with documents marked current, because that is what `status` counts: a blank version leaves none
(`documented`), and a version that is pruned or loses its chapters takes its own along
(`LoseDocuments`), so an index may hold nothing that is outdated and be called ready all the same.

**`ProjectDeletion`** separates the transaction that removes the rows and writes a receipt from the
cleanup, which removes one file per step, may stop anywhere and is asked for again. Both lock every
table; what interleaves are workers that write files outside transactions (a staged import, an
export that is already claimed, the workspace mirror). `disk` says who wrote which content where.

**`FormalVersions`** has one action per command (`Adopt`, `Rollback`, `Truncate`, `RestartStory`,
`EditBlueprint`, `RenameTitles`, `Prune`, `Shelve`, ...), because every command locks the project
row; the evidence of a version stands for scenes and events of its state. A stage and a legacy
workspace are `Works` with a base version.

**`KnowledgeIndex`** has ticks of several processes, each of which embeds a few pieces per
transaction with the model it has loaded, and an operator who installs another model file by
file with the manifest last (`Install`). A process verifies the hashes of both files and then opens
each of them again by its path (`VerifyFiles`, `OpenModel`, `OpenTokenizer`), so the installation may
replace a file in between; a copy in memory says which files were verified and which were opened. **`Retrieval`** has the frozen sources of a batch, the
corpora and their cache, the receipt and the entries of the world a request is given; scores are
abstracted to any order.

**`ProviderProfiles`** treats a request as atomic up to its awaits: a probe waits for the provider
and a deletion for the database, and other requests run meanwhile; a verification script is a
second process with its own view of the registry. **`ProviderCall`** follows one request through the
hooks around it, the pieces of its body, the deadline and the judgement of three adapters.

**`Maintenance`** has servers, their connections and calls against two tools that take leases, an
advisory lock and `SHARE` locks, and may die anywhere; `Home` says which servers share the data
directory of a tool, since the others are kept out by the database only. **`SystemArchive`** has the
archive command check by check beside a developer who moves the repository and an operator who
edits the configuration, the inspection, and the drill.

**`StageBudget`** has the slots and the price of a stage in units (input and output limits are 1 or
2), the four grants and what each binds; the author agrees to the smallest total a preview accepts.
**`RequestMaterial`** counts material in thousands of tokens: which records a target lets in, the
loop that halves the target until the request fits, and the wider limit an author may grant before
any action that follows the plan, a checkpoint of the chief included, whether it was refused or not
yet tried (`eligible`, `input_recovery.py` 25). The preview measures with a plain lookup over the
frozen sources, or the one saved with a refusal; the request makes one of its own (`measured`).
**`StageFacts`** has text as paragraphs and evidence as (chapter, paragraph, words), and follows a
report through compilation, collection, handing out to chapters and adoption.

**`ReferenceStyles`** has commands that read first and write later on several desks, a file that
changes on disk, and stories that are deleted. **`BookIntake`** has setup drafts, uploads whose
staged file another program may touch, backups, restored copies, and the mirror file by file.
**`Templates`** has two stores of version files and pointers under a file lock that a dying process
lets go. **`Reading`** has the rebuild, the search and the view statement by statement against
versions, renamed titles, truncations and deletions, and the repairs of damaged facts.

`MCServices` checks them side by side. Its variable `scope` is chosen in the initial state: a
behaviour explores one service while all others rest in one initial state (`InitServices` pins
those that have several). What two services share is inside a module, so no interaction is lost by
this; it lets one run answer for all of them. `MCLiveness` does the same for the kernel, the local
tasks and the vector index, with the fairness of each guarded by the scope.

## 5. Runs

`Faults`/`MaxFaults` of the kernel say which failures may happen and how many in one behaviour;
every other step is unrestricted.

| Run | Instance | Distinct states | Shows |
| --- | --- | --- | --- |
| `stage_faults` | 1 stage of 4 actions, the last an independent cold read, 1 replacement slot, an author edit, 1 fault of crash, owner, disk, drain, cancel | 1,130,673 | `TypeOK`, `NoSilentResend`, `ActiveStageHasTask`, `ExecutingIsAttended`, `CompletedIsRemembered`, `StepsAreSound`, `PauseNotLost` |
| `receipts` | 2 actions, 1 replacement slot, a revalidation request, 2 faults of crash, disk, database (with the lost acknowledgement), drain, cancel | 1,174,505 | `ReceiptKept`, `LedgerSpec` |
| `shared` | 2 processes, the first loses the lock once, 2 stages of 2 actions | 526,708 | `SentAtMostOnce`, `OneExecuting`, `VersionsAreFollowed` |
| `liveness` | a stage of 3 actions with 2 faults; local tasks with 2 workers; the index with 2 versions, 2 workers, 2 models | 148,256 | `ReceiptSettles`, `ExecutingEnds`, `PauseObeyed`, `TaskEnds`, `IndexFollowsModel` |
| `services` | see below | 486,630 | 23 properties, one or two for each service |

In `services` (states per scope): tasks 51,074; deletion 23,718; versions 17,478; knowledge 71,575;
profiles 24,198; maintenance 17,741; budget 45,218; call 12,494; styles 11,014; request 22,984;
intake 20,875 and the mirror 56; facts 3,266; templates 24,444; archives 32,010; reading 73,165;
retrieval 35,320. The properties: `TasksAreSound`, `ReadyIsCurrent`, `EndsOnce` (tasks);
`DeletionIsSound`, `RemovedAsConfirmed`; `EvidenceMatches`, `VersionsAreSound`, `WorkIsCurrent`;
`HybridIsRight`; `ProfilesAreSound`, `DeletedIsNotSent`; `OfflineToolsAreSafe`; `BudgetHolds`;
`AnswersAreTrue`; `StyleIsTraceable`; `RequestIsSound`; `IntakeIsSound`; `FactsAreSound`;
`TemplatesAreSound`; `ArchivesAreSound`; `ReadingIsSound`; `RetrievalIsSound`; and the types of all
of them in `ServicesTypeOK`.

Why these bounds are enough to be interesting. The hazards need a step in flight, one actor that
read before another wrote, and at most two failures (one that creates the situation and one that
hits its handling): a crash after an answer and a disk failure before it, a lost lock and a
cancelled task. Three actions give a first, a middle and a last one, four also a report that is
skipped for the cold read; a replacement slot gives a replay; two stages give replacement and
competing adoption; two processes give a late owner. A service has two of what competes in it (workers, versions, models, endpoints, directories, desks, stories)
and one or two mishaps. Two combinations are narrowed in `MCServices` to keep the run short
(`MissedByRebuilds`, `TroubledAlone`): a version without documents meets rebuilds only and, after a
worker died, one task only; ticks are lost, rebuilds asked for and model files replaced under a tick
while one version has an index, and two versions share their vectors without a mishap, the files
being replaced when both are embedded. The proofs know neither limit. What every bound bounds: `MaxTasks`, `MaxVersion`, `MaxFaults` (lost leases
and failures), `MaxActs` and `MaxStops` (other commands and stops of a cleanup), `MaxChapters`,
`MaxNumber` (versions), `MaxModel`, `MaxTroubles` (lost and failing ticks), `MaxChanges`,
`MaxMishaps`, `MaxAccidents` (deaths and broken connections), `MaxSetbacks` (failures and edits of a
design), `MaxEvents` (pieces of a body), `MaxProfiles`, `MaxReviews`, `MaxRewrites`, `MaxRounds`
(of the shrinking loop), `MaxBooks`, `MaxCopies`, `MaxEdits`, `MaxUnits`. Symmetry is used over stages and processes in the safety run
`shared` only. Deadlock is not checked where a stage waits for its author, or a book may be left
alone: these are legitimate ends.

Every property of a passing run has a mutant of the code it depends on (a dropped guard, a retry
after a timeout, a flush of every column, a stale lock test and so on) that TLC finds with the same
run; they are operators beside the originals in the modules, so a reader can see what each property
is sensitive to.

### Bounds that hide something

* `shared` checks two processes with two actions, no replacement slot and no cold read. With
  replacement slots `NoSilentResend` fails for two processes: a late `finish_error` of the old owner
  flips a call its author had closed back to `outcome_uncertain` and resets the receipt of its
  replay, after which the replay claims again. With a cold read `OneExecuting` fails: the stale
  claim of the cold read by the old owner executes beside the new owner's replay of the skipped
  report. Both need a lost lock. Without a cold read, with 3 actions and a replacement slot, 4
  million states to depth 43 showed no violation.
* With a revalidation request `CompletedIsRemembered` and `ActiveStageHasTask` fail, from the stale
  reads of finding `recompiled`; `NoSilentResend` and `StepsAreSound` showed no violation in 4 to 7
  million states with one or two requests.
* `ActiveStageHasTask` fails with two stages: the adoption of the other stage archives one whose
  answer is saved, the compilation writes it back as `queued` without authorization, and the task
  ends; a restart or the author's pause has to end it. It also needs the commit of an authorization
  to be acknowledged.
* `ExecutingIsAttended` needs a database that accepts the write that records an error: when marking
  it fails and the fallback succeeds, the call stays executing until the next restart
  (`generation/runtime.py` 307).
* `VerifiedIsMeasured` needs that no verification script runs beside the application
  (`ScriptProbes = FALSE`): the script overwrites what the application changed meanwhile.
* `MirrorIsHonest`, a part of `IntakeIsSound`, is checked with one synchronisation of a book at a
  time. With two (`Syncers = {z1, z2}`) TLC finds it violated in six steps: `sync`
  (`project_workspaces.py` 69) reads the version, then writes the texts (84) and last the manifest
  (144) without a lock; one that began with the older version writes its text over that of a newer
  one before the newer writes its manifest, and `up_to_date` (62) calls the older text current until the next
  synchronisation, or until the slower one writes its own manifest.
* `FormalVersions` checks books that were begun here and whose author does not delete truncated
  chapters; the two findings are what happens otherwise.

### Fairness

Safety runs assume none. `FairSpec` of the kernel gives weak fairness to what the deployment and the
loops of the program do by themselves:

| Fair | Because |
| --- | --- |
| `Boot` | `docker-compose.yml` restarts the container unless it was stopped |
| `AcquireOwner`, `OpenService`, `DiscardOwner`, `Recover` | the maintenance loop runs them every few seconds and survives their exceptions |
| `Run(p, b)`, all steps of one task as one action | asyncio runs a task that can run, and every await in it has a deadline (the request, the statement, the lock) |
| `Start` | the route calls `start` right after its commit |
| `Close` | draining ends after the grace period |

`Run` is one fair action, so a task is not promised that a particular branch is taken: whether an
answer comes or a disk write fails stays open. Authors promise nothing and faults are never forced;
both are finite in number by their bounds. Local tasks: `Tick` of a worker (its loop) and `ExpireDead`
(the lease of a dead worker runs out by the clock); a lease that runs out under a live worker
(`ExpireLate`) is a bounded fault. The index: `KnowledgeTick` of each worker. `PreparationEnds` assumes
only that the loop of `prepare_request` goes on running.

## 6. Proofs

The proofs hold for every value of the constants that satisfies the named assumptions of the
modules (bounds are naturals, sets do not overlap, at least one action, one process and so on); these
assumptions are what the code or the shape of a row gives. Where a theorem needs more, the hypothesis
stands in its statement and is explained here.

| Theorem | Property | Hypothesis |
| --- | --- | --- |
| `GenerationKernel_proofs` `TypeCorrect` | `TypeOK` | |
| `GenerationKernel_proofs` `SendOnce` | `SentAtMostOnce` | |
| `GenerationKernel_proofs` `LedgerRefined` | `LedgerSpec`, the refinement | |
| `GenerationKernel_proofs` `ReceiptsKept` | `ReceiptKept` | |
| `GenerationKernel_proofs` `VersionsFollowed` | `VersionsAreFollowed` | |
| `GenerationKernel_proofs` `PausesHonoured` | `PauseNotLost` | |
| `GenerationKernel_proofs` `ExecutingAttended` | `ExecutingIsAttended` | one process; the error write is accepted |
| `OneExecutor_proofs` `NothingResent` | `NoSilentResend` | `OneExecutor` |
| `OneExecutor_proofs` `StepsSound` | `StepsAreSound` | `OneExecutor` |
| `OneExecutor_proofs` `CompletedRemembered` | `CompletedIsRemembered` | `OneExecutor` |
| `OneExecutor_proofs` `OneExecutes` | `OneExecuting` | `OneExecutor`, no cold read |
| `OneExecutor_proofs` `ActiveDriven` | `ActiveStageHasTask` | `OneExecutor`, one stage, acknowledged commits |
| `Services_proofs` `TasksSound`, `ReadyCorrect`, `TasksEndOnce` | `TasksAreSound`, `ReadyIsCurrent`, `EndsOnce` | |
| `Deletions_proofs` `DeletionSound`, `RemovedConfirmed` | `DeletionIsSound`, `RemovedAsConfirmed` | |
| `Deletions_proofs` `ProfilesSound` | `ProfilesAreSound` | no verification script |
| `Deletions_proofs` `DeletedUnsent` | `DeletedIsNotSent` | |
| `FormalVersions_proofs` `EvidenceFollows` | `EvidenceMatches` | begun here, nothing removed that was adopted |
| `FormalVersions_proofs` `VersionsSound` | `VersionsAreSound` | nothing removed that was adopted |
| `FormalVersions_proofs` `WorkCurrent`, `BasesSurvive` | `WorkIsCurrent`, bases survive pruning | |
| `Operations_proofs` `HybridRight`, `OfflineSafe` | `HybridIsRight`, `OfflineToolsAreSafe` | |
| `Operations_proofs` `ArchivesSound` | `ArchivesAreSound` | |
| `Services_proofs` `TemplatesSound` | `TemplatesAreSound` | |
| `Services_proofs` `AnswersTrue` | `AnswersAreTrue` | |
| `Services_proofs` `RequestSound` | `RequestIsSound` | |
| `StageBudget_proofs` `BudgetSound` | `BudgetHolds` | |
| `Library_proofs` `StylesTraceable` | `StyleIsTraceable` | |
| `Library_proofs` `ReadingSound` | `ReadingIsSound` | |
| `Library_proofs` `RetrievalSound` | `RetrievalIsSound` | |

Each of the service modules also has the theorem of its types (`FormalTyped`, `KnowledgeTyped`,
`MaintenanceTyped`, `Services_proofs` `TypeCorrect`).

### The arguments

**Types** (`TypeInv`). The shapes of rows are not enough for the steps to be defined: a task works at
a slot only in the program points that have one, and a receipt that names a failed call names a slot.
These two are carried along.

**The ledger** (`LedgerInv`). `TaskLedger`: a task that is about to send is the only one at its call
(`OneSender`), and its call was claimed and not sent; `ReceiptLedger`: an answer that is kept anywhere is
the one that came; `CallLedger` and `RequestLedger`: what a row stores is what came, and what was
compiled was stored. Steps that touch none of it are treated at once (`Quiet`). From the same
invariant every step of the kernel is a step of `PaidCallLedger` or a stutter (`KeepsLedger`),
which is the refinement.

**Receipts**. An action property over three places (row, journal, memory): `KeepsAll` says of each
step that an answer in one of them is afterwards in one of them, or that the end of a process has
noted it as lost. Only `Forget` and the end of a process take anything away.

**Versions** (`FollowInv`). A call executes only in a stage that continues the current version
although a late owner writes stale rows: calls in flight are current (`CallsCurrent`), because adoption
refuses while one is in flight; what a task has read has the base of its stage (`SeenBase`), because a
flush never assigns it.

**Pauses** (`PauseInv`). No hypothesis: a flush writes the columns that differ from what was read,
and no handler assigns the pause, so a stale row cannot take one back. What the invariant adds is that
calls, and pauses, belong to stages that exist, so that creating a stage erases none.

**Attended calls** (`AttendInv`). A call that executes is attended by the task that holds it or, once
its answer is known, by a receipt while its process serves. The hypotheses are those of the
design: one process (`SoleProcess`), and a database that accepts the write that records an error
(`"db" \notin Faults`); section 5 says what happens without.

**One executor** (`ExecutorInv`). `OneExecutor` is what the advisory lock is for: one process, and no
revalidation that compiles beside its task. The difficulty is that a task claims by a row it read
without a lock, while its author edits, pauses or authorizes the stored one, and then writes
the JSON column it remembers back. So the invariant speaks of the stored row and of every
remembered one alike: whatever either could claim next is due (`NextIsDue`), a replay that is
authorized and not claimed is one of the last call, which is closed (`ReplayIsDue`), a task works
on the last call of its stage (`WorksOnLast`), calls are in the order of their actions
(`CallsInOrder`), what the JSON column calls done is completed (`DoneIsCompleted`), and the task is
alone (`OwnerIsAlone`). `OneExecuting` needs in addition that no report is skipped for the cold read.

**Active stages** (`ActiveInv`, on top of `ExecutorInv`). A stage is driven by one task that works from the
row it read, and an author may stop and authorize the stage anew between any two of its steps.
`Working`: what a task holds for the call it is at differs from the stored row only by a pause.
`Noticed`: a task that would end by a row that is out of date finds nothing to claim or writes columns that
have not changed, so whoever authorized the stage meanwhile asked for another task. `Driven`: a stage
without a task is not running, and a queued one has somebody who is about to start it. The hypotheses
are those of section 5: one process executes, one stage, and a commit that was made is acknowledged.

**Local tasks** (`IndInv`: `Assigned`, `Written`, `Owned`, `Requested`). A worker may write an
artifact after its lease was given to another; what makes the row and the file agree is that a
completion checks the lease under the row lock, and that the file's name has its content.

**Profiles** (`ProfilesInv`, `SendingInv`). A verification claim names the endpoint that was measured,
a probe pins its profile, and a claim under way is queued so that the deletion guard sees it; nothing
commits while the guard holds its locks. With `ScriptProbes` the first fails.

**Deletion** (`DeletionInv`). A deleted book has no rows; the plan of a receipt is what was confirmed;
while a cleaner holds its locks what others can reach only shrinks; every file that is left is
planned or was written late.

**Formal versions** (`FormalInv`). Every version has its base (`Founded`), what a text, a workspace or a
link uses is not pruned (`Used`), rows and lists agree (`Listed`, `Placed`). The hypotheses
(`~RestoredBook`, `~RemovesAdopted`) exclude exactly the two findings of section 7.

**The search index** (`IndexInv`, on top of `IndInv`). The index holds documents only of versions that
still leave some, and no task was begun for a version to come (`Bounded`). A rebuild that was begun for
the current version has read all documents there are, and what it sees committed behind its back is in the
index (`WhatWasRead`). Where the current version is marked, all documents there are belong to the index, and
to what any rebuild beside it saw (`MarkedWhole`): two rebuilds that both delete before they insert keep
each other's documents, so each must be whole. `status` counts what is marked of other versions; without
such rows a ready index marks the current version alone, or nothing.

**Vector index** (`KnowledgeInv`). An index that is ready has a vector of its key for every piece. Whose
vector it is needs the order in which things are read (`InOrder`): the manifest goes forward only, the
files are at most one model ahead of it, so whatever still has the key of the installed manifest was
verified under it, and what was opened since is of that model or of the one whose installation has not
come to its manifest (`Genuine`). That last case is what the property leaves out, and section 7 says why.

**Offline tools** (`MaintenanceInv`). A tool that has passed its guards holds the directories and
the lock, so that the servers there are down and nobody writes a row.

**Archives**. While a making holds its lease nobody writes rows or files, so the dump and the copies are
of one moment; what was read of the repository still holds, or the difference has been noticed; what
is staged was checked for credentials after it was copied. An archive gets its name last, and a drill
restores the rows in one transaction after the files are in place.

**Templates**. For whoever holds the lock of a store: what is left to write continues the bundle that is
current, and the version is on file before the pointer names it. A command that dies in between
leaves a version nobody names.

**The paid request**. What an adapter knows is the fold of the events it has read; that it knows the end,
the text and the price only from events that were sent is shown for every length of a stream by
induction over a set of naturals. The evidence that is saved is one piece behind only
between a piece and the hook that takes it, so an answer that is saved has all pieces.

**The budget** (`BudgetInv`). That what is spent stays below what was agreed to is not inductive: a claim
compares no price, it only looks for a slot or for an authorization that fits. So the invariant
keeps room for whatever can still be claimed (`Headroom`): what the calls cost or may be charged,
the price of the slots nobody has used, and the price of each authorized repeat together stay
within the budget in force. The rest says that nothing else can be claimed.

* An action is sent in its slot once, a repeat directly follows the failed call it replaces
  (`History`), and a repeated report is by the one receipt there is for it (`ByReport`).
* An authorized repeat can be claimed only while the call it replaces is the last one. The code says
  so by comparing what the receipt has bound (`bindings`, `restore`) with the row; the proof
  needs that this comparison fails for ever once the stage has moved on. `StepStands` and `ReportStands`
  give the reason: the plan, the amendment and the authorizations only ever grow (`Mark`,
  `Course`), and a failed call comes back with the marks it was sent with (`ResumeFits`).
* A replay counts the failed action and the unused slots listed after it. In an amendment these are all
  that is left, because its steps run in the order of their list, or a failure was passed over for
  good and no replay is granted any more (`InOrder`). In a stage they need not be: that is the finding
  `replay_uncovered`, and exactly what `ReplayedEarly` in the property leaves out.
* No call was sent with a larger input limit than the one now in force (`InputsFit`), so the total of a
  replay, which is computed at the limits in force, covers the call it repeats.

**Styles** (`StylesInv`). Commands on the profiles of a story take no lock, so a page may write what it
computed from rows that have changed since. What makes the rules traceable all the same: a version keeps
the passages it was drafted from, and an edit takes its evidence only from those; a version number is
written once per story, which the unique key sees to; the passages of a draft, stored or held by a page,
are rows of its story unless that story was deleted, and then no version of it exists any more. That
the passages are offered fairly is a statement about a finite strict order: the first of each
chapter precede all others, and a candidate has fewer than `Quota` passages before it.

**The reading desk** (`ReadingInv`). A search takes five statements, and a rebuild may commit between any
two of them, also a late one of an older version. What makes "ready" true is that the newest rebuild
never goes back: all current documents are of one version, a rebuild under way began at that version or
later (`IndexSound`), so once the documents were seen to be of the version the page asked for, whatever
is inserted before the page is read is not older than the beginning of the search (`SinceStart`).
That the database is looked at for documents and not only for their absence (`held`) is needed: an empty
index has no outdated document. A walk (`SearchSteady`): what was shown is what the first
`cursor` rows of the sorted matches show, because the cursor counts rows and not what is shown;
two pages in turn show what one page of both would (`ShownInTurn`), and the sort lists every match
because no two rows of an index agree in version, kind and source (`OrderedPrecedes`). A chapter that
comes after a version was read is not in it, so a view has all chapters of its version that are left.

**What a request is told of the book** (`RetrievalInv`). The frozen texts may be damaged at any time, and
corpora are found again under a key that has everything of the texts but the words. Two facts make
the result right all the same: a frozen text that still matches its digest is the text of its version
(`FrozenSound`), and nothing is prepared from texts that do not all match; a corpus in the cache is made
of exactly the texts its key names (`CacheSound`), so one that is found is the one that would be made.
The pieces of a text cover it because a piece begins before the one before it ends (`CutMoves`,
`PiecesCover`). The entries that are named by what is named are complete after as many rounds as there are
entries, because a round that adds nothing is the last one and all others add one (`DependenciesClosed`);
an entry given in full comes with its closure, and what was told before was closed already
(`WorldDetails`).

**What a request holds** (`RequestInv`). The packet is the outcome of a fold of offers over a target that
changes from round to round, so the invariant does not say how it was made but what it has: it contains
the bare packet (what is required whatever the target), it is that packet or within the target, its
records are closed, and a record that was found and is not in it would not fit (`Chosen`). The last
follows for a whole sequence of offers because a packet only grows, and what did not fit into a smaller
packet does not fit into a larger one: closure and weight are monotone (`WithHitIs`, `WeightGrows`).
With the target zero the packet weighs what the bare one weighs (`ZeroSettles`); that is why a limit
that a preview measured with other passages is still enough (`AllowanceRight`). It is not for the chief,
whose bare packet quotes the first passage that was found (`BareWeighs`): a checkpoint of the chief may be
refused at the limit its preview offered, but only if it has to quote a longer paragraph than the preview
saw, and that is all the property leaves out (section 7). That nothing
frozen changes in a step is shown operator by operator (`SameChosen`). Five rounds are enough because
each target is at most half the one before (`FewRounds`).

### What is only model-checked

* *Liveness* (`ReceiptSettles`, `ExecutingEnds`, `PauseObeyed`, `TaskEnds`, `IndexFollowsModel`, and
  `PreparationEnds`): fairness is stated with ENABLED, which the prover does not have.
* The rest of group 3 of the plan (`IntakeIsSound`, `FactsAreSound`). Much of them says what a fold over paragraphs
  or facts computes. A fold and a recursive function can be unfolded, and an induction over
  a set of naturals be done, as for the paid request; what is written with the library's recursive
  operators on sequences cannot be reasoned about here.

## 7. What the code does against its own words

Seven runs end in a counterexample. Each property states what a test, a comment, a refusal or the
interface of the repository says; `findings` in `PROJECT.json` quotes the line.

| Run | Property | What happens |
| --- | --- | --- |
| `superseded_resurrected` | `SupersededStaysArchived` | `claim` waits for the row lock with a stage it has already loaded, so a stage that was superseded meanwhile is written back as running |
| `unknown_superseded` | `UnknownCanBeClosed` | the unknown call of an archived stage blocks every adoption, and the command that closes unknown calls refuses archived stages |
| `recompiled` | `NeverRecompiled` | a revalidation and the task of the stage both read an answer as uncompiled and compile it twice; the stage has left "running" before by the stale flush of an earlier revalidation |
| `replay_uncovered` | `ReplayCovered` | the total an author confirms for a replay leaves out the units that run after the failed checkpoint |
| `preparation_endless` | `PreparationEnds` | a local edit that does not fit is rendered for ever |
| `truncated_unreadable` | `VersionsReadable` | removing a truncated chapter deletes texts that older formal versions list |
| `restored_truncation` | `EvidenceMatches` | truncating a restored or imported book keeps the evidence of the chapters that are gone |

Smaller observations met while modelling, which no run checks:

*Kernel and recovery.* `analyze_setting_impact` looks for "committed" where adoption writes "accepted".
Step recovery and memory recovery of one stage combine to dead ends: each binds what it saw of budget
and limits, a memory completion that fails again can never be step-recovered, and a preview
of an amendment after a failure changes the checkpoint that the step recovery is bound to. A relocation
of receipts refuses all of them if one call was closed by its author. `persist_response` needs
no advisory lock, so an answer is also stored by a process that lost it.

*Formal versions and index.* `run_authorizations.base_version_id` is not among the references that
pruning respects. Truncation drops author edits of the blueprint made since the base. A version
with a deleted chapter makes `KnowledgeService.sources` raise, which holds up the other rows of a tick.

*Embedding model.* `_load` verifies both files and then opens them again by path (`embedding.py` 57-70),
and an installation may replace one in between (`install_model.py`): vectors of the next model are then
saved under the key of the installed one, and the index is called ready. `docs/KNOWLEDGE.md` 7 says
"不混用不同模型的向量". It passes once the new manifest is there, because its key is another; it stays if
the installation is given up before. TLC shows it when the exception in `HybridIsRight` (the
alternatives `installed.onnx` and `installed.tokenizer` of `OfInstalled`) is taken away. A query loads
the model by the same function.

*Local index.* An index rebuilt while the book is blank, or by a late rebuild of a blank version, or
whose outdated documents went with a pruned version, has no outdated document and stays "ready",
though it shows nothing, or nothing of the current version, after chapters are adopted; the page
rebuilds by itself only what is "not_built" or "stale". `ReadyIsCurrent` speaks of an index that marks
something as current.

*Wider limits.* For a checkpoint of the chief (`chief:1`, `chief:2`) the preview quotes the passage of a
plain lookup and the request that of its own; the limit an author accepted may be refused once more.
The lookup saved with that refusal is used by the next preview, so a second grant is right.

*Intake.* An imported manuscript whose chapters have gaps is adopted under ordinal `len + 1`;
text before "第1章" under a heading of its own gives two chapters with one ordinal; a backup with
a mixed card pool inspects as valid and cannot be restored; a second draft bound to a committed
preview returns the first book and overwrites its style.

*Archives.* The data-root check refuses entries the program itself writes (`data/prompt-templates`),
so that no archive can be made once a template was saved; the check compares the head before and
after, so a repository that moved and came back passes; a failed `pg_restore` leaves a directory that a
retry refuses.

*Reading desk.* Places, beliefs and events are not searched; an offset of a match in a title is used as one in the text.

*Templates and styles.* Two concurrent activations give two active styles; a story that holds the global
default cannot be deleted; a legacy chief text near its limit cannot be adapted and makes
`current` raise from then on.

*Providers.* An answer without usage counts as zero tokens; the same refusal is an unknown outcome
in one adapter and a local failure in another.

## 8. What is not modelled

* **Text.** Prompts, contracts, renderers, headings, excerpts, token counting, prices beyond units.
  They are functions without state; what they drop or keep is modelled where a property needs it
  (`RequestMaterial`, `Retrieval`, `StageFacts`).
* **The order of actions in full.** The kernel has a linear order with an independent cold read;
  `StageBudget` has the branches that matter to a price. The trial pipeline is not modelled.
* **Other isolation levels and clocks.** Transactions are READ COMMITTED as the engine is configured;
  deadlines and leases are events that may happen at any time, so clock skew is within the model
  only as far as leases run out early.
* **HTTP surface, dashboards, reader site, deployment, scripts, migrations, frontend.** They
  translate, display or install; the routes that have an effect after their commit are in the kernel
  (`Start`, `Revalidate`). Migrations take the storage lease only, which `Maintenance` does not cover.
* Within modules: a revalidation that only moves an answer to a newer parser (`Revalidate`,
  `NothingToCompile` of the kernel); a Responses stream whose completed event carries a text of its own
  that came in no delta (`openai.py` 281), in `ProviderCall`; queries of the vector index; legacy writing-session documents, bookmarks and summaries of `Reading`; correction
  rounds asked by memory reports, editor and title slots of `StageBudget`; parts of records that
  `RequestMaterial` treats as one size; local tasks with other manifests than the two modelled.
