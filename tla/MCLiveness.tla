----------------------------- MODULE MCLiveness -----------------------------
(***************************************************************************)
(* What must happen at last, in the three parts of the system that work in *)
(* the background: the generation kernel, the queue of local tasks and the *)
(* vector index.  A behaviour explores one of them; the others rest, and   *)
(* their fairness asks nothing of them.                                    *)
(***************************************************************************)
EXTENDS MCKernel, KnowledgeIndex

CONSTANTS
  Workers, NoWorker, Keys, MaxTasks, MaxVersion, MaxLocalFaults,
  v1, v2, t1, t2, t3

VARIABLES
  scope,                                       \* the part a behaviour explores
  formal, kept, rows, records, files, index, worker, mishaps

Local == INSTANCE LocalTasks WITH
  version <- formal, documented <- kept, task <- rows, keys <- records, faults <- mishaps,
  MaxFaults <- MaxLocalFaults

localVars    == <<formal, kept, rows, records, files, index, worker, mishaps>>
livenessVars == <<scope, vars, localVars, knowledgeVars>>

MCCut == (v1 :> {t1, t2}) @@ (v2 :> {t2})

InitLiveness ==
  /\ scope \in {"kernel", "tasks", "knowledge"}
  /\ Init /\ Local!Init /\ kept = {1}
  /\ InitKnowledge /\ (scope = "knowledge" \/ installed.manifest = 0)

(* Ticks are lost and fail, and rebuilds are asked for, while one version  *)
(* has an index; two versions share their pieces while all goes well.      *)
TroubledAlone == troubles = 0 \/ Cardinality({v \in Editions : entry[v] # NoEntry}) = 1

KernelStep ==
  /\ scope = "kernel" /\ Next
  /\ UNCHANGED <<scope, localVars, knowledgeVars>>

(* What a rebuild finds does not decide whether it ends: every version     *)
(* leaves documents here.                                                  *)
TasksStep ==
  /\ scope = "tasks" /\ Local!Next /\ kept' = 1 .. formal'
  /\ UNCHANGED <<scope, vars, knowledgeVars>>

KnowledgeStep ==
  /\ scope = "knowledge" /\ NextKnowledge /\ TroubledAlone'
  /\ UNCHANGED <<scope, vars, localVars>>

(* The fairness of each part, as its module states it, while it is the one *)
(* explored.                                                               *)
KernelFairness ==
  \A p \in Procs :
    /\ WF_vars(scope = "kernel" /\ Boot(p)) /\ WF_vars(scope = "kernel" /\ AcquireOwner(p))
    /\ WF_vars(scope = "kernel" /\ OpenService(p))
    /\ WF_vars(scope = "kernel" /\ DiscardOwner(p)) /\ WF_vars(scope = "kernel" /\ Close(p))
    /\ \A b \in Batches : /\ WF_vars(scope = "kernel" /\ Run(p, b))
                          /\ WF_vars(scope = "kernel" /\ Start(p, b))
    /\ \A c \in Calls : WF_vars(scope = "kernel" /\ Recover(p, c))

TasksFairness ==
  /\ \A w \in Workers : WF_localVars(scope = "tasks" /\ Local!Tick(w))
  /\ \A t \in Local!Tasks : WF_localVars(scope = "tasks" /\ Local!ExpireDead(t))

IndexFairness ==
  \A i \in Indexers : WF_knowledgeVars(scope = "knowledge" /\ KnowledgeTick(i))

LivenessSpec ==
  /\ InitLiveness /\ [][KernelStep \/ TasksStep \/ KnowledgeStep]_livenessVars
  /\ KernelFairness /\ TasksFairness /\ IndexFairness

\* Queued tasks all come to an end (LocalTasks), although workers die with them and leases
\* are never renewed.
TaskEnds == Local!TaskEnds
=============================================================================
