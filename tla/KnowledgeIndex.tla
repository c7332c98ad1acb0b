---------------------------- MODULE KnowledgeIndex ----------------------------
(***************************************************************************)
(* The vector index of formal versions (novel_writer/knowledge).           *)
(*                                                                         *)
(* A trigger queues an index for every version.  The worker of each        *)
(* application process takes one under a row lock, cuts the sources of the *)
(* version into pieces, and embeds some pieces per transaction with the    *)
(* local model.  Meanwhile an operator may install another model, file by  *)
(* file; nothing but the model's manifest tells the worker, which verifies *)
(* the files by their hashes and then opens them again, one by one.        *)
(***************************************************************************)
EXTENDS Naturals, FiniteSets

CONSTANTS
    Editions,       \* formal versions
    Pieces,         \* texts of retrieval windows, shared between versions
    Cut,            \* Cut[v]: the pieces of version v
    Indexers,       \* workers of application processes
    PerTick,        \* pieces embedded in one transaction (16 in the code)
    MaxModel,       \* models installed one after the other, by number
    MaxTroubles     \* search bound: rebuilds an author asks for, and lost ticks

ASSUME KnowledgeAssumption ==
    /\ Cut \in [Editions -> SUBSET Pieces] /\ IsFiniteSet(Pieces)
    /\ PerTick \in Nat \ {0}
    /\ MaxModel \in Nat \ {0} /\ MaxTroubles \in Nat

VARIABLES
    installed,      \* the files of the model directory, by the model they are of
    entry,          \* knowledge_indexes
    chunked,        \* knowledge_chunks of each version
    vectors,        \* knowledge_vectors: by model key and piece, the copy that computed it
    indexer,        \* the tick of each worker
    loaded,         \* the copy of a model each process keeps in memory, under a key
    troubles        \* how much of the bound is used

knowledgeVars == <<installed, entry, chunked, vectors, indexer, loaded, troubles>>

Models == 1..MaxModel       \* a key is the hash of a manifest; 0 is no model
NoEntry == [status |-> "none", model |-> 0, error |-> FALSE]
AtRest  == [pc |-> "idle"]

Whole(m)   == [onnx |-> m, tokenizer |-> m]
FilesThere == [onnx |-> installed.onnx, tokenizer |-> installed.tokenizer]

(* What is in memory: the files whose hashes were verified, and those that *)
(* were opened.                                                            *)
NoModel == [hashed |-> Whole(0), opened |-> Whole(0)]
Nothing == [key |-> 0, model |-> NoModel]

IndexRecords == [status : {"none", "queued", "embedding", "ready", "lexical"},
                 model : 0..MaxModel, error : BOOLEAN]
ChunkRecords  == [Editions -> SUBSET Pieces]

ModelFiles    == [onnx : 0..MaxModel, tokenizer : 0..MaxModel]
ModelCopies   == [hashed : ModelFiles, opened : ModelFiles]
VectorRecords == [Models \X Pieces -> ModelCopies]      \* NoModel: there is none

KnowledgeTypeOK ==
    /\ installed \in [onnx : 0..MaxModel, tokenizer : 0..MaxModel, manifest : 0..MaxModel]
    /\ entry \in [Editions -> IndexRecords]
    /\ chunked \in ChunkRecords
    /\ vectors \in VectorRecords
    /\ loaded \in [Indexers -> [key : 0..MaxModel, model : ModelCopies]]
    /\ \A w \in Indexers : indexer[w] # AtRest =>
           indexer[w].todo \subseteq Pieces /\ Cardinality(indexer[w].todo) <= PerTick

InitKnowledge ==
    /\ installed \in {[onnx |-> m, tokenizer |-> m, manifest |-> m] : m \in {0, 1}}
    /\ entry = [v \in Editions |-> NoEntry]
    /\ chunked = [v \in Editions |-> {}]
    /\ vectors = [x \in Models \X Pieces |-> NoModel]
    /\ indexer = [w \in Indexers |-> AtRest]
    /\ loaded = [w \in Indexers |-> Nothing]
    /\ troubles = 0

-----------------------------------------------------------------------------
(* The files of the next model replace those of the last, its manifest     *)
(* comes after them.                                                       *)

Install ==
    LET next == installed.manifest + 1 IN
    /\ next <= MaxModel
    /\ installed' =
          IF installed.onnx # next THEN [installed EXCEPT !.onnx = next]
          ELSE IF installed.tokenizer # next THEN [installed EXCEPT !.tokenizer = next]
          ELSE [installed EXCEPT !.manifest = next]
    /\ UNCHANGED <<entry, chunked, vectors, indexer, loaded, troubles>>

Trouble == troubles < MaxTroubles /\ troubles' = troubles + 1

Held(v) == \E w \in Indexers : indexer[w].pc # "idle" /\ indexer[w].edition = v

PublishEdition(v) ==
    /\ entry[v] = NoEntry
    /\ entry' = [entry EXCEPT ![v].status = "queued"]
    /\ UNCHANGED <<installed, chunked, vectors, indexer, loaded, troubles>>

(* An update of the row waits for the worker that holds it.                *)
RebuildIndex(v) ==
    /\ entry[v] # NoEntry /\ ~Held(v) /\ Trouble
    /\ entry' = [entry EXCEPT ![v].status = "queued", ![v].error = FALSE]
    /\ UNCHANGED <<installed, chunked, vectors, indexer, loaded>>

-----------------------------------------------------------------------------
(* One tick is one transaction.                                            *)

DueUnlessReady(v, key) == entry[v].status \in {"queued", "embedding"}
Due(v, key) ==
    \/ entry[v].status \in {"queued", "embedding"}
    \/ /\ entry[v].status \in {"ready", "lexical"}
       /\ key # 0 /\ entry[v].model # key /\ ~entry[v].error

(* What the transaction leaves if it commits with this status.             *)
Commit(v, fresh, status, key, error) ==
    /\ chunked' = IF fresh THEN [chunked EXCEPT ![v] = Cut[v]] ELSE chunked
    /\ entry' = [entry EXCEPT ![v] = [status |-> status, model |-> key,
                                      error |-> error \/ (~fresh /\ @.error)]]

TodoSize(n) == IF n < PerTick THEN n ELSE PerTick

StartTick(w, v) ==
    LET key    == installed.manifest
        fresh  == entry[v].status = "queued"
        pieces == IF fresh THEN Cut[v] ELSE chunked[v]
        lacks  == {t \in pieces : key # 0 /\ vectors[<<key, t>>] = NoModel} IN
    /\ indexer[w] = AtRest /\ ~Held(v) /\ Due(v, key)
    /\ IF lacks = {}
       THEN /\ Commit(v, fresh, IF key = 0 THEN "lexical" ELSE "ready", key, FALSE)
            /\ UNCHANGED indexer
       ELSE /\ \E todo \in SUBSET lacks :
                  /\ Cardinality(todo) = TodoSize(Cardinality(lacks))
                  /\ indexer' = [indexer EXCEPT ![w] = [pc |-> "embed", edition |-> v,
                                    key |-> key, fresh |-> fresh, todo |-> todo,
                                    seen |-> 0, model |-> NoModel]]
            /\ UNCHANGED <<entry, chunked>>
    /\ UNCHANGED <<installed, vectors, loaded, troubles>>

(* embed looks at the manifest again, not at the key the tick began with.  *)
Identify(w) ==
    /\ indexer[w].pc = "embed" /\ installed.manifest # 0
    /\ indexer' = [indexer EXCEPT
          ![w].pc = IF loaded[w].key = installed.manifest THEN "save" ELSE "load",
          ![w].seen = installed.manifest]
    /\ UNCHANGED <<installed, entry, chunked, vectors, loaded, troubles>>

(* It reads the manifest a third time to check the files against it.  As   *)
(* they only go forward, the hashes taken one after the other say what     *)
(* they would at one moment, unless the check fails for being overtaken    *)
(* (EmbedFails) ...                                                        *)
IntactUnread == TRUE
Intact == FilesThere = Whole(installed.manifest)

VerifyFiles(w) ==
    /\ indexer[w].pc = "load"
    /\ IF Intact
       THEN /\ indexer' = [indexer EXCEPT ![w].pc = "open", ![w].model.hashed = FilesThere]
            /\ UNCHANGED <<entry, chunked>>
       ELSE /\ Commit(indexer[w].edition, indexer[w].fresh, "lexical", indexer[w].key, TRUE)
            /\ indexer' = [indexer EXCEPT ![w] = AtRest]
    /\ UNCHANGED <<installed, vectors, loaded, troubles>>

(* ... and then opens each by its path, whatever is there by now.          *)
OpenModel(w) ==
    /\ indexer[w].pc = "open"
    /\ indexer' = [indexer EXCEPT ![w].pc = "tokens", ![w].model.opened.onnx = installed.onnx]
    /\ UNCHANGED <<installed, entry, chunked, vectors, loaded, troubles>>

OpenTokenizer(w) ==
    /\ indexer[w].pc = "tokens"
    /\ loaded' = [loaded EXCEPT ![w] =
          [key |-> indexer[w].seen,
           model |-> [indexer[w].model EXCEPT !.opened.tokenizer = installed.tokenizer]]]
    /\ indexer' = [indexer EXCEPT ![w].pc = "save"]
    /\ UNCHANGED <<installed, entry, chunked, vectors, troubles>>

SavedStatusAtOnce == "ready"
SavedStatus == "embedding"
SaveVectors(w) ==
    /\ indexer[w].pc = "save"
    /\ vectors' = [x \in Models \X Pieces |->
          IF x[1] = indexer[w].key /\ x[2] \in indexer[w].todo /\ vectors[x] = NoModel
          THEN loaded[w].model ELSE vectors[x]]
    /\ Commit(indexer[w].edition, indexer[w].fresh, SavedStatus, indexer[w].key, FALSE)
    /\ indexer' = [indexer EXCEPT ![w] = AtRest]
    /\ UNCHANGED <<installed, loaded, troubles>>

(* A load or an inference fails for a reason of its own: the version keeps *)
(* its text search, and a rebuild by the author is the way back.           *)
EmbedFails(w) ==
    /\ indexer[w] # AtRest /\ Trouble
    /\ Commit(indexer[w].edition, indexer[w].fresh, "lexical", indexer[w].key, TRUE)
    /\ indexer' = [indexer EXCEPT ![w] = AtRest]
    /\ UNCHANGED <<installed, vectors, loaded>>

(* The transaction is lost, with the process or alone.                     *)
LoseTick(w) ==
    /\ indexer[w] # AtRest /\ Trouble
    /\ indexer' = [indexer EXCEPT ![w] = AtRest]
    /\ loaded' \in {loaded, [loaded EXCEPT ![w] = Nothing]}
    /\ UNCHANGED <<installed, entry, chunked, vectors>>

KnowledgeTick(w) ==
    \/ \E v \in Editions : StartTick(w, v)
    \/ Identify(w) \/ VerifyFiles(w) \/ OpenModel(w) \/ OpenTokenizer(w) \/ SaveVectors(w)

NextKnowledge ==
    \/ Install
    \/ \E v \in Editions : PublishEdition(v) \/ RebuildIndex(v)
    \/ \E w \in Indexers : KnowledgeTick(w) \/ EmbedFails(w) \/ LoseTick(w)

KnowledgeSpec == InitKnowledge /\ [][NextKnowledge]_knowledgeVars

(* The worker of a living process ticks again and again (knowledge/worker.py *)
(* run); what it does not choose is an installation or a rebuild.          *)
KnowledgeFairness == \A w \in Indexers : WF_knowledgeVars(KnowledgeTick(w))

-----------------------------------------------------------------------------
(* Properties.                                                             *)

(* A search by vectors is made only when the index is ready for the model  *)
(* that is installed.                                                      *)
Hybrid(v) == entry[v].status = "ready" /\ entry[v].model = installed.manifest
                                       /\ installed.manifest # 0

(* A copy whose files were verified as those of the installed model, each  *)
(* of which was then opened, unless an installation that is still under    *)
(* way had put the next one in its place.                                  *)
OfInstalled(copy) ==
    LET m == installed.manifest IN
    /\ copy.hashed = Whole(m)
    /\ copy.opened.onnx \in {m, installed.onnx}
    /\ copy.opened.tokenizer \in {m, installed.tokenizer}

(* Every piece of a version that is searched by vectors has its vector, so *)
(* none is left out of the result unnoticed, and the installed model       *)
(* computed it, although models are replaced file by file while ticks run  *)
(* and processes keep models loaded.  The one exception is what the code   *)
(* does not prevent: a file replaced between its verification and its      *)
(* opening, as long as that installation has not come to its manifest.     *)
HybridIsRight ==
    \A v \in Editions : Hybrid(v) =>
        /\ chunked[v] = Cut[v]
        /\ \A t \in chunked[v] : OfInstalled(vectors[<<installed.manifest, t>>])

(* Every index ends up ready for the installed model, or says that the     *)
(* model failed (knowledge worker, every poll interval).                   *)
IndexFollowsModel ==
    <>[](\A v \in Editions : entry[v].status = "none" \/ entry[v].error
             \/ (entry[v].status \in {"ready", "lexical"} /\ entry[v].model = installed.manifest))

=============================================================================
