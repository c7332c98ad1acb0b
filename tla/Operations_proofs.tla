-------------------------- MODULE Operations_proofs --------------------------
(***************************************************************************)
(* What an operator may do while the application lives: install another    *)
(* embedding model file by file (KnowledgeIndex), run the offline tools    *)
(* (Maintenance), and archive and restore the system (SystemArchive).  For *)
(* any number of workers, versions, texts, models, servers, directories,   *)
(* calls, tasks, archives and drills.                                      *)
(***************************************************************************)
EXTENDS KnowledgeIndex, Maintenance, SystemArchive, FiniteSetTheorems, TLAPS

-----------------------------------------------------------------------------
(* The vector index.  A tick begins with one reading of the manifest, asks *)
(* for vectors after a second, verifies the files after a third and opens  *)
(* them after that, so vectors of a later model may be stored under the    *)
(* key of an earlier one.  Manifests only go forward: whatever still has   *)
(* the key of the installed manifest was verified under it, and a file     *)
(* that was opened since is of that model or of the one whose installation *)
(* is still under way.                                                     *)

Tick == [pc : {"embed", "load", "open", "tokens", "save"}, edition : Editions, key : Models,
         fresh : BOOLEAN, todo : SUBSET Pieces, seen : 0 .. MaxModel, model : ModelCopies]

Loads == [key : 0 .. MaxModel, model : ModelCopies]

KnowledgeTypes ==
  /\ installed \in [onnx : 0 .. MaxModel, tokenizer : 0 .. MaxModel, manifest : 0 .. MaxModel]
  /\ entry \in [Editions -> IndexRecords]
  /\ chunked \in ChunkRecords
  /\ vectors \in VectorRecords
  /\ indexer \in [Indexers -> Tick \cup {AtRest}]
  /\ loaded \in [Indexers -> Loads]

SmallTicks == \A w \in Indexers : indexer[w] # AtRest => Cardinality(indexer[w].todo) <= PerTick

\* A tick holds its row: no other tick has it, and it stays as it was found.
HeldRows ==
  /\ \A w, u \in Indexers :
       indexer[w] # AtRest /\ indexer[u] # AtRest /\ indexer[w].edition = indexer[u].edition
         => w = u
  /\ \A w \in Indexers : indexer[w] # AtRest =>
       LET status == entry[indexer[w].edition].status IN
       status # "none" /\ (indexer[w].fresh <=> status = "queued")

\* What was read of the manifest, in the order it was read; files are at most one model ahead.
InOrder ==
  /\ installed.onnx \in {installed.manifest, installed.manifest + 1}
  /\ installed.tokenizer \in {installed.manifest, installed.manifest + 1}
  /\ \A w \in Indexers :
       /\ loaded[w].key <= installed.manifest
       /\ indexer[w] # AtRest =>
            /\ indexer[w].key <= installed.manifest
            /\ indexer[w].pc # "embed" =>
                 indexer[w].key <= indexer[w].seen /\ indexer[w].seen <= installed.manifest
            /\ indexer[w].pc = "save" => loaded[w].key = indexer[w].seen

\* What is under the key of the installed manifest, or about to be, is of its model.
Genuine ==
  /\ \A w \in Indexers : loaded[w].key = installed.manifest /\ installed.manifest # 0 =>
       OfInstalled(loaded[w].model)
  /\ \A w \in Indexers :
       indexer[w].pc \in {"open", "tokens"} /\ indexer[w].seen = installed.manifest =>
         /\ indexer[w].model.hashed = Whole(installed.manifest)
         /\ indexer[w].pc = "tokens" =>
              indexer[w].model.opened.onnx \in {installed.manifest, installed.onnx}
  /\ \A k \in Models, t \in Pieces :
       /\ installed.manifest = k => vectors[<<k, t>>] = NoModel \/ OfInstalled(vectors[<<k, t>>])
       /\ installed.manifest < k => vectors[<<k, t>>] = NoModel

\* A ready index has all pieces of its version and a vector of each.
Complete ==
  \A v \in Editions :
    /\ entry[v].status \notin {"none", "queued"} => chunked[v] = Cut[v]
    /\ entry[v].status = "ready" => \A t \in chunked[v] : vectors[<<entry[v].model, t>>] # NoModel
    /\ entry[v].status = "ready" => entry[v].model \in Models

KnowledgeInv ==
  KnowledgeTypes /\ SmallTicks /\ HeldRows /\ InOrder /\ Genuine /\ Complete

LEMMA NoModelIs == NoModel \in ModelCopies /\ Nothing \in Loads
<1>1. Whole(0) \in ModelFiles
  BY KnowledgeAssumption DEF Whole, ModelFiles
<1>2. QED
  BY <1>1, KnowledgeAssumption DEF NoModel, ModelCopies, Nothing, Loads

LEMMA KnowledgeStart ==
  ASSUME InitKnowledge
  PROVE  KnowledgeInv
<1>0. installed.manifest \in {0, 1} /\ installed.onnx \in {0, 1} /\ installed.tokenizer \in {0, 1}
  BY DEF InitKnowledge
<1>1. /\ installed \in [onnx : 0 .. MaxModel, tokenizer : 0 .. MaxModel, manifest : 0 .. MaxModel]
      /\ entry \in [Editions -> IndexRecords] /\ loaded \in [Indexers -> Loads]
  BY KnowledgeAssumption, NoModelIs DEF InitKnowledge, IndexRecords, NoEntry
<1>2. /\ chunked \in ChunkRecords /\ vectors \in VectorRecords
      /\ indexer \in [Indexers -> Tick \cup {AtRest}]
  BY KnowledgeAssumption, NoModelIs DEF InitKnowledge, ChunkRecords, VectorRecords
<1>3. SmallTicks /\ HeldRows /\ InOrder
  BY <1>0 DEF InitKnowledge, SmallTicks, HeldRows, InOrder, Nothing
<1>4. Genuine
  BY <1>0 DEF InitKnowledge, Genuine, Nothing, AtRest
<1>5. Complete
  BY DEF InitKnowledge, Complete, NoEntry
<1>6. QED
  BY <1>1, <1>2, <1>3, <1>4, <1>5 DEF KnowledgeInv, KnowledgeTypes

\* A file that is replaced is of the next model, and a manifest that is replaced leaves
\* nothing under the key that is installed now.
LEMMA InstallKeeps ==
  ASSUME KnowledgeInv, Install
  PROVE  KnowledgeInv'
<1> DEFINE m == installed.manifest
<1>0. /\ UNCHANGED <<entry, chunked, vectors, indexer, loaded>>
      /\ m \in 0 .. MaxModel /\ m + 1 <= MaxModel
      /\ installed.onnx \in {m, m + 1} /\ installed.tokenizer \in {m, m + 1}
      /\ installed' \in [onnx : 0 .. MaxModel, tokenizer : 0 .. MaxModel, manifest : 0 .. MaxModel]
  BY KnowledgeAssumption DEF Install, KnowledgeInv, KnowledgeTypes, InOrder
<1>1. \/ /\ installed'.manifest = m
         /\ installed'.onnx \in {m, m + 1} /\ installed'.tokenizer \in {m, m + 1}
         /\ installed.onnx = m + 1 => installed'.onnx = m + 1
         /\ installed.tokenizer = m + 1 => installed'.tokenizer = m + 1
      \/ /\ installed'.manifest = m + 1
         /\ installed'.onnx = m + 1 /\ installed'.tokenizer = m + 1
  BY <1>0 DEF Install, KnowledgeInv, KnowledgeTypes
<1>2. KnowledgeTypes' /\ SmallTicks' /\ HeldRows' /\ Complete'
  BY <1>0 DEF KnowledgeInv, KnowledgeTypes, SmallTicks, HeldRows, Complete
<1>3. InOrder'
  BY <1>0, <1>1, KnowledgeAssumption
     DEF KnowledgeInv, KnowledgeTypes, InOrder, Loads, Tick, Models, AtRest
<1>4. CASE installed'.manifest = m
  <2>1. \A copy : OfInstalled(copy) => OfInstalled(copy)'
    BY <1>0, <1>1, <1>4 DEF OfInstalled
  <2>2. {m, installed.onnx} \subseteq {m, installed'.onnx}
    BY <1>0, <1>1, <1>4
  <2>3. \A w \in Indexers : OfInstalled(loaded[w].model) => OfInstalled(loaded[w].model)'
    BY <1>0, <2>1
  <2>4. \A x : OfInstalled(vectors[x]) => OfInstalled(vectors[x])'
    BY <1>0, <2>1
  <2>5. (\A w \in Indexers : loaded[w].key = installed.manifest /\ installed.manifest # 0 =>
           OfInstalled(loaded[w].model))'
    BY <1>0, <1>4, <2>3 DEF KnowledgeInv, Genuine
  <2>6. (\A w \in Indexers :
           indexer[w].pc \in {"open", "tokens"} /\ indexer[w].seen = installed.manifest =>
             /\ indexer[w].model.hashed = Whole(installed.manifest)
             /\ indexer[w].pc = "tokens" =>
                  indexer[w].model.opened.onnx \in {installed.manifest, installed.onnx})'
    BY <1>0, <1>4, <2>2 DEF KnowledgeInv, Genuine
  <2>7. (\A k \in Models, t \in Pieces :
           /\ installed.manifest = k => vectors[<<k, t>>] = NoModel \/ OfInstalled(vectors[<<k, t>>])
           /\ installed.manifest < k => vectors[<<k, t>>] = NoModel)'
    BY <1>0, <1>4, <2>4 DEF KnowledgeInv, Genuine
  <2>8. QED
    BY <1>2, <1>3, <2>5, <2>6, <2>7 DEF KnowledgeInv, Genuine
<1>5. CASE installed'.manifest = m + 1
  <2>1. \A w \in Indexers : loaded[w].key # m + 1
    BY <1>0 DEF KnowledgeInv, KnowledgeTypes, InOrder, Loads
  <2>2. \A w \in Indexers : indexer[w].pc \in {"open", "tokens"} => indexer[w].seen # m + 1
    BY <1>0 DEF KnowledgeInv, KnowledgeTypes, InOrder, Tick, AtRest
  <2>3. \A k \in Models, t \in Pieces : m + 1 <= k => vectors[<<k, t>>] = NoModel
    BY <1>0 DEF KnowledgeInv, Genuine, Models
  <2>4. (\A w \in Indexers : loaded[w].key # installed.manifest)'
    BY <1>0, <1>5, <2>1
  <2>5. (\A w \in Indexers :
           indexer[w].pc \in {"open", "tokens"} => indexer[w].seen # installed.manifest)'
    BY <1>0, <1>5, <2>2
  <2>6. (\A k \in Models, t \in Pieces : installed.manifest <= k => vectors[<<k, t>>] = NoModel)'
    BY <1>0, <1>5, <2>3
  <2>7. installed'.manifest \in Int /\ \A k \in Models : k \in Int
    BY <1>0, <1>5, KnowledgeAssumption DEF Models
  <2>8. QED
    BY <1>2, <1>3, <2>4, <2>5, <2>6, <2>7 DEF KnowledgeInv, Genuine
<1>6. QED
  BY <1>1, <1>4, <1>5

\* Nothing changes of what is under a key while only ticks end.
LEMMA StaysGenuine ==
  ASSUME KnowledgeInv, UNCHANGED <<installed, vectors, loaded>>,
         \A w \in Indexers : \/ indexer'[w] = indexer[w]
                             \/ indexer'[w].pc \notin {"open", "tokens"}
  PROVE  Genuine'
<1>1. /\ \A w \in Indexers : OfInstalled(loaded[w].model)' = OfInstalled(loaded[w].model)
      /\ \A x : OfInstalled(vectors[x])' = OfInstalled(vectors[x])
  BY DEF OfInstalled
<1>2. QED
  BY <1>1 DEF KnowledgeInv, Genuine

\* Only a row that no tick holds is queued.
LEMMA QueueKeeps ==
  ASSUME KnowledgeInv, NEW v \in Editions, NEW e \in IndexRecords, e.status = "queued",
         entry' = [entry EXCEPT ![v] = e],
         \A w \in Indexers : indexer[w] # AtRest => indexer[w].edition # v,
         UNCHANGED <<installed, chunked, vectors, indexer, loaded>>
  PROVE  KnowledgeInv'
<1>1. KnowledgeTypes' /\ SmallTicks' /\ InOrder' /\ Genuine'
  BY StaysGenuine DEF KnowledgeInv, KnowledgeTypes, SmallTicks, InOrder
<1>2. HeldRows'
  BY DEF KnowledgeInv, KnowledgeTypes, HeldRows
<1>3. Complete'
  BY DEF KnowledgeInv, KnowledgeTypes, Complete
<1>4. QED
  BY <1>1, <1>2, <1>3 DEF KnowledgeInv

LEMMA PublishKeeps ==
  ASSUME KnowledgeInv, NEW v \in Editions, PublishEdition(v) \/ RebuildIndex(v)
  PROVE  KnowledgeInv'
<1>0. entry[v] \in IndexRecords
  BY DEF KnowledgeInv, KnowledgeTypes
<1>1. CASE PublishEdition(v)
  <2> DEFINE e == [entry[v] EXCEPT !.status = "queued"]
  <2>1. e \in IndexRecords /\ e.status = "queued"
    BY <1>0 DEF IndexRecords
  <2>2. entry' = [entry EXCEPT ![v] = e] /\ UNCHANGED <<installed, chunked, vectors, indexer, loaded>>
    BY <1>1 DEF PublishEdition, KnowledgeInv, KnowledgeTypes
  <2>3. entry[v].status = "none"
    BY <1>1 DEF PublishEdition, NoEntry
  <2>4. \A w \in Indexers : indexer[w] # AtRest => indexer[w].edition # v
    BY <2>3 DEF KnowledgeInv, HeldRows
  <2> HIDE DEF e
  <2>5. QED
    BY <2>1, <2>2, <2>4, QueueKeeps
<1>2. CASE RebuildIndex(v)
  <2> DEFINE e == [entry[v] EXCEPT !.status = "queued", !.error = FALSE]
  <2>1. e \in IndexRecords /\ e.status = "queued"
    BY <1>0 DEF IndexRecords
  <2>2. entry' = [entry EXCEPT ![v] = e] /\ UNCHANGED <<installed, chunked, vectors, indexer, loaded>>
    BY <1>2 DEF RebuildIndex, KnowledgeInv, KnowledgeTypes
  <2>3. \A w \in Indexers : indexer[w] # AtRest => indexer[w].edition # v
    BY <1>2 DEF RebuildIndex, Held, KnowledgeInv, KnowledgeTypes, Tick
  <2> HIDE DEF e
  <2>4. QED
    BY <2>1, <2>2, <2>3, QueueKeeps
<1>3. QED
  BY <1>1, <1>2

\* What a commit makes of the row it holds.
LEMMA CommitRow ==
  ASSUME KnowledgeTypes, NEW v \in Editions, NEW fresh \in BOOLEAN,
         NEW status \in {"embedding", "ready", "lexical"}, NEW key \in 0 .. MaxModel,
         NEW error \in BOOLEAN, Commit(v, fresh, status, key, error)
  PROVE  /\ entry' \in [Editions -> IndexRecords] /\ chunked' \in ChunkRecords
         /\ entry'[v].status = status /\ entry'[v].model = key
         /\ chunked'[v] = IF fresh THEN Cut[v] ELSE chunked[v]
         /\ \A x \in Editions \ {v} : entry'[x] = entry[x] /\ chunked'[x] = chunked[x]
<1> DEFINE e == [status |-> status, model |-> key, error |-> error \/ (~fresh /\ entry[v].error)]
<1>1. entry[v].error \in BOOLEAN
  BY DEF KnowledgeTypes, IndexRecords
<1>2. e \in IndexRecords /\ e.status = status /\ e.model = key
  BY <1>1 DEF IndexRecords
<1>3. entry' = [entry EXCEPT ![v] = e]
  BY DEF Commit, KnowledgeTypes
<1> HIDE DEF e
<1>4. Cut[v] \in SUBSET Pieces
  BY KnowledgeAssumption
<1>5. /\ chunked' \in ChunkRecords
      /\ chunked'[v] = IF fresh THEN Cut[v] ELSE chunked[v]
      /\ \A x \in Editions \ {v} : chunked'[x] = chunked[x]
  BY <1>4 DEF Commit, KnowledgeTypes, ChunkRecords
<1>6. QED
  BY <1>2, <1>3, <1>5 DEF KnowledgeTypes

\* A tick that ends with a commit leaves its row complete and lets it go.
LEMMA CommitKeeps ==
  ASSUME KnowledgeInv, NEW v \in Editions, NEW fresh \in BOOLEAN,
         NEW status \in {"embedding", "ready", "lexical"}, NEW key \in 0 .. MaxModel,
         NEW error \in BOOLEAN, Commit(v, fresh, status, key, error),
         entry[v].status # "none", fresh <=> entry[v].status = "queued",
         status = "ready" => /\ key \in Models
                             /\ \A t \in (IF fresh THEN Cut[v] ELSE chunked[v]) :
                                  vectors[<<key, t>>] # NoModel,
         vectors' \in VectorRecords, \A x \in Models \X Pieces : vectors[x] # NoModel => vectors'[x] # NoModel,
         \A w \in Indexers : \/ indexer'[w] = AtRest
                             \/ indexer'[w] = indexer[w] /\ indexer[w].edition # v
  PROVE  /\ entry' \in [Editions -> IndexRecords] /\ chunked' \in ChunkRecords
         /\ SmallTicks' /\ HeldRows' /\ Complete'
<1>1. /\ entry' \in [Editions -> IndexRecords] /\ chunked' \in ChunkRecords
      /\ entry'[v].status = status /\ entry'[v].model = key
      /\ chunked'[v] = IF fresh THEN Cut[v] ELSE chunked[v]
      /\ \A x \in Editions \ {v} : entry'[x] = entry[x] /\ chunked'[x] = chunked[x]
  BY CommitRow DEF KnowledgeInv
<1>2. SmallTicks'
  BY DEF KnowledgeInv, SmallTicks
<1>3. HeldRows'
  <2>1. \A w \in Indexers : indexer[w] # AtRest => indexer[w].edition \in Editions
    BY DEF KnowledgeInv, KnowledgeTypes, Tick
  <2>2. QED
    BY <1>1, <2>1 DEF KnowledgeInv, HeldRows
<1>4. Complete'
  <2>1. ASSUME NEW x \in Editions, x # v
        PROVE  /\ entry'[x].status \notin {"none", "queued"} => chunked'[x] = Cut[x]
               /\ entry'[x].status = "ready" => \A t \in chunked'[x] : vectors'[<<entry'[x].model, t>>] # NoModel
               /\ entry'[x].status = "ready" => entry'[x].model \in Models
    <3>1. chunked[x] \subseteq Pieces /\ entry'[x] = entry[x] /\ chunked'[x] = chunked[x]
      BY <1>1, <2>1 DEF KnowledgeInv, KnowledgeTypes, ChunkRecords
    <3>2. QED
      BY <3>1 DEF KnowledgeInv, Complete
  <2>2. chunked'[v] = Cut[v] /\ Cut[v] \subseteq Pieces
    BY <1>1, KnowledgeAssumption DEF KnowledgeInv, Complete
  <2>3. status = "ready" => \A t \in Cut[v] : vectors'[<<key, t>>] # NoModel
    BY <1>1, <2>2
  <2>4. QED
    BY <1>1, <2>1, <2>2, <2>3 DEF Complete
<1>5. QED
  BY <1>1, <1>2, <1>3, <1>4

LEMMA TickStarts ==
  ASSUME KnowledgeInv, NEW w \in Indexers, NEW v \in Editions, StartTick(w, v)
  PROVE  KnowledgeInv'
<1> DEFINE key    == installed.manifest
           fresh  == entry[v].status = "queued"
           pieces == IF fresh THEN Cut[v] ELSE chunked[v]
           lacks  == {t \in pieces : key # 0 /\ vectors[<<key, t>>] = NoModel}
<1>0. /\ key \in 0 .. MaxModel /\ fresh \in BOOLEAN /\ pieces \subseteq Pieces
      /\ entry[v].status # "none" /\ indexer[w] = AtRest
      /\ \A u \in Indexers : indexer[u] # AtRest => indexer[u].edition # v
      /\ UNCHANGED <<installed, vectors, loaded>>
  <2>1. entry[v].status # "none"
    BY DEF StartTick, Due
  <2>2. pieces \subseteq Pieces
    BY KnowledgeAssumption DEF KnowledgeInv, KnowledgeTypes, ChunkRecords
  <2>3. \A u \in Indexers : indexer[u] # AtRest => indexer[u].edition # v
    BY DEF StartTick, Held, KnowledgeInv, KnowledgeTypes, Tick
  <2>4. QED
    BY <2>1, <2>2, <2>3 DEF StartTick, KnowledgeInv, KnowledgeTypes
<1>1. CASE lacks = {}
  <2> DEFINE status == IF key = 0 THEN "lexical" ELSE "ready"
  <2>1. Commit(v, fresh, status, key, FALSE) /\ UNCHANGED indexer
    BY <1>1 DEF StartTick
  <2>2. status = "ready" => key \in Models /\ \A t \in pieces : vectors[<<key, t>>] # NoModel
    BY <1>0, <1>1 DEF Models
  <2>3. status \in {"embedding", "ready", "lexical"} /\ vectors' \in VectorRecords
    BY <1>0 DEF KnowledgeInv, KnowledgeTypes
  <2>4. \A u \in Indexers : \/ indexer'[u] = AtRest
                            \/ indexer'[u] = indexer[u] /\ indexer[u].edition # v
    BY <1>0, <2>1
  <2>5. \A x \in Models \X Pieces : vectors[x] # NoModel => vectors'[x] # NoModel
    BY <1>0
  <2> HIDE DEF status, key, fresh, lacks
  <2>6. /\ entry' \in [Editions -> IndexRecords] /\ chunked' \in ChunkRecords
        /\ SmallTicks' /\ HeldRows' /\ Complete'
    BY ZenonT(60), <1>0, <2>1, <2>2, <2>3, <2>4, <2>5, CommitKeeps DEF fresh
  <2>7. Genuine'
    BY <1>0, <2>1, StaysGenuine
  <2>8. QED
    BY <1>0, <2>1, <2>6, <2>7 DEF KnowledgeInv, KnowledgeTypes, InOrder
<1>2. CASE lacks # {}
  <2>1. PICK todo \in SUBSET lacks :
          /\ Cardinality(todo) = TodoSize(Cardinality(lacks))
          /\ indexer' = [indexer EXCEPT ![w] = [pc |-> "embed", edition |-> v,
                                    key |-> key, fresh |-> fresh, todo |-> todo, seen |-> 0,
                                    model |-> NoModel]]
    BY <1>2 DEF StartTick
  <2> DEFINE tick == [pc |-> "embed", edition |-> v, key |-> key, fresh |-> fresh, todo |-> todo,
                      seen |-> 0, model |-> NoModel]
  <2>2. UNCHANGED <<entry, chunked>>
    BY <1>2 DEF StartTick
  <2>3. key \in Models /\ todo \subseteq Pieces
    <3>1. key # 0
      BY <1>2
    <3>2. lacks \subseteq pieces
      OBVIOUS
    <3> HIDE DEF key, lacks, pieces
    <3>3. QED
      BY <1>0, <3>1, <3>2, KnowledgeAssumption DEF Models
  <2>4. tick \in Tick
    BY <1>0, <2>3, KnowledgeAssumption, NoModelIs DEF Tick
  <2>5. Cardinality(todo) <= PerTick
    <3>1. IsFiniteSet(lacks)
      BY <1>0, KnowledgeAssumption, FS_Subset
    <3>2. Cardinality(lacks) \in Nat
      BY <3>1, FS_CardinalityType
    <3> HIDE DEF lacks
    <3>3. QED
      BY <2>1, <3>2, KnowledgeAssumption DEF TodoSize
  <2>6. /\ tick.pc = "embed" /\ tick.edition = v /\ tick.key = key /\ tick.fresh = fresh
        /\ Cardinality(tick.todo) <= PerTick
    BY <2>5
  <2>7. indexer' = [indexer EXCEPT ![w] = tick]
    BY <2>1
  <2> HIDE DEF tick
  <2>8. KnowledgeTypes'
    BY <1>0, <2>2, <2>4, <2>7 DEF KnowledgeInv, KnowledgeTypes
  <2>9. SmallTicks' /\ HeldRows'
    BY <1>0, <2>2, <2>4, <2>6, <2>7 DEF KnowledgeInv, KnowledgeTypes, SmallTicks, HeldRows
  <2>10. InOrder'
    BY <1>0, <2>4, <2>6, <2>7 DEF KnowledgeInv, KnowledgeTypes, InOrder
  <2>11. Genuine' /\ Complete'
    <3>1. \A u \in Indexers : indexer'[u] = indexer[u] \/ indexer'[u].pc = "embed"
      BY <2>6, <2>7 DEF KnowledgeInv, KnowledgeTypes
    <3>2. QED
      BY <1>0, <2>2, <3>1, StaysGenuine DEF KnowledgeInv, Complete
  <2>12. QED
    BY <2>8, <2>9, <2>10, <2>11 DEF KnowledgeInv
<1>3. QED
  BY <1>1, <1>2

LEMMA IdentifyKeeps ==
  ASSUME KnowledgeInv, NEW w \in Indexers, Identify(w)
  PROVE  KnowledgeInv'
<1> DEFINE pc   == IF loaded[w].key = installed.manifest THEN "save" ELSE "load"
           seen == installed.manifest
           tick == [indexer[w] EXCEPT !.pc = pc, !.seen = seen]
<1>0. /\ indexer[w] \in Tick /\ indexer[w] # AtRest /\ indexer[w].pc = "embed"
      /\ installed.manifest \in 0 .. MaxModel
      /\ UNCHANGED <<installed, entry, chunked, vectors, loaded>>
  BY DEF Identify, KnowledgeInv, KnowledgeTypes, AtRest
<1>1. indexer' = [indexer EXCEPT ![w] = tick]
  BY DEF Identify, KnowledgeInv, KnowledgeTypes
<1>a. pc \in {"load", "save"} /\ (pc = "save" => loaded[w].key = seen) /\ seen \in 0 .. MaxModel
  BY <1>0
<1>b. seen = installed.manifest
  OBVIOUS
<1> HIDE DEF pc, seen
<1>2. /\ tick \in Tick /\ tick.pc = pc /\ tick.seen = seen
      /\ tick.edition = indexer[w].edition /\ tick.key = indexer[w].key
      /\ tick.fresh = indexer[w].fresh /\ tick.todo = indexer[w].todo
  BY <1>0, <1>a DEF Tick
<1> HIDE DEF tick
<1>3. KnowledgeTypes'
  BY <1>0, <1>a, <1>b, <1>1, <1>2 DEF KnowledgeInv, KnowledgeTypes
<1>4. SmallTicks' /\ HeldRows'
  BY <1>0, <1>a, <1>b, <1>1, <1>2 DEF KnowledgeInv, KnowledgeTypes, SmallTicks, HeldRows
<1>5. InOrder'
  BY <1>0, <1>a, <1>b, <1>1, <1>2 DEF KnowledgeInv, KnowledgeTypes, InOrder
<1>6. Genuine' /\ Complete'
  <2>1. \A u \in Indexers : indexer'[u] = indexer[u] \/ indexer'[u].pc \in {"load", "save"}
    BY <1>a, <1>1, <1>2 DEF KnowledgeInv, KnowledgeTypes
  <2>2. QED
    BY <1>0, <2>1, StaysGenuine DEF KnowledgeInv, Complete
<1>7. QED
  BY <1>3, <1>4, <1>5, <1>6 DEF KnowledgeInv

\* A tick that fails: its row keeps its text search.
LEMMA TickFails ==
  ASSUME KnowledgeInv, NEW w \in Indexers, indexer[w] # AtRest,
         Commit(indexer[w].edition, indexer[w].fresh, "lexical", indexer[w].key, TRUE),
         indexer' = [indexer EXCEPT ![w] = AtRest], UNCHANGED <<installed, vectors, loaded>>
  PROVE  KnowledgeInv'
<1> DEFINE v == indexer[w].edition
           fresh == indexer[w].fresh
<1>1. /\ v \in Editions /\ fresh \in BOOLEAN /\ indexer[w].key \in 0 .. MaxModel
      /\ entry[v].status # "none" /\ (fresh <=> entry[v].status = "queued")
  BY KnowledgeAssumption DEF KnowledgeInv, KnowledgeTypes, Tick, HeldRows, Models
<1>2. \A u \in Indexers : \/ indexer'[u] = AtRest
                          \/ indexer'[u] = indexer[u] /\ indexer[u].edition # v
  BY DEF KnowledgeInv, KnowledgeTypes, HeldRows
<1>3. vectors' \in VectorRecords /\ \A x \in Models \X Pieces : vectors[x] # NoModel => vectors'[x] # NoModel
  BY DEF KnowledgeInv, KnowledgeTypes
<1> HIDE DEF v, fresh
<1>4. Commit(v, fresh, "lexical", indexer[w].key, TRUE)
  BY DEF v, fresh
<1>5. /\ entry' \in [Editions -> IndexRecords] /\ chunked' \in ChunkRecords
      /\ SmallTicks' /\ HeldRows' /\ Complete'
  BY <1>1, <1>2, <1>3, <1>4, CommitKeeps
<1>6. KnowledgeTypes'
  BY <1>5 DEF KnowledgeInv, KnowledgeTypes
<1>7. InOrder' /\ Genuine'
  <2>1. \A u \in Indexers : indexer'[u] = indexer[u] \/ indexer'[u].pc = "idle"
    BY DEF KnowledgeInv, KnowledgeTypes, AtRest
  <2>2. QED
    BY <2>1, StaysGenuine DEF KnowledgeInv, KnowledgeTypes, InOrder
<1>8. QED
  BY <1>5, <1>6, <1>7 DEF KnowledgeInv

\* A tick goes on with what it holds.
LEMMA TickGoesOn ==
  ASSUME KnowledgeInv, NEW w \in Indexers, indexer[w] # AtRest, NEW tick \in Tick,
         indexer' = [indexer EXCEPT ![w] = tick], UNCHANGED <<installed, entry, chunked, vectors>>,
         tick.edition = indexer[w].edition, tick.key = indexer[w].key,
         tick.fresh = indexer[w].fresh, tick.todo = indexer[w].todo, tick.seen = indexer[w].seen,
         indexer[w].pc # "embed", tick.pc # "embed",
         NEW files \in Loads, loaded' \in {loaded, [loaded EXCEPT ![w] = files]},
         files.key = tick.seen, tick.pc = "save" => loaded'[w].key = tick.seen
  PROVE  KnowledgeTypes' /\ SmallTicks' /\ HeldRows' /\ InOrder' /\ Complete'
<1>1. KnowledgeTypes'
  BY DEF KnowledgeInv, KnowledgeTypes
<1>2. SmallTicks' /\ HeldRows' /\ Complete'
  BY DEF KnowledgeInv, KnowledgeTypes, SmallTicks, HeldRows, Complete
<1>3. InOrder'
  BY DEF KnowledgeInv, KnowledgeTypes, InOrder
<1>4. QED
  BY <1>1, <1>2, <1>3

LEMMA VerifyKeeps ==
  ASSUME KnowledgeInv, NEW w \in Indexers, VerifyFiles(w)
  PROVE  KnowledgeInv'
<1>0. /\ indexer[w] \in Tick /\ indexer[w].pc = "load" /\ indexer[w] # AtRest
      /\ indexer[w].model \in ModelCopies
  BY DEF VerifyFiles, KnowledgeInv, KnowledgeTypes, AtRest, Tick
<1>1. CASE ~Intact
  BY <1>0, <1>1, TickFails DEF VerifyFiles
<1>2. CASE Intact
  <2> DEFINE copy == [indexer[w].model EXCEPT !.hashed = FilesThere]
             tick == [indexer[w] EXCEPT !.pc = "open", !.model = copy]
  <2>1. copy \in ModelCopies /\ copy.hashed = Whole(installed.manifest)
    <3>1. FilesThere \in ModelFiles
      BY DEF FilesThere, ModelFiles, KnowledgeInv, KnowledgeTypes
    <3>2. QED
      BY <1>0, <1>2, <3>1 DEF Intact, ModelCopies
  <2>2. indexer' = [indexer EXCEPT ![w] = tick] /\ UNCHANGED <<entry, chunked, installed, vectors, loaded>>
    BY <1>0, <1>2 DEF VerifyFiles, KnowledgeInv, KnowledgeTypes, Tick
  <2> HIDE DEF copy
  <2>3. /\ tick \in Tick /\ tick.pc = "open" /\ tick.seen = indexer[w].seen /\ tick.model = copy
        /\ tick.edition = indexer[w].edition /\ tick.key = indexer[w].key
        /\ tick.fresh = indexer[w].fresh /\ tick.todo = indexer[w].todo
    BY <1>0, <2>1 DEF Tick
  <2> HIDE DEF tick
  <2>4. KnowledgeTypes' /\ SmallTicks' /\ HeldRows' /\ InOrder' /\ Complete'
    <3> DEFINE files == [key |-> indexer[w].seen, model |-> NoModel]
    <3>1. files \in Loads /\ files.key = indexer[w].seen
      BY <1>0, NoModelIs DEF Tick, Loads
    <3> HIDE DEF files
    <3>2. QED
      BY <1>0, <2>2, <2>3, <3>1, TickGoesOn
  <2>5. Genuine'
    <3>1. /\ \A u \in Indexers : OfInstalled(loaded[u].model)' = OfInstalled(loaded[u].model)
          /\ \A x : OfInstalled(vectors[x])' = OfInstalled(vectors[x])
      BY <2>2 DEF OfInstalled
    <3>2. indexer'[w] = tick /\ \A u \in Indexers \ {w} : indexer'[u] = indexer[u]
      BY <2>2 DEF KnowledgeInv, KnowledgeTypes
    <3>3. QED
      BY <2>1, <2>2, <2>3, <3>1, <3>2 DEF KnowledgeInv, Genuine
  <2>6. QED
    BY <2>4, <2>5 DEF KnowledgeInv
<1>3. QED
  BY <1>1, <1>2

LEMMA OpenModelKeeps ==
  ASSUME KnowledgeInv, NEW w \in Indexers, OpenModel(w)
  PROVE  KnowledgeInv'
<1>0. /\ indexer[w] \in Tick /\ indexer[w].pc = "open" /\ indexer[w] # AtRest
      /\ indexer[w].model \in ModelCopies /\ installed.onnx \in 0 .. MaxModel
      /\ UNCHANGED <<entry, chunked, installed, vectors, loaded>>
  BY DEF OpenModel, KnowledgeInv, KnowledgeTypes, AtRest, Tick
<1> DEFINE copy == [indexer[w].model EXCEPT !.opened.onnx = installed.onnx]
           tick == [indexer[w] EXCEPT !.pc = "tokens", !.model = copy]
<1>1. /\ copy \in ModelCopies /\ copy.opened.onnx = installed.onnx
      /\ copy.hashed = indexer[w].model.hashed
  BY <1>0 DEF ModelCopies, ModelFiles
<1>2. indexer' = [indexer EXCEPT ![w] = tick]
  BY <1>0 DEF OpenModel, KnowledgeInv, KnowledgeTypes, Tick
<1> HIDE DEF copy
<1>3. /\ tick \in Tick /\ tick.pc = "tokens" /\ tick.seen = indexer[w].seen /\ tick.model = copy
      /\ tick.edition = indexer[w].edition /\ tick.key = indexer[w].key
      /\ tick.fresh = indexer[w].fresh /\ tick.todo = indexer[w].todo
  BY <1>0, <1>1 DEF Tick
<1> HIDE DEF tick
<1>4. KnowledgeTypes' /\ SmallTicks' /\ HeldRows' /\ InOrder' /\ Complete'
  <2> DEFINE files == [key |-> indexer[w].seen, model |-> NoModel]
  <2>1. files \in Loads /\ files.key = indexer[w].seen
    BY <1>0, NoModelIs DEF Tick, Loads
  <2> HIDE DEF files
  <2>2. QED
    BY <1>0, <1>2, <1>3, <2>1, TickGoesOn
<1>5. Genuine'
  <2>1. /\ \A u \in Indexers : OfInstalled(loaded[u].model)' = OfInstalled(loaded[u].model)
        /\ \A x : OfInstalled(vectors[x])' = OfInstalled(vectors[x])
    BY <1>0 DEF OfInstalled
  <2>2. indexer'[w] = tick /\ \A u \in Indexers \ {w} : indexer'[u] = indexer[u]
    BY <1>2 DEF KnowledgeInv, KnowledgeTypes
  <2>3. QED
    BY <1>0, <1>1, <1>3, <2>1, <2>2 DEF KnowledgeInv, Genuine
<1>6. QED
  BY <1>4, <1>5 DEF KnowledgeInv

LEMMA OpenTokenizerKeeps ==
  ASSUME KnowledgeInv, NEW w \in Indexers, OpenTokenizer(w)
  PROVE  KnowledgeInv'
<1>0. /\ indexer[w] \in Tick /\ indexer[w].pc = "tokens" /\ indexer[w] # AtRest
      /\ indexer[w].model \in ModelCopies /\ installed.tokenizer \in 0 .. MaxModel
      /\ UNCHANGED <<entry, chunked, installed, vectors>>
  BY DEF OpenTokenizer, KnowledgeInv, KnowledgeTypes, AtRest, Tick
<1> DEFINE copy  == [indexer[w].model EXCEPT !.opened.tokenizer = installed.tokenizer]
           tick  == [indexer[w] EXCEPT !.pc = "save"]
           files == [key |-> indexer[w].seen, model |-> copy]
<1>1. /\ copy \in ModelCopies /\ copy.opened.tokenizer = installed.tokenizer
      /\ copy.hashed = indexer[w].model.hashed
      /\ copy.opened.onnx = indexer[w].model.opened.onnx
  BY <1>0 DEF ModelCopies, ModelFiles
<1>2. indexer' = [indexer EXCEPT ![w] = tick] /\ loaded' = [loaded EXCEPT ![w] = files]
  BY <1>0 DEF OpenTokenizer, KnowledgeInv, KnowledgeTypes, Tick
<1> HIDE DEF copy
<1>3. /\ tick \in Tick /\ tick.pc = "save" /\ tick.seen = indexer[w].seen
      /\ tick.edition = indexer[w].edition /\ tick.key = indexer[w].key
      /\ tick.fresh = indexer[w].fresh /\ tick.todo = indexer[w].todo
      /\ files \in Loads /\ files.key = indexer[w].seen /\ files.model = copy
  BY <1>0, <1>1 DEF Tick, Loads
<1> HIDE DEF tick, files
<1>4. /\ indexer'[w] = tick /\ \A u \in Indexers \ {w} : indexer'[u] = indexer[u]
      /\ loaded'[w] = files /\ \A u \in Indexers \ {w} : loaded'[u] = loaded[u]
  BY <1>2 DEF KnowledgeInv, KnowledgeTypes
<1>5. KnowledgeTypes' /\ SmallTicks' /\ HeldRows' /\ InOrder' /\ Complete'
  <2>1. /\ UNCHANGED <<installed, entry, chunked, vectors>>
        /\ indexer[w].pc # "embed" /\ tick.pc # "embed"
        /\ loaded' \in {loaded, [loaded EXCEPT ![w] = files]}
        /\ files.key = tick.seen /\ loaded'[w].key = tick.seen
    BY <1>0, <1>2, <1>3, <1>4
  <2>2. QED
    BY <1>0, <1>2, <1>3, <2>1, TickGoesOn
<1>6. indexer[w].seen = installed.manifest => OfInstalled(copy)
  BY <1>0, <1>1 DEF KnowledgeInv, Genuine, OfInstalled
<1>7. Genuine'
  <2>1. \A c : OfInstalled(c)' = OfInstalled(c)
    BY <1>0 DEF OfInstalled
  <2>2. /\ \A u \in Indexers \ {w} : OfInstalled(loaded[u].model)' = OfInstalled(loaded[u].model)
        /\ \A x : OfInstalled(vectors[x])' = OfInstalled(vectors[x])
    BY <1>0, <1>4 DEF OfInstalled
  <2>3. OfInstalled(loaded[w].model)' = OfInstalled(copy)
    BY <1>0, <1>3, <1>4 DEF OfInstalled
  <2>4. QED
    BY <1>0, <1>3, <1>4, <1>6, <2>2, <2>3 DEF KnowledgeInv, Genuine
<1>8. QED
  BY <1>5, <1>7 DEF KnowledgeInv

\* A vector is stored under the installed key only by a tick that saw no other.
LEMMA SaveKeeps ==
  ASSUME KnowledgeInv, NEW w \in Indexers, SaveVectors(w)
  PROVE  KnowledgeInv'
<1> DEFINE v == indexer[w].edition
           fresh == indexer[w].fresh
           key == indexer[w].key
<1>0. indexer[w] \in Tick /\ indexer[w].pc = "save" /\ indexer[w] # AtRest
  BY DEF SaveVectors, KnowledgeInv, KnowledgeTypes, AtRest, Tick
<1>1. /\ v \in Editions /\ fresh \in BOOLEAN /\ key \in Models /\ key \in 0 .. MaxModel
      /\ entry[v].status # "none" /\ (fresh <=> entry[v].status = "queued")
  BY <1>0, KnowledgeAssumption DEF KnowledgeInv, Tick, HeldRows, Models
<1>2. /\ indexer' = [indexer EXCEPT ![w] = AtRest] /\ UNCHANGED <<installed, loaded>>
      /\ Commit(v, fresh, "embedding", key, FALSE)
  BY DEF SaveVectors, SavedStatus
<1>3. \A u \in Indexers : \/ indexer'[u] = AtRest
                          \/ indexer'[u] = indexer[u] /\ indexer[u].edition # v
  BY <1>0, <1>2 DEF KnowledgeInv, KnowledgeTypes, HeldRows
<1>4. loaded[w] \in Loads
  BY DEF KnowledgeInv, KnowledgeTypes
<1>5. \A x \in Models \X Pieces :
        \/ vectors'[x] = vectors[x]
        \/ vectors[x] = NoModel /\ x[1] = key /\ vectors'[x] = loaded[w].model
  BY DEF SaveVectors
<1>6. vectors' \in VectorRecords
  BY <1>4 DEF SaveVectors, KnowledgeInv, KnowledgeTypes, VectorRecords, Loads
<1>7. \A x \in Models \X Pieces : vectors[x] # NoModel => vectors'[x] # NoModel
  BY <1>5
<1> HIDE DEF v, fresh, key
<1>8. /\ entry' \in [Editions -> IndexRecords] /\ chunked' \in ChunkRecords
      /\ SmallTicks' /\ HeldRows' /\ Complete'
  BY <1>1, <1>2, <1>3, <1>6, <1>7, CommitKeeps
<1>9. KnowledgeTypes'
  BY <1>2, <1>6, <1>8 DEF KnowledgeInv, KnowledgeTypes
<1>10. InOrder'
  BY <1>2 DEF KnowledgeInv, KnowledgeTypes, InOrder
<1>11. Genuine'
  <2>0. /\ \A u \in Indexers : OfInstalled(loaded[u].model)' = OfInstalled(loaded[u].model)
        /\ \A u \in Indexers : indexer'[u] = indexer[u] \/ indexer'[u].pc = "idle"
    BY <1>2 DEF OfInstalled, KnowledgeInv, KnowledgeTypes, AtRest
  <2>1. ASSUME NEW k \in Models, NEW t \in Pieces, installed.manifest <= k
        PROVE  \/ vectors'[<<k, t>>] = vectors[<<k, t>>]
               \/ k = installed.manifest /\ vectors'[<<k, t>>] = loaded[w].model
                                         /\ OfInstalled(loaded[w].model)
    <3>1. CASE k = key /\ vectors'[<<k, t>>] = loaded[w].model
      <4>1. /\ key <= indexer[w].seen /\ indexer[w].seen <= installed.manifest
            /\ loaded[w].key = indexer[w].seen
        BY <1>0 DEF KnowledgeInv, InOrder, key
      <4>2. key \in Nat /\ indexer[w].seen \in Nat /\ installed.manifest \in Nat /\ key # 0
        BY <1>0, <1>1 DEF Tick, KnowledgeInv, KnowledgeTypes, Models
      <4>3. loaded[w].key = installed.manifest /\ installed.manifest = k /\ installed.manifest # 0
        BY <2>1, <3>1, <4>1, <4>2
      <4>4. QED
        BY <3>1, <4>3 DEF KnowledgeInv, Genuine
    <3>2. QED
      BY <1>5, <3>1
  <2>2. ASSUME NEW k \in Models, NEW t \in Pieces
        PROVE  /\ installed.manifest = k =>
                    vectors'[<<k, t>>] = NoModel \/ OfInstalled(vectors[<<k, t>>])'
               /\ installed.manifest < k => vectors'[<<k, t>>] = NoModel
    <3>1. OfInstalled(vectors[<<k, t>>])' <=> OfInstalled(vectors'[<<k, t>>])
      BY <1>2 DEF OfInstalled
    <3>2. installed.manifest \in Int /\ k \in Int
      BY DEF KnowledgeInv, KnowledgeTypes, Models
    <3>3. QED
      BY <2>1, <3>1, <3>2 DEF KnowledgeInv, Genuine
  <2>3. QED
    BY <1>2, <2>0, <2>2 DEF KnowledgeInv, Genuine
<1>12. QED
  BY <1>8, <1>9, <1>10, <1>11 DEF KnowledgeInv

LEMMA LoseKeeps ==
  ASSUME KnowledgeInv, NEW w \in Indexers, LoseTick(w)
  PROVE  KnowledgeInv'
<1>1. /\ indexer' = [indexer EXCEPT ![w] = AtRest]
      /\ UNCHANGED <<installed, entry, chunked, vectors>>
      /\ loaded' = loaded \/ loaded' = [loaded EXCEPT ![w] = Nothing]
  BY DEF LoseTick
<1>2. loaded' \in [Indexers -> Loads] /\ \A u \in Indexers : loaded'[u] \in {loaded[u], Nothing}
  BY <1>1, NoModelIs DEF KnowledgeInv, KnowledgeTypes
<1>3. \A u \in Indexers : indexer'[u] # AtRest => indexer'[u] = indexer[u] /\ loaded'[u] = loaded[u]
  BY <1>1 DEF KnowledgeInv, KnowledgeTypes
<1>4. KnowledgeTypes' /\ SmallTicks' /\ HeldRows'
  BY <1>1, <1>2, <1>3 DEF KnowledgeInv, KnowledgeTypes, SmallTicks, HeldRows
<1>5. InOrder'
  BY <1>1, <1>2, <1>3 DEF KnowledgeInv, KnowledgeTypes, InOrder, Nothing
<1>6. Genuine' /\ Complete'
  <2>1. \A u \in Indexers : \/ loaded'[u].key = 0
                            \/ /\ loaded'[u] = loaded[u]
                               /\ OfInstalled(loaded[u].model)' = OfInstalled(loaded[u].model)
    BY <1>1, <1>2 DEF OfInstalled, Nothing
  <2>2. \A x : OfInstalled(vectors[x])' = OfInstalled(vectors[x])
    BY <1>1 DEF OfInstalled
  <2>3. \A u \in Indexers : indexer'[u] = indexer[u] \/ indexer'[u].pc = "idle"
    BY <1>1 DEF KnowledgeInv, KnowledgeTypes, AtRest
  <2>4. QED
    BY <1>1, <2>1, <2>2, <2>3 DEF KnowledgeInv, Genuine, Complete
<1>7. QED
  BY <1>4, <1>5, <1>6 DEF KnowledgeInv

LEMMA KnowledgeStep ==
  ASSUME KnowledgeInv, [NextKnowledge]_knowledgeVars
  PROVE  KnowledgeInv'
<1>1. CASE UNCHANGED knowledgeVars
  <2>1. Genuine'
    BY <1>1, StaysGenuine DEF knowledgeVars
  <2>2. QED
    BY <1>1, <2>1 DEF knowledgeVars, KnowledgeInv, KnowledgeTypes, SmallTicks, HeldRows, InOrder,
                      Complete
<1>2. ASSUME NEW w \in Indexers, KnowledgeTick(w) \/ EmbedFails(w) \/ LoseTick(w)
      PROVE  KnowledgeInv'
  <2>1. CASE EmbedFails(w)
    <3>1. indexer[w] # AtRest
      BY <2>1 DEF EmbedFails, AtRest
    <3>2. QED
      BY <2>1, <3>1, TickFails DEF EmbedFails
  <2>2. QED
    BY <1>2, <2>1, TickStarts, IdentifyKeeps, VerifyKeeps, OpenModelKeeps, OpenTokenizerKeeps,
       SaveKeeps, LoseKeeps DEF KnowledgeTick
<1>3. QED
  BY <1>1, <1>2, InstallKeeps, PublishKeeps DEF NextKnowledge

LEMMA KnowledgeAlways == KnowledgeSpec => []KnowledgeInv
BY KnowledgeStart, KnowledgeStep, PTL DEF KnowledgeSpec

\* Every variable of the index keeps its type, and a transaction embeds a bounded number of
\* texts (knowledge/worker.py).
THEOREM KnowledgeTyped == KnowledgeSpec => []KnowledgeTypeOK
<1>1. KnowledgeInv => KnowledgeTypeOK
  BY DEF KnowledgeInv, KnowledgeTypes, SmallTicks, KnowledgeTypeOK, Tick, Loads
<1>2. QED
  BY <1>1, KnowledgeAlways, PTL

\* A version is searched by vectors only when every piece of it has one that was computed by
\* a model whose files were verified as the installed ones, whenever models are replaced and
\* however many workers keep old ones loaded; no file of that model was opened after it had
\* been replaced, unless by an installation that has still not come to its manifest
\* (knowledge/worker.py, knowledge/embedding.py, knowledge/install_model.py).
THEOREM HybridRight == KnowledgeSpec => []HybridIsRight
<1>1. KnowledgeInv => HybridIsRight
  <2> SUFFICES ASSUME KnowledgeInv, NEW v \in Editions, Hybrid(v)
               PROVE  /\ chunked[v] = Cut[v]
                      /\ \A t \in chunked[v] : OfInstalled(vectors[<<installed.manifest, t>>])
    BY DEF HybridIsRight
  <2>1. installed.manifest \in Models /\ chunked[v] \subseteq Pieces
    BY DEF Hybrid, KnowledgeInv, KnowledgeTypes, ChunkRecords, Complete
  <2>2. \A t \in chunked[v] : vectors[<<installed.manifest, t>>] # NoModel
    BY DEF Hybrid, KnowledgeInv, Complete
  <2>3. \A t \in chunked[v] : OfInstalled(vectors[<<installed.manifest, t>>])
    BY <2>1, <2>2 DEF KnowledgeInv, Genuine
  <2>4. QED
    BY <2>3 DEF Hybrid, KnowledgeInv, Complete
<1>2. QED
  BY <1>1, KnowledgeAlways, PTL

-----------------------------------------------------------------------------
(* The offline tools.  A tool that has its guards holds its directories    *)
(* and the generation lock; the servers of those directories are down, so  *)
(* none waits for an answer, and nobody writes a row.  Hence what the tool *)
(* has checked or written last is still what is there.                     *)

Relocates == [pc : {"planned", "leased", "frozen", "copying"}, seen : SUBSET Calls]
Dumps     == [pc : {"dumped"}, rows : [Calls -> RowStates], jobs : [Jobs -> JobStates]]
Prepares  == [pc : {"idle", "leased", "frozen"}]

HoldsLease(t) == tool[t].pc \notin {"idle", "planned"}
HoldsLock(t)  == tool[t].pc \in {"frozen", "dumped", "copying"}

ToolStates ==
  tool \in [Tools -> Relocates \cup Dumps \cup Prepares]

Places ==
  /\ lease \in [Roots -> Servers \cup Tools \cup {Nobody}]
  /\ lock \in Servers \cup Tools \cup {Nobody}
  /\ up \subseteq Servers

Records ==
  /\ row \in [Calls -> RowStates] /\ job \in [Jobs -> JobStates]
  /\ sender \in [Calls -> Servers \cup {Nobody}]
  /\ receipt \in [Servers -> SUBSET Calls]

Kinds ==
  /\ tool["archive"] \in Dumps \cup Prepares
  /\ tool["relocate"] \in Relocates \cup {Inactive}

Leases ==
  /\ \A s \in up : lease[Home[s]] = s
  /\ \A t \in Tools : HoldsLease(t) => \A r \in Needed(t) : lease[r] = t

Locked ==
  /\ lock \in Servers => lock \in up
  /\ \A t \in Tools : HoldsLock(t) <=> lock = t

Senders == \A c \in Calls : sender[c] # Nobody => sender[c] \in up

Frozen ==
  /\ HoldsLock("archive") => ~Active
  /\ tool["archive"].pc = "dumped" => tool["archive"].rows = row /\ tool["archive"].jobs = job

Checked == tool["relocate"].pc = "copying" => receipt[Before] \subseteq tool["relocate"].seen

MaintenanceInv ==
  /\ ToolStates /\ Places /\ Records /\ Kinds
  /\ Leases /\ Locked /\ Senders /\ Frozen /\ Checked

LEMMA Apart ==
  /\ Servers \cap Tools = {} /\ Nobody \notin Servers /\ Nobody \notin Tools
  /\ Before \in Servers /\ After \in Servers /\ Before # After
  /\ \A s \in Servers : Home[s] \in Roots
  /\ \A t \in Tools : Needed(t) \subseteq Roots
BY MaintenanceAssumption DEF Tools, Needed

LEMMA MaintenanceStart == InitMaintenance => MaintenanceInv
<1> SUFFICES ASSUME InitMaintenance PROVE MaintenanceInv
  OBVIOUS
<1>1. Inactive \in Prepares /\ Inactive.pc = "idle"
  BY DEF Inactive, Prepares
<1>2. ToolStates /\ Kinds /\ \A t \in Tools : tool[t] = Inactive
  BY <1>1 DEF InitMaintenance, ToolStates, Kinds, Tools
<1>3. Places /\ Records
  BY MaintenanceAssumption DEF InitMaintenance, Places, Records, RowStates, JobStates
<1>4. Leases /\ Locked /\ Senders
  BY <1>1, <1>2, Apart DEF InitMaintenance, Leases, Locked, Senders, HoldsLease, HoldsLock
<1>5. Frozen /\ Checked
  BY <1>1, <1>2 DEF InitMaintenance, Frozen, Checked, HoldsLock, Tools
<1>6. QED
  BY <1>2, <1>3, <1>4, <1>5 DEF MaintenanceInv

\* While a tool has its guards no row is written.
LEMMA RowsWait ==
  ASSUME MaintenanceInv, Writable \/ lock \in Servers \/ lock = Nobody
  PROVE  ~HoldsLock("archive") /\ ~HoldsLock("relocate")
BY Apart DEF MaintenanceInv, Locked, Places, Writable, Tools

LEMMA ServerStarts ==
  ASSUME MaintenanceInv, NEW s \in Servers, StartServer(s)
  PROVE  MaintenanceInv'
<1>1. lease' = [lease EXCEPT ![Home[s]] = s] /\ up' = up \cup {s} /\ lease[Home[s]] = Nobody
      /\ UNCHANGED <<lock, row, job, sender, receipt, tool>>
  BY DEF StartServer, database
<1>2. ToolStates' /\ Places' /\ Records' /\ Kinds'
  BY <1>1 DEF MaintenanceInv, ToolStates, Places, Records, Kinds
<1>3. \A t \in Tools : HoldsLease(t)' = HoldsLease(t) /\ HoldsLock(t)' = HoldsLock(t)
  BY <1>1 DEF HoldsLease, HoldsLock
<1>4. Leases'
  <2>1. ASSUME NEW x \in up' PROVE lease'[Home[x]] = x
    BY <1>1, <2>1, Apart DEF MaintenanceInv, Leases, Places
  <2>2. ASSUME NEW t \in Tools, HoldsLease(t)', NEW r \in Needed(t) PROVE lease'[r] = t
    BY <1>1, <1>3, <2>2, Apart DEF MaintenanceInv, Leases, Places
  <2>3. QED
    BY <2>1, <2>2 DEF Leases, Needed
<1>5. Locked' /\ Senders'
  BY <1>1, <1>3 DEF MaintenanceInv, Locked, Senders
<1>6. Frozen' /\ Checked'
  BY <1>1 DEF MaintenanceInv, Frozen, Checked, Active, HoldsLock
<1>7. QED
  BY <1>2, <1>4, <1>5, <1>6 DEF MaintenanceInv

LEMMA ServerGoes ==
  ASSUME MaintenanceInv, NEW s \in up, Gone(s)
  PROVE  MaintenanceInv'
<1>1. lease' = [lease EXCEPT ![Home[s]] = Nobody] /\ up' = up \ {s}
      /\ lock' = (IF lock = s THEN Nobody ELSE lock)
      /\ sender' = [c \in Calls |-> IF sender[c] = s THEN Nobody ELSE sender[c]]
      /\ UNCHANGED <<row, job, receipt, tool>>
  BY DEF Gone, database
<1>2. s \in Servers /\ lease[Home[s]] = s
  BY DEF MaintenanceInv, Places, Leases
<1>3. ToolStates' /\ Places' /\ Records' /\ Kinds'
  BY <1>1, <1>2 DEF MaintenanceInv, ToolStates, Places, Records, Kinds
<1>4. \A t \in Tools : HoldsLease(t)' = HoldsLease(t) /\ HoldsLock(t)' = HoldsLock(t)
  BY <1>1 DEF HoldsLease, HoldsLock
<1>5. Leases'
  <2>1. ASSUME NEW x \in up' PROVE lease'[Home[x]] = x
    BY <1>1, <1>2, <2>1, Apart DEF MaintenanceInv, Leases, Places
  <2>2. ASSUME NEW t \in Tools, HoldsLease(t)', NEW r \in Needed(t) PROVE lease'[r] = t
    BY <1>1, <1>2, <1>4, <2>2, Apart DEF MaintenanceInv, Leases, Places
  <2>3. QED
    BY <2>1, <2>2 DEF Leases, Needed
<1>6. Locked'
  BY <1>1, <1>2, <1>4, Apart DEF MaintenanceInv, Locked
<1>7. Senders'
  BY <1>1 DEF MaintenanceInv, Senders, Records
<1>8. Frozen' /\ Checked'
  BY <1>1 DEF MaintenanceInv, Frozen, Checked, Active, HoldsLock
<1>9. QED
  BY <1>3, <1>5, <1>6, <1>7, <1>8 DEF MaintenanceInv

LEMMA ConnectionLost ==
  ASSUME MaintenanceInv, NEW s \in Servers, LoseConnection(s)
  PROVE  MaintenanceInv'
<1>1. lock = s /\ lock' = Nobody /\ UNCHANGED <<lease, up, row, job, sender, receipt, tool>>
  BY DEF LoseConnection, database
<1>2. ToolStates' /\ Places' /\ Records' /\ Kinds'
  BY <1>1 DEF MaintenanceInv, ToolStates, Places, Records, Kinds
<1>3. Leases' /\ Senders' /\ Frozen' /\ Checked'
  BY <1>1 DEF MaintenanceInv, Leases, Senders, Frozen, Checked, HoldsLease, HoldsLock, Active,
              Needed
<1>4. Locked'
  BY <1>1, Apart DEF MaintenanceInv, Locked, HoldsLock
<1>5. QED
  BY <1>2, <1>3, <1>4 DEF MaintenanceInv

LEMMA OwnershipTaken ==
  ASSUME MaintenanceInv, NEW s \in Servers, TakeOwnership(s)
  PROVE  MaintenanceInv'
<1>1. s \in up /\ lock = Nobody /\ lock' = s
      /\ row' = [c \in Calls |-> IF row[c] = "executing" THEN "unknown" ELSE row[c]]
      /\ UNCHANGED <<lease, up, sender, job, receipt, tool>>
  BY DEF TakeOwnership
<1>2. ~HoldsLock("archive") /\ ~HoldsLock("relocate")
  BY <1>1, RowsWait
<1>3. ToolStates' /\ Places' /\ Kinds'
  BY <1>1 DEF MaintenanceInv, ToolStates, Places, Kinds
<1>4. Records'
  BY <1>1 DEF MaintenanceInv, Records, RowStates
<1>5. Leases' /\ Senders' /\ Checked'
  BY <1>1 DEF MaintenanceInv, Leases, Senders, Checked, HoldsLease, Needed
<1>6. Locked'
  BY <1>1, Apart DEF MaintenanceInv, Locked, HoldsLock
<1>7. Frozen'
  BY <1>1, <1>2 DEF Frozen, HoldsLock
<1>8. QED
  BY <1>3, <1>4, <1>5, <1>6, <1>7 DEF MaintenanceInv

\* A row is written, and perhaps somebody waits for it: nothing a tool relies on.
LEMMA RowWritten ==
  ASSUME MaintenanceInv, ~HoldsLock("archive"), Records', Senders',
         UNCHANGED <<lease, lock, up, receipt, tool>>
  PROVE  MaintenanceInv'
<1>1. ToolStates' /\ Places' /\ Kinds' /\ Leases' /\ Locked' /\ Checked'
  BY DEF MaintenanceInv, ToolStates, Places, Kinds, Leases, Locked, Checked, HoldsLease,
         HoldsLock, Needed
<1>2. Frozen'
  BY DEF Frozen, HoldsLock
<1>3. QED
  BY <1>1, <1>2 DEF MaintenanceInv

LEMMA RequestSent ==
  ASSUME MaintenanceInv, NEW s \in Servers, NEW c \in Calls, SendRequest(s, c)
  PROVE  MaintenanceInv'
<1>1. lock = s /\ s \in up /\ ~HoldsLock("archive")
  BY RowsWait DEF SendRequest, MaintenanceInv, Locked
<1>2. Records' /\ Senders'
  BY <1>1 DEF SendRequest, MaintenanceInv, Records, Senders, RowStates
<1>3. QED
  BY <1>1, <1>2, RowWritten DEF SendRequest

LEMMA AnswerSaved ==
  ASSUME MaintenanceInv, NEW s \in Servers, NEW c \in Calls, SaveAnswer(s, c)
  PROVE  MaintenanceInv'
<1>1. ~HoldsLock("archive")
  BY RowsWait DEF SaveAnswer
<1>2. Records' /\ Senders'
  BY DEF SaveAnswer, MaintenanceInv, Records, Senders, RowStates
<1>3. QED
  BY <1>1, <1>2, RowWritten DEF SaveAnswer

LEMMA JobWritten ==
  ASSUME MaintenanceInv, NEW s \in Servers, NEW j \in Jobs, QueueJob(s, j) \/ EndJob(s, j)
  PROVE  MaintenanceInv'
<1>1. ~HoldsLock("archive")
  BY RowsWait DEF QueueJob, EndJob
<1>2. Records' /\ Senders'
  BY DEF QueueJob, EndJob, MaintenanceInv, Records, Senders, JobStates
<1>3. QED
  BY <1>1, <1>2, RowWritten DEF QueueJob, EndJob

\* Only a running server adds to a journal, and the old one's is down while it is copied.
LEMMA ReceiptKeeps ==
  ASSUME MaintenanceInv, Records', Senders', UNCHANGED <<lease, lock, up, row, job, tool>>,
         \/ Before \in up
         \/ receipt'[Before] \subseteq receipt[Before]
  PROVE  MaintenanceInv'
<1>1. ToolStates' /\ Places' /\ Kinds' /\ Leases' /\ Locked' /\ Frozen'
  BY DEF MaintenanceInv, ToolStates, Places, Kinds, Leases, Locked, Frozen, HoldsLease,
         HoldsLock, Needed, Active
<1>2. ASSUME Before \in up PROVE tool["relocate"].pc # "copying"
  BY <1>2, Apart DEF MaintenanceInv, Leases, HoldsLease, Needed, Tools
<1>3. Checked'
  BY <1>2 DEF MaintenanceInv, Checked
<1>4. QED
  BY <1>1, <1>3 DEF MaintenanceInv

LEMMA ReceiptWritten ==
  ASSUME MaintenanceInv, NEW s \in Servers, NEW c \in Calls, WriteReceipt(s, c)
  PROVE  MaintenanceInv'
<1>1. Records' /\ Senders'
  BY DEF database, WriteReceipt, MaintenanceInv, Records, Senders
<1>2. Before \in up \/ receipt'[Before] \subseteq receipt[Before]
  BY Apart DEF WriteReceipt, MaintenanceInv, Records, Senders
<1>3. QED
  BY <1>1, <1>2, ReceiptKeeps DEF WriteReceipt, database

LEMMA ReceiptDropped ==
  ASSUME MaintenanceInv, NEW s \in Servers, NEW c \in Calls, DropReceipt(s, c) \/ GiveUp(s, c)
  PROVE  MaintenanceInv'
<1>1. Records' /\ Senders'
  BY DEF database, DropReceipt, GiveUp, MaintenanceInv, Records, Senders
<1>2. receipt'[Before] \subseteq receipt[Before]
  BY Apart DEF DropReceipt, GiveUp, MaintenanceInv, Records
<1>3. QED
  BY <1>1, <1>2, ReceiptKeeps DEF DropReceipt, GiveUp, database

LEMMA ReceiptCopied ==
  ASSUME MaintenanceInv, NEW c \in Calls, CopyReceipt(c)
  PROVE  MaintenanceInv'
<1>1. Records' /\ Senders'
  BY Apart DEF database, CopyReceipt, MaintenanceInv, Records, Senders
<1>2. receipt'[Before] \subseteq receipt[Before]
  BY Apart DEF CopyReceipt, MaintenanceInv, Records
<1>3. QED
  BY <1>1, <1>2, ReceiptKeeps DEF CopyReceipt, database

\* A tool that stops gives up what it held, and only that.
LEMMA ToolStops ==
  ASSUME MaintenanceInv, NEW t \in Tools, Release(t),
         UNCHANGED <<up, row, job, sender, receipt>>
  PROVE  MaintenanceInv'
<1>1. lease' = [r \in Roots |-> IF lease[r] = t THEN Nobody ELSE lease[r]]
      /\ lock' = (IF lock = t THEN Nobody ELSE lock)
      /\ tool' = [tool EXCEPT ![t] = Inactive]
  BY DEF Release
<1>2. Inactive \in Prepares /\ Inactive.pc = "idle"
  BY DEF Inactive, Prepares
<1>3. Places' /\ Records'
  BY <1>1 DEF MaintenanceInv, Places, Records
<1>4. ToolStates' /\ tool'[t] = Inactive /\ \A u \in Tools : u # t => tool'[u] = tool[u]
  BY <1>1, <1>2 DEF MaintenanceInv, ToolStates
<1>5. Kinds'
  BY <1>2, <1>4 DEF MaintenanceInv, Kinds, Tools
<1>6. /\ ~HoldsLease(t)' /\ ~HoldsLock(t)'
      /\ \A u \in Tools : u # t => HoldsLease(u)' = HoldsLease(u) /\ HoldsLock(u)' = HoldsLock(u)
  BY <1>2, <1>4 DEF HoldsLease, HoldsLock
<1>7. Leases'
  <2>1. ASSUME NEW x \in up' PROVE lease'[Home[x]] = x
    BY <1>1, <2>1, Apart DEF MaintenanceInv, Leases, Places
  <2>2. ASSUME NEW u \in Tools, HoldsLease(u)', NEW r \in Needed(u) PROVE lease'[r] = u
    BY <1>1, <1>6, <2>2, Apart DEF MaintenanceInv, Leases, Places
  <2>3. QED
    BY <2>1, <2>2 DEF Leases, Needed
<1>8. Locked'
  BY <1>1, <1>6, Apart DEF MaintenanceInv, Locked
<1>9. Senders'
  BY DEF MaintenanceInv, Senders
<1>10. Frozen' /\ Checked'
  BY <1>2, <1>4 DEF MaintenanceInv, Frozen, Checked, HoldsLock, Active, Tools, Inactive
<1>11. QED
  BY <1>3, <1>4, <1>5, <1>7, <1>8, <1>9, <1>10 DEF MaintenanceInv

LEMMA LeasesTaken ==
  ASSUME MaintenanceInv, NEW t \in Tools, Lease(t)
  PROVE  MaintenanceInv'
<1> DEFINE step == [tool[t] EXCEPT !.pc = "leased"]
<1>1. /\ lease' = [r \in Roots |-> IF r \in Needed(t) THEN t ELSE lease[r]] /\ Free(t)
      /\ tool[t].pc = (IF t = "archive" THEN "idle" ELSE "planned")
      /\ tool' = [tool EXCEPT ![t] = step]
      /\ UNCHANGED <<lock, up, row, job, sender, receipt>>
  BY DEF Lease, database, MaintenanceInv, ToolStates
<1>2. /\ t = "archive" => tool[t] \in Prepares /\ step \in Prepares
      /\ t = "relocate" => tool[t] \in Relocates /\ step \in Relocates
      /\ step.pc = "leased" /\ t \in {"archive", "relocate"}
  BY <1>1 DEF MaintenanceInv, Kinds, Tools, Prepares, Relocates, Dumps, Inactive
<1> HIDE DEF step
<1>3. ToolStates' /\ tool'[t] = step /\ \A u \in Tools : u # t => tool'[u] = tool[u]
  BY <1>1, <1>2 DEF MaintenanceInv, ToolStates
<1>4. Kinds'
  BY <1>2, <1>3 DEF MaintenanceInv, Kinds, Tools
<1>5. Places' /\ Records' /\ Senders'
  BY <1>1, Apart DEF MaintenanceInv, Places, Records, Senders
<1>6. /\ HoldsLease(t)' /\ ~HoldsLock(t)' /\ ~HoldsLock(t)
      /\ \A u \in Tools : u # t => HoldsLease(u)' = HoldsLease(u) /\ HoldsLock(u)' = HoldsLock(u)
  BY <1>1, <1>2, <1>3 DEF HoldsLease, HoldsLock
<1>7. Leases'
  <2>1. ASSUME NEW x \in up' PROVE lease'[Home[x]] = x
    BY <1>1, <2>1, Apart DEF MaintenanceInv, Leases, Places, Free
  <2>2. ASSUME NEW u \in Tools, HoldsLease(u)', NEW r \in Needed(u) PROVE lease'[r] = u
    BY <1>1, <1>6, <2>2, Apart DEF MaintenanceInv, Leases, Places, Free
  <2>3. QED
    BY <2>1, <2>2 DEF Leases, Needed
<1>8. Locked'
  BY <1>1, <1>6 DEF MaintenanceInv, Locked
<1>9. Frozen' /\ Checked'
  BY <1>1, <1>2, <1>3, <1>6 DEF MaintenanceInv, Frozen, Checked, Active, Tools
<1>10. QED
  BY <1>3, <1>4, <1>5, <1>7, <1>8, <1>9 DEF MaintenanceInv

LEMMA DatabaseFrozen ==
  ASSUME MaintenanceInv, NEW t \in Tools, Freeze(t)
  PROVE  MaintenanceInv'
<1> DEFINE step == [tool[t] EXCEPT !.pc = "frozen"]
<1>1. /\ tool[t].pc = "leased" /\ lock = Nobody /\ lock' = t /\ (t = "archive" => ~Active)
      /\ tool' = [tool EXCEPT ![t] = step]
      /\ UNCHANGED <<lease, up, row, job, sender, receipt>>
  BY DEF Freeze, Proceeds, database, MaintenanceInv, ToolStates
<1>2. /\ t = "archive" => step \in Prepares
      /\ t = "relocate" => step \in Relocates
      /\ step.pc = "frozen" /\ t \in {"archive", "relocate"}
  BY <1>1 DEF MaintenanceInv, Kinds, Tools, Prepares, Relocates, Dumps, Inactive
<1> HIDE DEF step
<1>3. ToolStates' /\ tool'[t] = step /\ \A u \in Tools : u # t => tool'[u] = tool[u]
  BY <1>1, <1>2 DEF MaintenanceInv, ToolStates
<1>4. Kinds'
  BY <1>2, <1>3 DEF MaintenanceInv, Kinds, Tools
<1>5. Places' /\ Records' /\ Senders'
  BY <1>1, Apart DEF MaintenanceInv, Places, Records, Senders
<1>6. /\ HoldsLease(t)' = HoldsLease(t) /\ HoldsLock(t)'
      /\ \A u \in Tools : u # t => HoldsLease(u)' = HoldsLease(u) /\ HoldsLock(u)' = HoldsLock(u)
  BY <1>1, <1>2, <1>3 DEF HoldsLease, HoldsLock
<1>7. Leases'
  BY <1>1, <1>6 DEF MaintenanceInv, Leases, Needed
<1>8. Locked'
  BY <1>1, <1>6, Apart DEF MaintenanceInv, Locked
<1>9. Frozen' /\ Checked'
  <2>1. ~HoldsLock("archive")
    BY <1>1, RowsWait
  <2>2. HoldsLock("archive")' => ~Active /\ tool'["archive"].pc # "dumped"
    BY <1>1, <1>2, <1>3, <1>6, <2>1 DEF Tools, HoldsLock
  <2>3. Frozen'
    BY <1>1, <2>2 DEF Frozen, Active, HoldsLock
  <2>4. Checked'
    BY <1>1, <1>2, <1>3 DEF MaintenanceInv, Checked, Tools
  <2>5. QED
    BY <2>3, <2>4
<1>10. QED
  BY <1>3, <1>4, <1>5, <1>7, <1>8, <1>9 DEF MaintenanceInv

LEMMA DatabaseDumped ==
  ASSUME MaintenanceInv, DumpDatabase
  PROVE  MaintenanceInv'
<1> DEFINE dump == [pc |-> "dumped", rows |-> row, jobs |-> job]
<1>1. /\ tool["archive"].pc = "frozen" /\ tool' = [tool EXCEPT !["archive"] = dump]
      /\ UNCHANGED <<lease, lock, up, row, job, sender, receipt>>
  BY DEF DumpDatabase, FrozenByDump, database
<1>2. dump \in Dumps /\ dump.pc = "dumped" /\ dump.rows = row /\ dump.jobs = job
  BY DEF Dumps, MaintenanceInv, Records
<1> HIDE DEF dump
<1>3. ToolStates' /\ tool'["archive"] = dump /\ tool'["relocate"] = tool["relocate"]
  BY <1>1, <1>2 DEF MaintenanceInv, ToolStates, Tools
<1>4. Kinds' /\ Places' /\ Records' /\ Senders'
  BY <1>1, <1>2, <1>3 DEF MaintenanceInv, Kinds, Places, Records, Senders
<1>5. \A t \in Tools : HoldsLease(t)' = HoldsLease(t) /\ HoldsLock(t)' = HoldsLock(t)
  BY <1>1, <1>2, <1>3 DEF HoldsLease, HoldsLock, Tools
<1>6. Leases' /\ Locked'
  BY <1>1, <1>5 DEF MaintenanceInv, Leases, Locked, Needed
<1>7. Frozen' /\ Checked'
  BY <1>1, <1>2, <1>3 DEF MaintenanceInv, Frozen, Checked, Active, HoldsLock
<1>8. QED
  BY <1>3, <1>4, <1>6, <1>7 DEF MaintenanceInv

LEMMA RelocationPlanned ==
  ASSUME MaintenanceInv, PlanRelocation
  PROVE  MaintenanceInv'
<1> DEFINE plan == [pc |-> "planned", seen |-> receipt[Before]]
<1>1. /\ tool["relocate"] = Inactive /\ tool' = [tool EXCEPT !["relocate"] = plan]
      /\ UNCHANGED <<lease, lock, up, row, job, sender, receipt>>
  BY DEF PlanRelocation, database, Preview
<1>2. plan \in Relocates /\ plan.pc = "planned"
  BY Apart DEF Relocates, MaintenanceInv, Records
<1> HIDE DEF plan
<1>3. ToolStates' /\ tool'["relocate"] = plan /\ tool'["archive"] = tool["archive"]
  BY <1>1, <1>2 DEF MaintenanceInv, ToolStates, Tools
<1>4. Kinds' /\ Places' /\ Records' /\ Senders'
  BY <1>1, <1>2, <1>3 DEF MaintenanceInv, Kinds, Places, Records, Senders
<1>5. \A t \in Tools : HoldsLease(t)' = HoldsLease(t) /\ HoldsLock(t)' = HoldsLock(t)
  BY <1>1, <1>2, <1>3 DEF HoldsLease, HoldsLock, Tools, Inactive
<1>6. Leases' /\ Locked'
  BY <1>1, <1>5 DEF MaintenanceInv, Leases, Locked, Needed
<1>7. Frozen' /\ Checked'
  BY <1>1, <1>2, <1>3 DEF MaintenanceInv, Frozen, Checked, Active, HoldsLock
<1>8. QED
  BY <1>3, <1>4, <1>6, <1>7 DEF MaintenanceInv

LEMMA PlanChecked ==
  ASSUME MaintenanceInv, CheckPlan
  PROVE  MaintenanceInv'
<1>1. CASE tool["relocate"].seen = Preview /\ \A c \in Preview : Bound(c)
  <2> DEFINE step == [tool["relocate"] EXCEPT !.pc = "copying"]
  <2>1. /\ tool["relocate"].pc = "frozen" /\ tool' = [tool EXCEPT !["relocate"] = step]
        /\ UNCHANGED <<lease, lock, up, row, job, sender, receipt>>
    BY <1>1 DEF CheckPlan, database, MaintenanceInv, ToolStates, Tools
  <2>2. /\ tool["relocate"] \in Relocates /\ step \in Relocates /\ step.pc = "copying"
        /\ step.seen = receipt[Before]
    BY <1>1, <2>1 DEF MaintenanceInv, Kinds, Relocates, Inactive, Preview
  <2> HIDE DEF step
  <2>3. ToolStates' /\ tool'["relocate"] = step /\ tool'["archive"] = tool["archive"]
    BY <2>1, <2>2 DEF MaintenanceInv, ToolStates, Tools
  <2>4. Kinds' /\ Places' /\ Records' /\ Senders'
    BY <2>1, <2>2, <2>3 DEF MaintenanceInv, Kinds, Places, Records, Senders
  <2>5. \A t \in Tools : HoldsLease(t)' = HoldsLease(t) /\ HoldsLock(t)' = HoldsLock(t)
    BY <2>1, <2>2, <2>3 DEF HoldsLease, HoldsLock, Tools
  <2>6. Leases' /\ Locked'
    BY <2>1, <2>5 DEF MaintenanceInv, Leases, Locked, Needed
  <2>7. Frozen' /\ Checked'
    BY <2>1, <2>2, <2>3 DEF MaintenanceInv, Frozen, Checked, Active, HoldsLock
  <2>8. QED
    BY <2>3, <2>4, <2>6, <2>7 DEF MaintenanceInv
<1>2. CASE ~(tool["relocate"].seen = Preview /\ \A c \in Preview : Bound(c))
  <2>1. Release("relocate") /\ UNCHANGED <<up, row, job, sender, receipt>>
    BY <1>2 DEF CheckPlan, database
  <2>2. QED
    BY <2>1, ToolStops DEF Tools
<1>3. QED
  BY <1>1, <1>2

LEMMA MaintenanceStep == MaintenanceInv /\ [NextMaintenance]_maintenanceVars => MaintenanceInv'
<1> SUFFICES ASSUME MaintenanceInv, [NextMaintenance]_maintenanceVars PROVE MaintenanceInv'
  OBVIOUS
<1>1. CASE UNCHANGED maintenanceVars
  BY <1>1 DEF maintenanceVars, MaintenanceInv, ToolStates, Places, Records, Kinds, Leases, Locked,
              Senders, Frozen, Checked, HoldsLease, HoldsLock, Active, Needed
<1>2. ASSUME NEW s \in Servers,
             \/ StartServer(s) \/ StopServer(s) \/ KillServer(s)
             \/ LoseConnection(s) \/ TakeOwnership(s)
      PROVE  MaintenanceInv'
  <2>1. CASE StopServer(s) \/ KillServer(s)
    BY <2>1, ServerGoes DEF StopServer, KillServer
  <2>2. QED
    BY <1>2, <2>1, ServerStarts, ConnectionLost, OwnershipTaken
<1>3. ASSUME NEW s \in Servers, NEW c \in Calls,
             \/ SendRequest(s, c) \/ WriteReceipt(s, c)
             \/ SaveAnswer(s, c) \/ DropReceipt(s, c) \/ GiveUp(s, c)
      PROVE  MaintenanceInv'
  BY <1>3, RequestSent, ReceiptWritten, AnswerSaved, ReceiptDropped
<1>4. ASSUME NEW t \in Tools, Lease(t) \/ Freeze(t) \/ Refuse(t) \/ KillTool(t)
      PROVE  MaintenanceInv'
  <2>1. CASE Refuse(t) \/ KillTool(t)
    BY <2>1, ToolStops DEF Refuse, KillTool, database
  <2>2. QED
    BY <1>4, <2>1, LeasesTaken, DatabaseFrozen
<1>5. CASE FinishArchive \/ FinishRelocation
  BY <1>5, ToolStops DEF FinishArchive, FinishRelocation, database, Tools
<1>6. QED
  BY <1>1, <1>2, <1>3, <1>4, <1>5, JobWritten, DatabaseDumped, RelocationPlanned, PlanChecked,
     ReceiptCopied DEF NextMaintenance

LEMMA MaintenanceAlways == MaintenanceSpec => []MaintenanceInv
BY MaintenanceStart, MaintenanceStep, PTL DEF MaintenanceSpec

\* Every variable keeps its type, and leases and locks are where their holders are
\* (core/maintenance.py).
THEOREM MaintenanceTyped == MaintenanceSpec => []MaintenanceTypeOK
<1>1. MaintenanceInv => MaintenanceTypeOK
  <2> SUFFICES ASSUME MaintenanceInv, NEW t \in Tools, lock = t
               PROVE  \A r \in Needed(t) : lease[r] = t
    BY DEF MaintenanceInv, MaintenanceTypeOK, Places, Records, Leases
  <2>1. HoldsLock(t)
    BY DEF MaintenanceInv, Locked
  <2>2. QED
    BY <2>1 DEF MaintenanceInv, Leases, HoldsLock, HoldsLease
<1>2. QED
  BY <1>1, MaintenanceAlways, PTL

\* A finished relocation left no answer behind, and an archive being written misses none, for
\* any number of servers on any directories that live, die, lose their connection and come
\* back meanwhile (response_migration.py, maintenance.py offline_database).
THEOREM OfflineSafe == MaintenanceSpec => []OfflineToolsAreSafe
<1>1. MaintenanceInv => RelocationComplete
  BY DEF MaintenanceInv, Checked, RelocationComplete, Copied
<1>2. MaintenanceInv => BackupIsWhole
  <2> SUFFICES ASSUME MaintenanceInv, tool["archive"].pc = "dumped"
               PROVE  BackupIsIdle /\ BackupHasAnswers
    BY DEF BackupIsWhole, Dump
  <2>1. tool["archive"].rows = row /\ tool["archive"].jobs = job /\ ~Active
    BY DEF MaintenanceInv, Frozen, HoldsLock
  <2>2. QED
    BY <2>1 DEF BackupIsIdle, BackupHasAnswers, Dump, Active
<1>3. QED
  BY <1>1, <1>2, MaintenanceAlways, PTL DEF OfflineToolsAreSafe

-----------------------------------------------------------------------------
(* The archive of a system.  The command keeps the application out, so the *)
(* rows it dumps and the files it copies belong together; what nobody      *)
(* keeps out is seen again when the repository is bundled and the copy     *)
(* judged; and a drill places files and rows of one archive because it     *)
(* asks for an empty target before the one and an empty database before    *)
(* the other.                                                              *)

Gathering == MakingSteps \ {"idle", "clean"}
StagedOn  == {"staged", "packed", "inspected"}

ArchiveTypes ==
    /\ applied \in {Migration[c] : c \in Commits}
    /\ tableRows \subseteq Assets /\ content \subseteq Assets
    /\ serving \in BOOLEAN
    /\ tree \in [head : Commits, clean : BOOLEAN]
    /\ config \in Configs
    /\ making \in [pc : MakingSteps, file : ArchiveFiles]
    /\ shelf \in [Outputs -> ArchiveFiles]
    /\ drill \in [Drills -> [pc : DrillSteps, file : ArchiveFiles]]
    /\ testRows \in ArchiveFiles /\ testFiles \in ArchiveFiles
    /\ incidents \in 0 .. MaxIncidents

\* The command keeps the application out, so what it dumped and what it
\* copied belong together; a repository that nobody moved is the one it saw.
MakingInv ==
    /\ making.pc = "idle" => making = NoMaking
    /\ serving => making = NoMaking
    /\ making.pc # "idle" =>
         (~Gathered.moved => tree = [head |-> Asked.commit, clean |-> TRUE])
    /\ making.pc \in Gathering =>
        /\ applied = Asked.revision
        /\ ~Gathered.moved => Migration[Asked.commit] = Asked.revision
    /\ making.pc \in Gathering \ {"checked"} =>
        Gathered.rows = tableRows /\ Gathered.revisions = {Asked.revision}
    /\ making.pc \in StagedOn =>
         Gathered.rows \subseteq Gathered.files /\ Asked.commit \in Gathered.heads
    /\ making.pc \in {"packed", "inspected"} => Gathered.config = "plain"
    /\ making.pc = "inspected" => Gathered.intact

ShelfInv == \A o \in Outputs : shelf[o] # NoArchive => WholeArchive(shelf[o])

DrillInv ==
    \A d \in Drills :
      /\ drill[d].pc \in {"begun", "extract"} => drill[d].file.name \in Outputs
      /\ drill[d].pc = "place" => WholeArchive(drill[d].file)

TestInv ==
    /\ testFiles # NoArchive => WholeArchive(testFiles)
    /\ testRows # NoArchive => testRows = testFiles

ArchiveInv ==
    /\ ArchiveTypes
    /\ tableRows \subseteq content
    /\ MakingInv /\ ShelfInv /\ DrillInv /\ TestInv

LEMMA EmptyTyped == NoArchive \in ArchiveFiles
BY DEF NoArchive, ArchiveFiles, Configs

LEMMA ArchiveStart == InitSystemArchive => ArchiveInv
<1> SUFFICES ASSUME InitSystemArchive PROVE ArchiveInv
    OBVIOUS
<1> USE DEF InitSystemArchive
<1>1. ArchiveTypes
  <2>1. making \in [pc : MakingSteps, file : ArchiveFiles]
    BY EmptyTyped DEF NoMaking, MakingSteps
  <2>2. drill \in [Drills -> [pc : DrillSteps, file : ArchiveFiles]]
    BY EmptyTyped DEF NoDrill, DrillSteps
  <2>3. tree \in [head : Commits, clean : BOOLEAN]
    OBVIOUS
  <2>4. shelf \in [Outputs -> ArchiveFiles]
    BY EmptyTyped
  <2>5. incidents \in 0 .. MaxIncidents
    BY ArchiveAssumption
  <2>6. testRows \in ArchiveFiles /\ testFiles \in ArchiveFiles
    BY EmptyTyped
  <2> QED BY <2>1, <2>2, <2>3, <2>4, <2>5, <2>6 DEF ArchiveTypes
<1>2. MakingInv
    BY DEF MakingInv, NoMaking, Gathering, StagedOn
<1>3. ShelfInv /\ DrillInv /\ TestInv
    BY DEF ShelfInv, DrillInv, TestInv, NoDrill
<1> QED BY <1>1, <1>2, <1>3 DEF ArchiveInv

LEMMA ApplicationKeeps ==
  ASSUME ArchiveInv,
         \/ Serve \/ StopServing
         \/ \E i \in Assets : WriteContent(i) \/ WriteRow(i) \/ RemoveRow(i) \/ RemoveContent(i)
  PROVE  ArchiveInv'
<1>0. UNCHANGED <<applied, tree, config, making, shelf, drill, testRows, testFiles, incidents>>
    BY DEF Serve, StopServing, WriteContent, WriteRow, RemoveRow, RemoveContent
<1>1. ArchiveTypes' /\ (tableRows \subseteq content)'
    BY <1>0 DEF ArchiveInv, ArchiveTypes, Serve, StopServing, WriteContent, WriteRow, RemoveRow,
       RemoveContent
<1>2. making = NoMaking \/ (UNCHANGED <<tableRows, content>> /\ (serving' => serving))
    BY DEF ArchiveInv, MakingInv, Guarded, Serve, StopServing, WriteContent, WriteRow, RemoveRow,
       RemoveContent
<1>3. MakingInv'
  <2>1. CASE making = NoMaking
    BY <2>1, <1>0 DEF MakingInv, NoMaking, NoArchive, Gathering, StagedOn
  <2>2. CASE UNCHANGED <<tableRows, content>> /\ (serving' => serving)
    BY <2>2, <1>0 DEF ArchiveInv, MakingInv, Gathered
  <2> QED BY <1>2, <2>1, <2>2
<1>4. ShelfInv' /\ DrillInv' /\ TestInv'
    BY <1>0 DEF ArchiveInv, ShelfInv, DrillInv, TestInv, WholeArchive
<1> QED BY <1>1, <1>3, <1>4 DEF ArchiveInv

LEMMA RepositoryMoves ==
  ASSUME ArchiveInv, Noticed, Edited, UNCHANGED config,
         tree' \in [head : Commits, clean : BOOLEAN]
  PROVE  ArchiveInv'
<1>0. /\ UNCHANGED <<applied, tableRows, content, serving, config, shelf, drill, testRows, testFiles>>
      /\ incidents' \in 0 .. MaxIncidents
    BY ArchiveAssumption DEF Edited, Incident, ArchiveInv, ArchiveTypes
<1>1. CASE making = NoMaking
  <2>1. making' = NoMaking
    BY <1>1 DEF Noticed
  <2>2. ArchiveTypes' /\ (tableRows \subseteq content)'
    BY <2>1, <1>1, <1>0 DEF ArchiveInv, ArchiveTypes
  <2>3. MakingInv'
    BY <2>1 DEF MakingInv, NoMaking, Gathering, StagedOn
  <2> QED BY <2>2, <2>3, <1>0 DEF ArchiveInv, ShelfInv, DrillInv, TestInv, WholeArchive
<1>2. CASE making # NoMaking
  <2> DEFINE file == [Gathered EXCEPT !.moved = TRUE]
  <2>0. Gathered \in ArchiveFiles /\ making \in [pc : MakingSteps, file : ArchiveFiles]
    BY DEF ArchiveInv, ArchiveTypes, Gathered
  <2>1. /\ file \in ArchiveFiles /\ file.moved
        /\ file.rows = Gathered.rows /\ file.revisions = Gathered.revisions
        /\ file.heads = Gathered.heads /\ file.files = Gathered.files
        /\ file.config = Gathered.config /\ file.intact = Gathered.intact
    BY <2>0 DEF ArchiveFiles
  <2>2. making' = [pc |-> making.pc, file |-> file]
    BY <1>2, <2>0 DEF Noticed, Gathered
  <2> HIDE DEF file
  <2>3. making'.pc = making.pc /\ Gathered' = file
    BY <2>2 DEF Gathered
  <2>4. ArchiveTypes' /\ (tableRows \subseteq content)'
    BY <2>0, <2>1, <2>2, <1>0 DEF ArchiveInv, ArchiveTypes
  <2>5. making.pc # "idle" /\ ~serving
    BY <1>2 DEF ArchiveInv, MakingInv
  <2>6. MakingInv'
    BY <2>1, <2>3, <2>5, <1>0 DEF ArchiveInv, MakingInv
  <2> QED BY <2>4, <2>6, <1>0 DEF ArchiveInv, ShelfInv, DrillInv, TestInv, WholeArchive
<1> QED BY <1>1, <1>2

LEMMA EditsKeep ==
  ASSUME ArchiveInv, (\E c \in Commits : MoveHead(c)) \/ EditWorktree \/ EditConfig
  PROVE  ArchiveInv'
<1>1. CASE \E c \in Commits : MoveHead(c)
    BY <1>1, RepositoryMoves DEF MoveHead
<1>2. CASE EditWorktree
    BY <1>2, RepositoryMoves DEF EditWorktree, ArchiveInv, ArchiveTypes
<1>3. CASE EditConfig
  <2>0. /\ UNCHANGED <<applied, tableRows, content, serving, tree, making, shelf, drill, testRows, testFiles>>
        /\ incidents' \in 0 .. MaxIncidents /\ config' \in Configs
    BY <1>3, ArchiveAssumption DEF EditConfig, Edited, Incident, ArchiveInv, ArchiveTypes
  <2>1. ArchiveTypes' /\ (tableRows \subseteq content)'
    BY <2>0 DEF ArchiveInv, ArchiveTypes
  <2>2. MakingInv'
    BY <2>0 DEF ArchiveInv, MakingInv, Gathered
  <2> QED BY <2>0, <2>1, <2>2 DEF ArchiveInv, ShelfInv, DrillInv, TestInv, WholeArchive
<1> QED BY <1>1, <1>2, <1>3

\* A step of the command that makes an archive touches nothing but its own
\* state, so its part of the invariant is all there is to show.
LEMMA OnlyMaking ==
  ASSUME ArchiveInv, UNCHANGED <<Untouched, shelf>>, incidents' \in 0 .. MaxIncidents,
         making' \in [pc : MakingSteps, file : ArchiveFiles], MakingInv'
  PROVE  ArchiveInv'
<1>1. ArchiveTypes' /\ (tableRows \subseteq content)'
    BY DEF ArchiveInv, ArchiveTypes, Untouched
<1> QED BY <1>1 DEF ArchiveInv, ShelfInv, DrillInv, TestInv, WholeArchive, Untouched

LEMMA ArchiveBegins ==
  ASSUME ArchiveInv, NEW o \in Outputs, BeginArchive(o)
  PROVE  ArchiveInv'
<1> DEFINE file == [NoArchive EXCEPT !.name = o]
<1>1. file \in ArchiveFiles
    BY DEF NoArchive, ArchiveFiles, Configs
<1>2. making' = [pc |-> "clean", file |-> file]
    BY DEF BeginArchive, Gather
<1> HIDE DEF file
<1>3. making' \in [pc : MakingSteps, file : ArchiveFiles]
    BY <1>1, <1>2 DEF MakingSteps
<1>4. ~serving' /\ tree' = [head |-> Asked.commit, clean |-> TRUE] /\ making'.pc = "clean"
    BY <1>2 DEF BeginArchive, Untouched, CleanRepository
<1>5. MakingInv'
    BY <1>4 DEF MakingInv, Gathering, StagedOn
<1> QED BY <1>3, <1>5, OnlyMaking DEF BeginArchive, ArchiveInv, ArchiveTypes

\* The checks, which gather nothing.
LEMMA CheckKeeps ==
  ASSUME ArchiveInv, NEW pc \in MakingSteps, UNCHANGED <<Untouched, shelf, incidents>>,
         making.pc # "idle", Gather(pc, Gathered),
         \/ /\ making.pc = "clean" /\ pc = "checked" /\ RightRevision
         \/ making.pc = "bundled" /\ pc = "clean again"
         \/ making.pc = "clean again" /\ pc = "ready"
         \/ making.pc = "packed" /\ pc = "inspected" /\ Gathered.intact
  PROVE  ArchiveInv'
<1>0. ~serving
  <2>1. NoMaking.pc = "idle"
    BY DEF NoMaking
  <2> QED BY <2>1 DEF ArchiveInv, MakingInv
<1>1. making'.pc = pc /\ Gathered' = Gathered /\ ~serving'
    BY <1>0 DEF Gather, Gathered, Untouched
<1>2. making' \in [pc : MakingSteps, file : ArchiveFiles]
    BY DEF Gather, Gathered, ArchiveInv, ArchiveTypes
<1>3. UNCHANGED <<applied, tableRows, tree>>
    BY DEF Untouched
<1>4. MakingInv'
  <2>1. CASE making.pc = "clean" /\ pc = "checked" /\ RightRevision
    <3>1. applied = Asked.revision
        BY <2>1 DEF RightRevision
    <3>2. ~Gathered.moved => tree = [head |-> Asked.commit, clean |-> TRUE]
        BY <2>1 DEF ArchiveInv, MakingInv
    <3>3. ~Gathered.moved => Migration[Asked.commit] = Asked.revision
        BY <2>1, <3>2 DEF RightRevision
    <3> QED BY <1>1, <1>3, <2>1, <3>1, <3>2, <3>3 DEF MakingInv, Gathering, StagedOn, MakingSteps
  <2>2. CASE \/ making.pc = "bundled" /\ pc = "clean again"
             \/ making.pc = "clean again" /\ pc = "ready"
    BY <2>2, <1>1, <1>3 DEF ArchiveInv, MakingInv, Gathering, StagedOn, MakingSteps
  <2>3. CASE making.pc = "packed" /\ pc = "inspected" /\ Gathered.intact
    BY <2>3, <1>1, <1>3 DEF ArchiveInv, MakingInv, Gathering, StagedOn, MakingSteps
  <2> QED BY <2>1, <2>2, <2>3
<1> QED BY <1>2, <1>4, OnlyMaking DEF ArchiveInv, ArchiveTypes

LEMMA ChecksKeep ==
  ASSUME ArchiveInv, CheckRevision \/ CheckAgain \/ CheckRevisionAgain \/ InspectPacked
  PROVE  ArchiveInv'
<1>1. CASE CheckRevision
    BY <1>1, CheckKeeps DEF CheckRevision, MakingSteps
<1>2. CASE CheckAgain
    BY <1>2, CheckKeeps DEF CheckAgain, MakingSteps
<1>3. CASE CheckRevisionAgain
    BY <1>3, CheckKeeps DEF CheckRevisionAgain, MakingSteps
<1>4. CASE InspectPacked
    BY <1>4, CheckKeeps DEF InspectPacked, Passes, MakingSteps
<1> QED BY <1>1, <1>2, <1>3, <1>4

LEMMA DumpKeeps ==
  ASSUME ArchiveInv, DumpRows
  PROVE  ArchiveInv'
<1> DEFINE file == [Gathered EXCEPT !.rows = tableRows, !.revisions = {applied}]
<1>0. Gathered \in ArchiveFiles /\ making.pc = "checked" /\ ~serving
    BY DEF ArchiveInv, ArchiveTypes, Gathered, MakingInv, NoMaking, DumpRows
<1>1. file \in ArchiveFiles /\ file.rows = tableRows /\ file.revisions = {applied} /\ file.moved = Gathered.moved
    BY <1>0 DEF ArchiveFiles, ArchiveInv, ArchiveTypes
<1>2. making' = [pc |-> "dumped", file |-> file] /\ UNCHANGED <<Untouched, shelf, incidents>>
    BY DEF DumpRows, Gather
<1> HIDE DEF file
<1>3. making' \in [pc : MakingSteps, file : ArchiveFiles]
    BY <1>1, <1>2 DEF MakingSteps
<1>4. MakingInv'
    BY <1>0, <1>1, <1>2 DEF ArchiveInv, MakingInv, Gathered, Untouched, Gathering, StagedOn, MakingSteps
<1> QED BY <1>2, <1>3, <1>4, OnlyMaking DEF ArchiveInv, ArchiveTypes

LEMMA BundleKeeps ==
  ASSUME ArchiveInv, BundleRepository
  PROVE  ArchiveInv'
<1> DEFINE file == [Gathered EXCEPT !.heads = {tree.head}]
<1>0. Gathered \in ArchiveFiles /\ making.pc = "dumped" /\ ~serving
    BY DEF ArchiveInv, ArchiveTypes, Gathered, MakingInv, NoMaking, BundleRepository
<1>1. /\ file \in ArchiveFiles /\ file.rows = Gathered.rows
      /\ file.revisions = Gathered.revisions /\ file.moved = Gathered.moved
    BY <1>0 DEF ArchiveFiles, ArchiveInv, ArchiveTypes
<1>2. making' = [pc |-> "bundled", file |-> file] /\ UNCHANGED <<Untouched, shelf, incidents>>
    BY DEF BundleRepository, Gather
<1> HIDE DEF file
<1>3. making' \in [pc : MakingSteps, file : ArchiveFiles]
    BY <1>1, <1>2 DEF MakingSteps
<1>4. MakingInv'
    BY <1>0, <1>1, <1>2 DEF ArchiveInv, MakingInv, Gathered, Untouched, Gathering, StagedOn, MakingSteps
<1> QED BY <1>2, <1>3, <1>4, OnlyMaking DEF ArchiveInv, ArchiveTypes

LEMMA StageKeeps ==
  ASSUME ArchiveInv, StageFiles
  PROVE  ArchiveInv'
<1> DEFINE file == [Gathered EXCEPT !.files = content, !.config = config]
<1>0. Gathered \in ArchiveFiles /\ making.pc = "ready" /\ ~serving /\ Asked.commit \in Gathered.heads
    BY DEF ArchiveInv, ArchiveTypes, Gathered, MakingInv, NoMaking, StageFiles, Advertises
<1>1. /\ file \in ArchiveFiles /\ file.rows = Gathered.rows /\ file.heads = Gathered.heads
      /\ file.revisions = Gathered.revisions /\ file.moved = Gathered.moved /\ file.files = content
    BY <1>0 DEF ArchiveFiles, ArchiveInv, ArchiveTypes
<1>2. making' = [pc |-> "staged", file |-> file] /\ UNCHANGED <<Untouched, shelf, incidents>>
    BY DEF StageFiles, Gather
<1> HIDE DEF file
<1>3. making' \in [pc : MakingSteps, file : ArchiveFiles]
    BY <1>1, <1>2 DEF MakingSteps
<1>4. MakingInv'
    BY <1>0, <1>1, <1>2 DEF ArchiveInv, MakingInv, Gathered, Untouched, Gathering, StagedOn, MakingSteps
<1> QED BY <1>2, <1>3, <1>4, OnlyMaking DEF ArchiveInv, ArchiveTypes

LEMMA PackKeeps ==
  ASSUME ArchiveInv, Pack
  PROVE  ArchiveInv'
<1>0. Gathered \in ArchiveFiles /\ making.pc = "staged" /\ ~serving /\ Gathered.config = "plain"
    BY DEF ArchiveInv, ArchiveTypes, Gathered, MakingInv, NoMaking, Pack, StagedIsPlain
<1>1. PICK file \in {Gathered, [Gathered EXCEPT !.intact = FALSE]} : making' = [pc |-> "packed", file |-> file]
    BY DEF Pack, Gather
<1>2. /\ file \in ArchiveFiles /\ file.rows = Gathered.rows /\ file.heads = Gathered.heads
      /\ file.revisions = Gathered.revisions /\ file.moved = Gathered.moved /\ file.files = Gathered.files
      /\ file.config = Gathered.config
    BY <1>0 DEF ArchiveFiles
<1>3. making' \in [pc : MakingSteps, file : ArchiveFiles]
    BY <1>1, <1>2 DEF MakingSteps
<1>4. UNCHANGED <<Untouched, shelf>> /\ incidents' \in 0 .. MaxIncidents
    BY ArchiveAssumption DEF Pack, Incident, ArchiveInv, ArchiveTypes
<1>5. MakingInv'
    BY <1>0, <1>1, <1>2, <1>4 DEF ArchiveInv, MakingInv, Gathered, Untouched, Gathering, StagedOn, MakingSteps
<1> QED BY <1>3, <1>4, <1>5, OnlyMaking

LEMMA MakingEnds ==
  ASSUME ArchiveInv, AbandonArchive
  PROVE  ArchiveInv'
<1>1. making' = NoMaking /\ UNCHANGED <<Untouched, shelf, incidents>>
    BY DEF AbandonArchive
<1>2. making' \in [pc : MakingSteps, file : ArchiveFiles]
    BY <1>1, EmptyTyped DEF MakingSteps, NoMaking
<1>3. MakingInv'
    BY <1>1 DEF MakingInv, NoMaking, Gathering, StagedOn
<1> QED BY <1>1, <1>2, <1>3, OnlyMaking DEF ArchiveInv, ArchiveTypes

LEMMA ShelfKeeps ==
  ASSUME ArchiveInv, NEW o \in Outputs, RemoveArchive(o) \/ DamageArchive(o)
  PROVE  ArchiveInv'
<1> DEFINE file == [shelf[o] EXCEPT !.decayed = TRUE]
<1>1. /\ UNCHANGED <<Untouched, making>> /\ incidents' \in 0 .. MaxIncidents
      /\ shelf[o] # NoArchive
    BY ArchiveAssumption DEF RemoveArchive, DamageArchive, Incident, ArchiveInv, ArchiveTypes
<1>2. shelf[o] \in ArchiveFiles /\ WholeArchive(shelf[o])
    BY <1>1 DEF ArchiveInv, ArchiveTypes, ShelfInv
<1>3. file \in ArchiveFiles /\ WholeArchive(file)
    BY <1>2 DEF ArchiveFiles, WholeArchive
<1>4. shelf' = [shelf EXCEPT ![o] = NoArchive] \/ shelf' = [shelf EXCEPT ![o] = file]
    BY DEF RemoveArchive, DamageArchive
<1> HIDE DEF file
<1>5. /\ shelf' \in [Outputs -> ArchiveFiles] /\ shelf'[o] \in {NoArchive, file}
      /\ \A p \in Outputs \ {o} : shelf'[p] = shelf[p]
    BY <1>3, <1>4, EmptyTyped DEF ArchiveInv, ArchiveTypes
<1>6. ShelfInv'
    BY <1>3, <1>5 DEF ArchiveInv, ShelfInv, WholeArchive
<1>7. ArchiveTypes' /\ (tableRows \subseteq content)'
    BY <1>1, <1>5 DEF ArchiveInv, ArchiveTypes, Untouched
<1>8. MakingInv'
    BY <1>1 DEF ArchiveInv, MakingInv, Gathered, Untouched
<1> QED BY <1>1, <1>6, <1>7, <1>8 DEF ArchiveInv, DrillInv, TestInv, WholeArchive, Untouched

LEMMA LinkKeeps ==
  ASSUME ArchiveInv, LinkArchive
  PROVE  ArchiveInv'
<1>1. /\ UNCHANGED <<Untouched, incidents>> /\ making.pc = "inspected" /\ making' = NoMaking
      /\ shelf' = [shelf EXCEPT ![Gathered.name] = Gathered]
    BY DEF LinkArchive
<1>2. Gathered \in ArchiveFiles /\ WholeArchive(Gathered)
    BY <1>1 DEF ArchiveInv, ArchiveTypes, Gathered, MakingInv, WholeArchive, Gathering, StagedOn, MakingSteps
<1>3. /\ shelf' \in [Outputs -> ArchiveFiles]
      /\ \A p \in Outputs : shelf'[p] = shelf[p] \/ shelf'[p] = Gathered
    BY <1>1, <1>2 DEF ArchiveInv, ArchiveTypes
<1>4. ShelfInv'
    BY <1>2, <1>3 DEF ArchiveInv, ShelfInv, WholeArchive
<1>5. making' \in [pc : MakingSteps, file : ArchiveFiles] /\ MakingInv'
    BY <1>1, EmptyTyped DEF MakingSteps, NoMaking, MakingInv, Gathering, StagedOn
<1>6. ArchiveTypes' /\ (tableRows \subseteq content)'
    BY <1>1, <1>3, <1>5 DEF ArchiveInv, ArchiveTypes, Untouched
<1> QED BY <1>1, <1>4, <1>5, <1>6 DEF ArchiveInv, DrillInv, TestInv, WholeArchive, Untouched

\* A drill touches nothing of the application and of the archives.
LEMMA OnlyDrill ==
  ASSUME ArchiveInv, UNCHANGED Live,
         drill' \in [Drills -> [pc : DrillSteps, file : ArchiveFiles]], DrillInv',
         testRows' \in ArchiveFiles, testFiles' \in ArchiveFiles, TestInv'
  PROVE  ArchiveInv'
<1>1. ArchiveTypes' /\ (tableRows \subseteq content)'
    BY DEF ArchiveInv, ArchiveTypes, Live
<1>2. MakingInv' /\ ShelfInv'
    BY DEF ArchiveInv, MakingInv, ShelfInv, WholeArchive, Gathered, Live
<1> QED BY <1>1, <1>2 DEF ArchiveInv

LEMMA Advances ==
  ASSUME ArchiveInv, NEW d \in Drills, NEW pc \in DrillSteps, NEW file \in ArchiveFiles,
         Advance(d, pc, file),
         pc \in {"begun", "extract"} => file.name \in Outputs,
         pc = "place" => WholeArchive(file)
  PROVE  drill' \in [Drills -> [pc : DrillSteps, file : ArchiveFiles]] /\ DrillInv'
<1>1. drill' = [drill EXCEPT ![d] = [pc |-> pc, file |-> file]]
    BY DEF Advance
<1>2. drill' \in [Drills -> [pc : DrillSteps, file : ArchiveFiles]]
    BY <1>1 DEF ArchiveInv, ArchiveTypes
<1>3. drill'[d].pc = pc /\ drill'[d].file = file /\ \A e \in Drills \ {d} : drill'[e] = drill[e]
    BY <1>1 DEF ArchiveInv, ArchiveTypes
<1> QED BY <1>2, <1>3 DEF ArchiveInv, DrillInv, WholeArchive

LEMMA DrillKeeps ==
  ASSUME ArchiveInv, NEW d \in Drills,
         (\E o \in Outputs : BeginDrill(d, o)) \/ InspectAgain(d) \/ Extract(d) \/ PlaceFiles(d) \/ RestoreRows(d)
           \/ AbandonDrill(d)
  PROVE  ArchiveInv'
<1>0. UNCHANGED Live /\ drill[d].file \in ArchiveFiles
    BY DEF BeginDrill, InspectAgain, Extract, PlaceFiles, RestoreRows, AbandonDrill, ArchiveInv, ArchiveTypes
<1>1. testRows \in ArchiveFiles /\ testFiles \in ArchiveFiles
    BY DEF ArchiveInv, ArchiveTypes
<1>2. CASE \E o \in Outputs : BeginDrill(d, o)
  <2> PICK o \in Outputs : BeginDrill(d, o)
    BY <1>2
  <2> DEFINE file == [NoArchive EXCEPT !.name = o]
  <2>1. file \in ArchiveFiles /\ file.name \in Outputs
    BY DEF NoArchive, ArchiveFiles, Configs
  <2>2. Advance(d, "begun", file) /\ UNCHANGED <<testRows, testFiles>>
    BY DEF BeginDrill
  <2> HIDE DEF file
  <2>3. drill' \in [Drills -> [pc : DrillSteps, file : ArchiveFiles]] /\ DrillInv'
    BY <2>1, <2>2, Advances DEF DrillSteps
  <2> QED BY <2>2, <2>3, <1>0, <1>1, OnlyDrill DEF ArchiveInv, TestInv, WholeArchive
<1>3. CASE InspectAgain(d)
  <2>1. Advance(d, "extract", drill[d].file) /\ UNCHANGED <<testRows, testFiles>> /\ drill[d].file.name \in Outputs
    BY <1>3 DEF InspectAgain, Doing, ArchiveInv, DrillInv
  <2>2. drill' \in [Drills -> [pc : DrillSteps, file : ArchiveFiles]] /\ DrillInv'
    BY <1>0, <2>1, Advances DEF DrillSteps
  <2> QED BY <2>1, <2>2, <1>0, <1>1, OnlyDrill DEF ArchiveInv, TestInv, WholeArchive
<1>4. CASE Extract(d)
  <2> DEFINE file == shelf[drill[d].file.name]
  <2>1. Advance(d, "place", file) /\ UNCHANGED <<testRows, testFiles>> /\ file # NoArchive
    BY <1>4 DEF Extract, Passes
  <2>2. file \in ArchiveFiles /\ WholeArchive(file)
    BY <2>1, <1>4 DEF Extract, Doing, ArchiveInv, ArchiveTypes, DrillInv, ShelfInv
  <2> HIDE DEF file
  <2>3. drill' \in [Drills -> [pc : DrillSteps, file : ArchiveFiles]] /\ DrillInv'
    BY <2>1, <2>2, Advances DEF DrillSteps
  <2> QED BY <2>1, <2>3, <1>0, <1>1, OnlyDrill DEF ArchiveInv, TestInv, WholeArchive
<1>5. CASE PlaceFiles(d)
  <2>1. /\ Advance(d, "restore", NoArchive) /\ testFiles = NoArchive /\ testFiles' = drill[d].file
        /\ UNCHANGED testRows /\ WholeArchive(drill[d].file)
    BY <1>5 DEF PlaceFiles, Doing, ArchiveInv, DrillInv
  <2>2. drill' \in [Drills -> [pc : DrillSteps, file : ArchiveFiles]] /\ DrillInv'
    BY <2>1, EmptyTyped, Advances DEF DrillSteps
  <2>3. TestInv'
    BY <2>1 DEF ArchiveInv, TestInv, WholeArchive
  <2> QED BY <2>1, <2>2, <2>3, <1>0, <1>1, OnlyDrill
<1>6. CASE RestoreRows(d) \/ AbandonDrill(d)
  <2>1. /\ Advance(d, "idle", NoArchive) /\ UNCHANGED testFiles
        /\ testRows' = testRows \/ testRows' = testFiles
    BY <1>6 DEF RestoreRows, AbandonDrill
  <2>2. drill' \in [Drills -> [pc : DrillSteps, file : ArchiveFiles]] /\ DrillInv'
    BY <2>1, EmptyTyped, Advances DEF DrillSteps
  <2>3. TestInv'
    BY <2>1 DEF ArchiveInv, TestInv, WholeArchive
  <2> QED BY <2>1, <2>2, <2>3, <1>0, <1>1, OnlyDrill
<1> QED BY <1>2, <1>3, <1>4, <1>5, <1>6

LEMMA DisposeKeeps ==
  ASSUME ArchiveInv, Dispose
  PROVE  ArchiveInv'
<1>1. UNCHANGED <<Live, drill>> /\ testRows' = NoArchive /\ testFiles' = NoArchive
    BY DEF Dispose
<1>2. DrillInv' /\ drill' \in [Drills -> [pc : DrillSteps, file : ArchiveFiles]]
    BY <1>1 DEF ArchiveInv, ArchiveTypes, DrillInv, WholeArchive
<1> QED BY <1>1, <1>2, EmptyTyped, OnlyDrill DEF TestInv

LEMMA ArchiveStep == ArchiveInv /\ [NextSystemArchive]_archiveVars => ArchiveInv'
<1> SUFFICES ASSUME ArchiveInv, [NextSystemArchive]_archiveVars PROVE ArchiveInv'
    OBVIOUS
<1>1. CASE UNCHANGED archiveVars
    BY <1>1 DEF ArchiveInv, ArchiveTypes, MakingInv, ShelfInv, DrillInv, TestInv, WholeArchive,
       Gathered, archiveVars
<1>2. CASE NextSystemArchive
    BY <1>2, ApplicationKeeps, EditsKeep, ArchiveBegins, ChecksKeep, DumpKeeps, BundleKeeps,
       StageKeeps, PackKeeps, MakingEnds, ShelfKeeps, LinkKeeps, DrillKeeps, DisposeKeeps
       DEF NextSystemArchive
<1> QED BY <1>1, <1>2

LEMMA ArchiveAlways == SystemArchiveSpec => []ArchiveInv
BY ArchiveStart, ArchiveStep, PTL DEF SystemArchiveSpec

(* An archive under its final name is whole, and a drill leaves the rows   *)
(* and the files of one whole archive, whatever is edited meanwhile and    *)
(* wherever a command dies.                                                *)
THEOREM ArchivesSound == SystemArchiveSpec => []ArchivesAreSound
<1>1. ArchiveInv => ArchivesAreSound
    BY DEF ArchiveInv, ShelfInv, TestInv, ArchivesAreSound, DrillIsWhole, WholeArchive
<1> QED BY <1>1, ArchiveAlways, PTL

=============================================================================
