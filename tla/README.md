# A verification of nyawa

nyawa is a memory server for agents: it stores short texts ("memories") in
SQLite, indexes them by keywords (FTS5), by meaning (an HNSW graph of
embeddings) and by the entities they mention, and recalls them through a fused
search. A background "Dream Cycle" maintains the database, a compactor
summarises long conversations, and a RAG store ingests documents. One gateway
process serves HTTP (or MCP over stdio); `nyawa` commands open the same files.

This directory holds TLA+ models of its parts, TLC configurations that check
them on small instances, and proofs, checked by TLAPS, for every instance.

## Inventory

| component | state | operations | what is hard |
|---|---|---|---|
| HNSW index (`internal/index/hnsw.go`) | nodes, layered links, entry point, one mutex | Insert, Search, Delete, Save, Load, MergeAndSave | a walk dereferences neighbours without a check; pruning drops links; links survive deletes |
| index file (`hnsw.go`, `filelock_*.go`) | `<db>.hnsw`, a flock | Save, Load, MergeAndSave | several processes with a copy each; timeouts, retries, death at any point |
| memory store (`internal/store/sqlite.go`) | rows, FTS entries, the index above | InsertMemory, DeleteMemory, ArchiveSuperseded, queries | no transaction spans rows, graph, vectors and file |
| Dream Cycle (`internal/dream/dream.go`) | engine flag, mutex, counters | Start, Stop, Run and its phases | a sleeping loop, lists that grow stale, two processes at once, statements that fail one by one |
| search pipeline (`internal/search`, `internal/pool`) | result cache, object pool | Search: two legs, fusion, graph injection, filters, cut | four reads without a transaction, stale cache, objects recycled while a goroutine reads them |
| entity graph (`internal/graph/store.go, rebuild.go, infer.go`) | nodes, memory-entity edges, weighted pair edges, typed edges | InsertMemoryEntities, ReextractEntities, RebuildGraph, inference | counts read and written in separate statements |
| graph search (`internal/graph/path.go, traverse.go`) | none | FindPath, Traverse | a SELECT per depth of a graph that is rebuilt meanwhile |
| compaction (`internal/compact`, `server/compact_handler.go`) | compaction log | segment, prune, summarise, store | boundaries of segments, compactions of compactions, partial failure |
| RAG store (`internal/rag`) | collections, documents, chunks, vectors | ingest, query, delete | statements of a deletion between those of an ingestion, vectors left behind |
| embedders (`internal/embedder`) | current backend, shared without a lock | Embed with fallback, HealthCheck | racing fallback and health check, widths of vectors |
| HTTP and MCP servers, CLI | none of their own | parse and call the above | concurrency of requests |
| classifier, secret filter | none | regular expressions | - |
| compaction evaluator (`internal/compactioneval`) | none | offline scoring | - |

The gateway's handlers, its Dream Cycle and the commands interact only through
shared state: the SQLite file (SQLite serialises statements, nyawa uses almost
no transactions), the in-memory index of a process (one mutex) and the index
file (one flock). A handler is therefore a sequence of atomic steps with
anything in between, which is how every model here is written.

Properties that make the parts correct, in the order of importance that the
plan follows: the index never points at nothing and finds what was put in;
a stored memory's vector survives restarts and other processes; rows, keyword
entries, vectors and the file agree as far as the code promises; background
work neither loses memories nor doubles itself; recall returns what the filters
allow; counts in the graph equal what they count; what a conversation said
survives its compactions; documents are whole and searchable; one embedder's
failure costs nothing while another answers.

## Modules

| module | models | used by |
|---|---|---|
| `HnswIndex` | the layered graph and its operations, hop by hop | `MCHnswIndex`, `MCVectors`, `HnswIndexProofs` |
| `MemoryStore` | rows, keyword entries, the index of every process and the file | `MCMemoryStore`, `MCVectors`, `MemoryStoreProofs` |
| `EntityGraph` | entity nodes and edges, pair counts, related_to and typed edges | `MCEntityGraph`, `EntityGraphProofs` |
| `DreamCycle` | evict, contradiction, dedup and snapshot of several processes | `MCDreamCycle`, `DreamCycleProofs` |
| `RecallService` | what recall promises, in one step per answer | `Recall` |
| `Recall` | the search pipeline with cache and pool; implements `RecallService` | `MCRecall`, `RecallProofs` |
| `GraphSearch` | FindPath and Traverse of a graph that changes | `MCTools`, `GraphSearchProofs` |
| `Compaction` | a client and the compaction of its conversation | `MCTools`, `ToolsProofs` |
| `Rag` | collections, ingestion, deletion, queries | `MCTools`, `RagProofs` |
| `EmbedderChain` | the chain of embedders, its health check, widths of vectors | `MCTools`, `ToolsProofs` |

`GraphSearch`, `Compaction`, `Rag` and `EmbedderChain` share no state. `MCTools`
holds all four and lets a behaviour exercise one of them, so that their states add
up and do not multiply; as they share nothing, what holds of each holds of them
together. `MCVectors` does the same with `HnswIndex` and `MemoryStore`: to the
store an index is a set of ids, to the index an id is all there is of a memory.
`ToolsProofs` and `MemoryStoreProofs` also prove of these compositions that a
behaviour of the whole is one of each part.

Some modules define an operator that is announced in their header as a slip:
the form that a plausible mistake would give the definition below it. Nothing
uses these; putting one in the place of its definition shows that a property
notices.

### HnswIndex

`nodes`, `level`, `graph`, `entryPoint` and `maxLevel` are the fields of the
`HNSW` struct. Insert and Search hold `h.mu` throughout, so at most one
operation `op` runs, but it walks hop by hop, and the walk reads
`h.nodes[neighbor].Vec` without a nil check: each candidate that the narrow
search of the upper layers takes from its heap (`Expand`), the step to the next
layer (`Descend`) and each layer's linking (`Link`) is an action, and `Panic` is
enabled where the code would dereference nil. The deferred unlock runs and the
HTTP server recovers, so the half-finished insert stays and the model goes on
from it.

Distances are a constant matrix. Equal texts have equal vectors, so distances may
be equal, zero included: `op.open` holds the candidates that are as near as the
nearest and are still to be expanded, `op.seen` the code's `visited`; which of the
equally near is pruned, linked or answered is any choice that Go's map order and
its unstable sort could make (`Closest` is a set of sets, `Outcomes` of links). The
index holds fewer vectors than `EfConstruction` = 200 and `EfSearch` = 50, so the
wide search of a layer visits all that is reachable (`Reach`).

### MemoryStore

`row`, `keyword` and `archived` are the database; `mem[p]` the in-memory index of
process p and `file` the index file, both as sets of ids; `lock` the flock;
`thr[t]` the point a thread has reached. One SQL statement, one call of the index
and one file operation are steps. `Stop` kills a process between any two. The
actions of `InsertMemory` are `InsertRow`, `InsertVector` and then `persistHNSW`
(`LockFile`, `SaveFile`, `SaveFails`), those of `DeleteMemory` `DeleteRow`,
`DeleteVector` and the same save; `Evict`, `DedupRow` and `DedupVector` are what
the Dream Cycle does to these stores, `CopyToArchive`, `DeleteArchived` and
`ClearKeywordIndex` the archive, `ListActive` to `MergeFails` the reindex.
`durable` is a history variable: the ids whose store returned after a save that
succeeded.

### EntityGraph

`node`, `edge`, `count`, `weight` and `typed` are the tables `entity_nodes`,
`entity_edges`, `entity_pair_counts` and the two kinds of rows of
`entity_entity_edges`. `insertMemoryEntities` is a store's sequence of actions:
`Mention` for each name, then for each pair `CountPair`, `ReadCount` and, from a
count of two, `Relate`, and at last `InferTyped`. It has no transaction, so every
statement may fail (`MentionFails`, `CountFails`, `RelateFails`), others write in
between, and the process may die (`Die`). Names and pairs come in any order (the
code ranges over a Go map). A typed edge may fail after the node of its source, or
of both its ends, was created (`InferTyped`). `ReextractEntities` and `RebuildGraph` are
transactions of the Dream Cycle's phase 7 and therefore single actions, except
that the memories are listed before the first begins (`ListMemories`). Within a
re-extraction each memory's statements succeed or fail together: SQLite gives up
on them only while the transaction waits for the write lock.

The node of an entity, its id and its edge are three statements and one action:
nodes are never deleted, so nothing can come between them that matters.
`skewed` is a history variable: the pairs that a failure, a death, a
re-extraction or a rebuild during a store may have left miscounted, emptied by
each rebuild except for the stores under way.

### DreamCycle

`created`, `active`, `text`, `age` and `raised` are columns of `memories`;
`dream[p]` is what the cycle of process p is at, with the lists that a phase has
read and now works off statement by statement: `todo` the pairs of
phaseContradiction or of phaseDedup, `left` how many more of them it may act on,
`list` the rows a snapshot still has to supersede, `draft` its text. The gateway's loop and
`nyawa dream` (a process of its own) run at the same time, handlers store and
forget, memories grow old, any statement may fail (`..Fails`, and the `Fault`
alternatives) and a process may die.

A text is the set of words it has, those of its first 120 bytes (`head`) apart
from the rest, because a snapshot keeps 120 bytes of each memory it replaces.
`Overlaps` counts words as dream.go:193-224 does, against a threshold in per cent
that is a constant, so that it is not transitive: where a text of 13 words shares
12 with the next at 92 per cent, three words share two at 60. A
snapshot's row may come before those of memories stored the same day
(`InsertSnapshot`): `datetime('now')` (dream.go:275) sorts as a text before the RFC
3339 times of a store (sqlite.go:264). `why` and `botched` are history
variables: what superseded a row and for the sake of which, and snapshots whose
row was never written.

### Recall and RecallService

A recall is the sequence `Miss`, the two legs in any order (`KeywordLeg`;
`VectorLeg` and, in a namespace, `filterActiveIDs`), `Process` (rows, fusion,
boosts), `Traverse` and `Inject` (or `NoGraph`), `Finish` (filters, limit, cache)
and `Respond`; or a `Hit` of the cache. Between any two of them memories are
stored and superseded. `obj` and `pool` are the result objects: a handler gets
them from the pool, the cache owns copies, a goroutine counts accesses of the
handler's while they are already released (`IncrementAccessCount`).

`RecallService` says what all of this amounts to: a question is answered in one
step, without repetition, within its limit, with memories that it does not rule
out and that were not gone when it was asked, or with an answer that was given so
to a question of the same cache key and is not yet too old; and the answer stays as
it is until its handler is done. `CacheKey` joins the fields of a query as
`types/memory.go:149-169` does, the optional ones without a word on which of them
they are and the excluded types with commas, so that two queries may have one key;
texts, namespaces and types are taken to hold no NUL. `Recall`
implements it under the mapping of `Service`: the reply is what the ids of the
handler's objects say, so that an object which two results share, or which is
recycled too early, would change an answer under its owner.

### GraphSearch

`edges`, `mentions` and `known` are the graph; `path` and `walk` one FindPath and
one Traverse, an action for each of their SELECTs. The searches read only, so
one at a time is enough. A SELECT of an end of the path that fails is answered as
"no path" (`ResolveFails`), one that fails in a later step ends the search or passes
an entity over, and rows that an error cuts off are taken for all there are (`lost`
of `Expand` and `ReadEdges`, `ReadFails`), for nothing looks at `rows.Err`. `ever`,
`kept` and `skipped` are histories: the edges that existed at some time since the
search began, those that existed all the time and were read, and the entities whose
memories were not all read.

### Compaction

A client has a conversation (`talk`), sends it, waits or gives up, and goes on
with the block it receives, so that summaries are summarised again. A message is
what may happen to it (a tool result, longer than the limit, a string or not) and
the turns of the conversation it still tells. `Compact` parses, prunes and
segments; `SummarizeSegment`, `StoreSummary` and `Log` are calls that may fail. A
summary tells what its segment tells, or nothing when the model answers with
nothing. A panic of InsertMemory, out of the index, is an error to the client, which
keeps its conversation (`InsertPanics`). `forgotten` is a history: the turns lost where the code means them to be,
and by an empty answer.

### Rag

`collections`, `docs` and `chunks` are the tables, `vectors` and `saved` the
chunks' part of the index and of its file. Ingestion, deletion and query are
sequences of statements without a transaction; `Fail`, `ChunkFails` and `Restart`
are the faults. `chunkText` is translated as a recursive function, over files as
sequences of character classes. The UPDATE of a document's chunk count may fail
unnoticed (`CountChunks`). `raced`, `cleared` and `erased` are histories that
say which documents met a deletion, `failed` and `uncounted` those of which a chunk
or the count was not written.

### EmbedderChain

`current` is the field of `PriorityChain` that handlers and the health checker read
and write without a lock: each read, each question to an embedder and each write is
an action of its own, so that a selection (`AskInTurn`, then `Prefer` or `PreferNone`)
or a fallback (`Fall`, `AskToFall`, `Adopt`) may overwrite what another goroutine
has written since it asked; `Panic` is the nil that was not there when it was
compared. A vector is its width. `Start` is `getEmbedder` and
`NewStore`, which refuse a chain of another width than the index's; `Stores` and
`Recalls` are what the store and the pipeline do with the vector they are given.
`could` and `undone` are histories: the embedders that were available and answered
all along, and that another goroutine's nil came between the call's selection and
its reading of it. The last is the one way in which a store misses an embedder that
answers throughout.

## What the runs check

| run | instance | shows |
|---|---|---|
| `vectors` | the links of 4 vectors on a line, two of them equal, 2 layers, M = Mmax = 2; the memories of one process, two handlers and the Dream Cycle, 3 memories, 2 attempts per save | entry point valid, links to deleted ids only above their level, every completed insert leaves an inbound link, degrees do not creep, every operation gets nearer to its end though vectors are equal, a small index without deletes answers exactly; saved vectors stay through crashes, restarts, failures and the others' work |
| `store_shared` | a gateway and a command that archives, reindexes or dreams, 2 memories, 2 attempts per save | no vector before its row, a merge drops nothing from the file, the flock is released, every request ends |
| `graph_counts` | 2 memories with the same 2 entities, two handlers, two Dream Cycles (gateway and `nyawa dream`) | counts are the co-occurrences less what stores owe, and pairs counted twice are related, unless skewed |
| `graph_live` | 2 memories, one handler, one Dream Cycle | active memories get their entities back, shared entities become related |
| `dream_cycles` | 3 memories, 3 snapshots, the gateway's loop and one `nyawa dream`, a fault | from a dropped duplicate a chain of overlaps leads to an older memory that dedup has not dropped; what a snapshot replaces begins in it; old memories are condensed in the end |
| `recall_answers` | 2 memories in 2 namespaces, a RAG chunk, 2 handlers, a cache of one entry, an access counter, a fault | an object has one owner, keyword matches are answered, every answer is one a single step could have given, to this query or one of its cache key (refinement) |
| `tools_safety` | a graph of 4 entities and 1 memory; 2 RAG jobs on one collection; 3 embedders in 2 chains, 2 handlers and the health checker | paths are shortest, entities count once; documents are whole, orphans come from races only, answers are current, what was ingested is searchable; one width in the index, no embedder is passed over but by one race of the selection |
| `tools_live` | 3 turns, 2 requests; the embedders with one handler | nothing said is dropped, answers name what was stored, every request is answered; an available embedder is adopted |
| `hnsw_reload` | 6 vectors in two clusters, one layer, no deletes | finding: a reload leaves half of the index out of every search |
| `store_lost` | a gateway and a reindex, 2 memories | finding: the gateway's next save drops what the reindex merged |
| `recall_namespace` | `recall_answers` with one query | finding: the graph leads a recall out of its namespace |
| `embedder_fallback` | the embedders of `tools_live` | finding: a recall is refused, not answered from the keywords |

Bounds. Four vectors with two links each are enough for a full neighbour to be
pruned, for a node to lose its last inbound link and for the graph to fall apart;
two layers for links above a node's own level. `Modes` are indexes with and
without deletes (`GrowSpec`). Six vectors are the least that two clusters need to
part from each other for good.
Ids are never used twice (`UnixNano`), so a run is finite without a bound on the
number of operations. Retries are bounded by the code itself. Two memories that
share two entities, stored by two handlers, are the least that lets two stores
raise one count at once. `MaxCount` stops re-extractions whose rebuild fails
from raising a count for ever; three lets one memory be counted again twice.

Three memories, each overlapping the one before while the third does not overlap
the first, make a chain whose middle may be dropped first; with three snapshots each cycle can
hold one while another grows old and is itself replaced. `SnapshotLimit` is 2 (the
code: 5), `DedupLimit` 2 (10) and `ContradictLimit` 1 (20), so that each can be
reached; the threshold of 60 per cent does with three words what 92 does with 13. A recall's cache of one entry is always full; a limit of one makes filters
and the cut compete; two queries that exclude one type with a comma in its name and two
types have one cache key and different answers. The fault is a failing statement or a missing embedding. Only
a memory listed in `Forgettable` is superseded, and what a handler asks is in
`Loads`, because two handlers with every query and a fault are too many states.
The graph of the searches has a cycle and a branch, so that there are two ways
and a depth of 1 or 3 matters. Rows cut off by an error count as one of the
`MaxChanges` changes of the graph, so that they are few. A file of seven characters, cut after a full stop
before a blank, has chunks that are cut at a separator and at the size; `MaxAsked` = 3
requests are an ingestion, a deletion and another ingestion or a query, `MaxHits`
= 2 vectors more than `TopK` = 1. In `tools_safety` the two handlers of the embedders
do and know the same, hence the symmetry of `Callers` (the run has no liveness
property); likewise that of the memories in `vectors`. Of three
turns the first compaction leaves a block and a tail of four messages, which the next
one cuts into segments that overlap.
`dream_cycles` and the two runs of `MCTools` do not check for deadlock: when
nothing is left to store, to forget or to age and the bounds are reached, a model
may stop where the program would merely wait.

Fairness. `MemoryStore!FairSpecStore` is weak
fairness of a thread that has begun its request; nothing obliges anybody to issue
one, to start or to stop. The flock gives up after 30 s, so a thread that waits
for it always has a next step (`SaveFails`, `MergeFails`). `EntityGraph!FairSpec`
lets the Dream Cycle, a loop with a two-hour sleep, go round (weak fairness of its
steps), and assumes that a complete re-extraction and a rebuild that are begun
again and again succeed some time (strong fairness). Both fail only while another
connection writes, and the gateway's writes are short; nothing is assumed of
handlers, which may fail, stall or die at any point. `DreamCycle!FairSpec` is weak
fairness of the gateway's cycle alone: the loop wakes up again and again, and a
statement returns with a result or an error; `nyawa dream` may stop anywhere.
`FairCompact` is weak fairness of a request's handler: calls of the summariser have
a timeout, writes return. `FairChain` is weak fairness of the health checker, a
loop with a ticker, up to the panic that ends the process; nothing is assumed of
embedders or handlers.

## What is proved

For every value of the constants that their ASSUMEs allow, in particular any
number of ids, layers, links, processes, handlers, memories, limits and faults:

* `HnswIndexProofs`: `TypeCorrect`, `EntryPointCorrect`, `DanglingConfined`,
  `LayerZeroNeverPanics`, `GrowLinksJoinStoredNodes`, `OperationsAdvance`, `DegreesBounded`,
  `InsertsAreLinked` and `SmallIndexExact`. `IndexInv` strengthens
  `TypeOK` and `EntryPointValid` with `OpSound` (the running operation stands on
  a stored node), without which the entry point an insert is about to replace is
  unknown. `OperationsAdvance` is the ranking that ends every operation: layers go
  down, and within a layer the nodes that were expanded grow (`Settled`), because none
  is expanded twice; nothing is assumed of distances but that they are
  numbers, so that any number of vectors may be equal. `InsertsAreLinked`
  follows the link that is asserted again after pruning, from the nearest node that
  the walk saw. `SmallIndexExact` is about indexes without deletes: with at most
  Mmax + 1 nodes pruning drops nothing, so that layer 0 connects all of them
  (`Connected`) and the scan sees every node. That the bound is needed is what
  `hnsw_reload` shows.
* `MemoryStoreProofs`: `StoreTypeCorrect`, `RowsBeforeVectors` (a vector is never
  before its row; the row may be superseded or archived since), `MergeLosesNothing`
  from `StoreInv` (the flock is held from the read to the write of a merge, so
  the file cannot grow in between), and `SoleProcessIsDurable` from `SoleInv`,
  under the assumption that one process has the database open: what was promised
  is in the index that the next save writes, and nothing on its way out of it is
  active. `store_lost` shows that the assumption is needed. Of the two models
  together, `VectorsTypeCorrect` and `AppendOnlyExact`: each step is one of one part,
  and a behaviour without deletes is one of `GrowSpec`.
* `EntityGraphProofs`: `TypeCorrect`, `CountsCorrect` and `RelatedWhenCountedTwice`
  from `GraphInv`. Its heart is `UncountedHasOwnEdges`: a pair that a store is
  still to count, and that nothing skewed, has of that memory exactly the edges
  which the store itself wrote. So the last edge of a pair adds the memory to
  those that mention it and the store to those that owe it a count in one step,
  and `CountPair` settles the debt. It needs that stores are of different
  memories (`StoresDistinct`) and that edges a store did not write came from a
  re-extraction, all of the memory's at once (`EdgesSound`).
* `DreamCycleProofs`: `DreamTypeCorrect`, `RepresentativesRemain` and
  `SnapshotsKeepHeads` from `DreamInv`. A cycle acts on lists that are old.
  `CycleSound` says why that does no harm: rows keep their order and their texts,
  so a pair that was a duplicate when it was listed is one when it is dropped, and
  the rows of a snapshot's list are in its draft. `Represented` follows the chain of
  representatives, each of which overlaps the next: "older" is transitive, "overlaps"
  is not, and the theorem does not say that the end of the chain resembles its
  beginning. That two cycles do not write the same snapshot is a conjunct of its own.
* `GraphSearchProofs`: `SearchTypeCorrect`, `PathsAreShortest` and
  `EntitiesAreCountedOnce`. The graph changes while it is searched, so that a search
  is compared with two graphs: of the edges that were there at some time, which bound
  what it may find, and of those that were there all the time, which bound what it
  must. What a failing statement left out is not among the latter; a path whose end
  could not be looked up is promised nothing. `Shortest` says of a path under way that all within its depth by lasting
  edges has been reached, that what was reached lies within its depth by edges that
  ever were, and that the way kept for it is one. `WalkSound` says the same of a
  traversal, and that for some choice of mentions, one for every entity that was met,
  the scores are the sums over them; so no entity counts twice for a memory,
  however often its edges are met. The lemmas are about the spread of a set along
  edges, reached step by step (`Within`), and about sums.
* `ToolsProofs`, of a compaction: `CompactTypeCorrect`, `NothingDropped` and `NamesStored`
  from `CompactInv`. What was said is in what the client has or in what the request it
  waits for still carries (`Carries`): the summaries so far, what was lost, and the
  messages from the next segment on. A step is at least one message and no longer
  than a segment, for every size and overlap, hence no gap. `Names` keeps the ids
  of an answer those of its own request.
* `ToolsProofs`, of the embedders: `ChainTypeCorrect`, `WidthCorrect` and `NothingPassedOver`
  from `ChainInv`. `CallSound` says of a call what its history permits: an embedder
  it can count on is available and alive, a report that nothing is selected means
  there was none or that another goroutine's nil came between, and a selection or a
  fallback under way has not passed one.
* `ToolsProofs`, of all four tools together: `ToolsTypeCorrect`, from the types of
  each.
* `RagProofs`: `RagTypeCorrect`, `OrphansByRaceOnly`, `AnswersCurrent`,
  `IngestedSearchable` from `RagInv` and `DocumentsWhole` from `WholeInv`. Ids of collections are not used twice, so
  what a document was ingested into stays told apart (`Histories`) while names come
  and go. `DeleteSound` says what a deletion has left behind it at each of its
  statements, `Together` that whatever runs beside it was noted. `IngestSound` has
  a vector, or a note that there is none, for every chunk but the one under way,
  and `InFile` makes that survive a restart. `DocumentsWhole` begins with the
  algorithm: a cut is neither 0 nor past the end (`CutWithin`), so that the recursion
  of `chunkText` is well founded and its function exists (`ChunkingExists`), and its
  chunks cover the text one after the other (`ChunksCover`), for every text and
  every size. That a document counts them is promised where the UPDATE did not fail. `WholeInv` adds that the rows of an ingestion under way are the first
  chunks, as many as it has counted.
* `RecallProofs`: `RecallTypeCorrect`, `ResultsOwned`, `KeywordMatchesAnswered` and
  `RecallImplementsService` from `RecallInv`. A step of a handler takes only objects
  that were released or that nothing refers to, and touches no others
  (`HandlerStep`): hence what another handler has found, answers or has left in the
  cache stays as it is. `FoundSound` says that a search has found no memory twice
  and none that was gone when it began, `DueSound` that, stage by stage, it still
  has every keyword match that has been active since. Supersession is final
  (`GoneStays`), so that what was read early is not refuted later. Each step is
  then a step of `RecallService` or a stutter: an answer is given where the cache or
  `Finish` produces it, and everything before it is invisible. Nothing is assumed of
  the cache key, which may be that of several queries. The proof needs that
  memories are finitely many and that rankings repeat nothing: the keyword table
  has a row per memory and the vector index a node per id.

The proofs assume what the modules' named ASSUMEs say of the constants; TLC
evaluates them in every run.

Every safety invariant and every action property that a passing run checks is
stated by a theorem. Only model-checked are the liveness properties
(`LockIsReleased`, `RequestsEnd`, `EntitiesAreBackfilled`, `SharedEntitiesAreRelated`,
`OldAreCondensed`, `EveryRequestIsAnswered`, `AvailableIsAdopted`), because the prover
handles neither fairness nor ENABLED, and what the findings refute. Recursive functions
are within reach although the library's induction theorems are not: `Least` and
`Naturals` of `GraphSearchProofs` give induction over a set of naturals, from the
well-foundedness of `<`, and with it that a function which satisfies its recursion
exists. `RagProofs` takes them from there.

## Findings

1. `hnsw_reload`. `hnsw.go:595-597` says that making the links symmetric when the
   file is loaded "guarantees every stored node is reachable". Pruning can drop both
   halves of a link, so that two clusters part and a load finds nothing to restore;
   every search then misses one of them. The attempt to prove that a leaf can be found
   after its insert, which TLC had confirmed for four vectors, led to it: with five
   that is false.
2. `store_lost`. `MergeAndSave` keeps what it finds in the file, but the running
   gateway's next `Save` writes its own index over it, so that the vectors of a
   reindex are lost, against `hnsw.go:477-479`.
3. `recall_namespace`. README.md:48 has namespaces isolate memories. The legs keep
   to the namespace, but what the graph reaches is fetched by id alone
   (`pipeline.go:246-249`), so that a recall answers with memories of others.
4. `embedder_fallback`. README.md:144-145 falls back to keyword search when no
   compatible embedder is available. When BGE (384) fails and Ollama (768) answers,
   the index refuses the vector and the recall fails (`pipeline.go:91-93`), as do
   stores (`sqlite.go:304-310`).

Seen while reading or modelling, without a run of its own.

Index and store:

* `Delete` unlinks a node in the layers up to its own level; `insertLocked` links it
  above that level too. A later walk dereferences nil (`hnsw.go:299`); the HTTP
  server recovers, the index keeps the link. `Panic` of `HnswIndex` models it.
* Pruning a neighbour can take the last link to a third node, which the test at
  `hnsw_test.go:128` says never happens.
* `hnsw.Save` writes a temporary file and renames it (`hnsw.go:438-475`), which is safe
  against a crash but not against another process's merge (finding 2).
* A vector outlives its row: a memory forgotten between the writing of the two keeps
  it for ever. `VectorsHaveRows` says no more than that it never comes first.
* `ArchiveSuperseded` empties the keyword index of the memories that stay
  (`sqlite.go:593`), and deletes every superseded row, those superseded after its
  SELECT or not copied because of an error included (`sqlite.go:556-592`).

Graph:

* `ReextractEntities` counts the pairs of each memory again, so that one memory
  relates its entities until a rebuild succeeds; `rebuild.go:31` calls it idempotent
  and README.md:267 asks for two memories.
* `related_to` weights may be behind the counts after two stores at once, and
  superseded memories are still counted by `RebuildGraph`.
* `path.go:7` calls a hop directed, but the search also goes against edges.
* `FindPath` answers "no path" when the SELECT of an end fails (`path.go:36-41`), although
  `path.go:26-28` has that answer mean an unknown entity or no path; neither it nor
  `Traverse` looks at `rows.Err`. The model has these steps, and `PathIsShortest` and
  `EntitiesCountOnce` promise nothing of what they leave out.
* A typed edge that fails may leave the node of its source (`infer.go:90-97`).

Dream Cycle:

* `phasePriority` uses LEAST and GREATEST, which SQLite does not have, so the
  phase always fails; `phaseContradiction` raises importances below 0.3.
* `docs/context-compaction-design.md:249` says that dedup supersedes the older memory
  and README.md speaks of an hourly cycle; the code supersedes newer duplicates and
  runs every two hours.
* `phaseDedup` measures overlap against the older memory only, so that a newer one
  that contains it and says more, a snapshot included, is superseded; the
  representative may itself have been superseded earlier in the same phase. As sharing
  more than 92% of the words is not transitive from 13 words on, a memory may be
  dropped although no memory that is left shares that much with it, where
  README.md:197 speaks of near-duplicates. The instance of `dream_cycles` has such a
  chain, and `RepresentativeRemains` promises its end only.
* `phaseSnapshot` copies memories forgotten since its SELECT, and loses the old
  ones when its INSERT fails. A snapshot sorts before memories stored earlier on
  the same day, which dedup then takes for the newer ones.

Recall:

* Two queries can have one cache key (`types/memory.go:149-169`): a minimal score of 0.5
  and the excluded type "0.5", or the excluded types ["a,b"] and ["a", "b"]. One is
  then answered with the other's results, its own filters unapplied, against the
  comment at `types/memory.go:146-148`. The instance of `recall_answers` has such
  queries, and `AnswersAtOnce` compares an answer with those of its key.
* Accesses are counted from objects that are already released and reset, and the
  command exits before they are, against `docs/recall-pipeline.md:242`.
* `filterActiveIDs` loses the order of similarity that the fusion ranks by.
* Time travel (README.md:49) never returns a memory superseded since, because
  `GetMemoriesByIDs` leaves out superseded rows.
* An answer that is empty because a leg failed is cached for five minutes, and
  `Cache.Get` may delete an entry that was renewed meanwhile.
* Vectors of RAG chunks and of forgotten memories use up the places of the vector leg.
* The comment of `mergeGraphResults` (`pipeline.go:207`) still says 1.5x.

Compaction:

* `PruneToolResults` writes "tool result stored in nyawa" for results that nothing
  stores (`compact.go:126`).
* A `segment_overlap` that is absent is 0, where
  `docs/context-compaction-design.md:284,397` has a default of 5; the tail is pruned too
  (`compact_handler.go:98`), where :267 and :398 keep it verbatim.
* `LogCompaction` logs a summary that was not stored; the answer to a short
  transcript empties contents that are not strings (`compact_handler.go:103-107`),
  whose comment says unchanged.

RAG:

* `DeleteCollection` leaves the vectors, and queries without a name may still answer
  with rows that an ingestion wrote beside a deletion.
* An UPDATE of the chunk count that fails goes unnoticed (`store.go:180`): the answer
  has the count, the row keeps 0.
* A vector that the index refuses stops an ingestion with a chunk count of 0. Two
  requests that create one collection at once fail on its UNIQUE name.
* A query with the cross-encoder starts a Python process of its own and never
  stops it.

Embedders:

* `PriorityChain.current` is read again after it was compared with nil; in the health
  checker's goroutine the panic ends the process. `Panic` of `EmbedderChain` models it.
* `selectActive` writes its nil after it has asked every embedder over HTTP: when one
  comes up meanwhile and a store has selected it, the nil comes last and the store
  goes without a vector although the embedder answered throughout (`PreferNone`,
  `undone`).
* A BGE process that has died stays "available", so that the chain, once fallen back,
  stays with Ollama and stores are refused until a restart. An empty index adopts
  768 if Ollama is chosen first, and a later start with BGE is refused.
* The goroutine that reads BGE's stderr blocks on the second error line after READY
  (`py_embedder.go:76`), and the process with it once the pipe is full.

## Plan

What is done stands first; the order is that of importance.

| step | module | state | left |
|---|---|---|---|
| 1 | `HnswIndex` | modelled, checked, all its properties proved | - |
| 2 | `MemoryStore` | modelled, checked, durability of a sole process proved | an abstract store (a set of remembered ids) that a sole process implements, its step simulation proved |
| 3 | `EntityGraph` | modelled, checked, counts proved | - |
| 4 | `DreamCycle` | modelled, checked, dedup and snapshots proved | - |
| 5 | `Recall`, `RecallService` | modelled, checked, ownership, keyword matches and the refinement proved | - |
| 6 | `GraphSearch`, `Compaction`, `Rag` | modelled, checked, proved | - |
| 7 | `EmbedderChain` | modelled, checked, proved | - |
| 8 | evaluator | not begun | its scoring algorithms against reference definitions |

Every module keeps its recursion in functions, so that it can be proved about.

## Not modelled, and why

* Distances are constants: floating-point cosine arithmetic and the quality of
  approximate recall are out of the models' reach. The heaps of the index are
  modelled by the order they give.
* What is extracted from a text (classifier, patterns, secret filter, FTS
  tokeniser) is a constant of the models; the regular expressions are data. Token
  counts only fill a field of the answer.
* HTTP, JSON-RPC and JSON, the dashboard, embedding and reranking services and
  the benchmark scripts are input and output. The summariser is an external
  model. The MCP loop serves one request at a time, a case of what the modules allow.
* SQLite is trusted: a statement is atomic, a transaction commits as a whole. The
  WAL checkpoint is its own affair.
* `phaseLink` counts accesses of entities that nothing reads; `phasePriority` always
  fails and changes nothing.
* Weights of typed edges, access counters of entities, `edge_count`, statistics,
  listings and log lines: nothing that is modelled reads them.
* The compaction evaluator is an offline, sequential tool that scores files; it
  keeps no state and shares none.
