-------------------------------- MODULE Rag --------------------------------
(***************************************************************************)
(* The RAG store (internal/rag) behind the handlers of both servers:       *)
(* collections, documents and chunks are rows of three tables, a chunk's   *)
(* vector is in the index that the memories use too.  Every statement is a *)
(* transaction of its own and foreign keys are not enforced, so that an    *)
(* ingestion, a deletion and a query run between each other's statements.  *)
(* Deleting a collection leaves its vectors in the index.  When the server *)
(* stops, what runs is lost and the index is as it was saved last.         *)
(*                                                                         *)
(* Backwards, ReusedId, SkipsBlank and NeverSaved are slips of the         *)
(* definitions that follow them, which the properties notice; the          *)
(* specification does not use them.                                        *)
(***************************************************************************)
EXTENDS Integers, Sequences, FiniteSets

CONSTANTS
    Collections,  \* names
    AnyName,      \* of queries that name no collection
    Files,        \* texts, sequences of characters
    Sizes,        \* chunk sizes that are asked for
    DefaultChunk, \* 500
    Jobs,         \* requests under way at a time
    MaxDocs,      \* bound: ingestions
    MaxIds,       \* bound: collections created
    MaxAsked,     \* bound: ingestions, deletions and queries
    MaxFaults,    \* bound: failures and restarts
    MaxHits,      \* vectors that the index returns
    TopK          \* results of a query

Docs == 1..MaxDocs

ASSUME NamingAssumption == AnyName \notin Collections
ASSUME ChunkAssumption == Sizes \cup {DefaultChunk} \subseteq Nat \ {0}
ASSUME FileAssumption == \A f \in Files : f \in Seq({f[i] : i \in DOMAIN f})
ASSUME BoundAssumption == {MaxDocs, MaxIds, MaxAsked, MaxFaults, MaxHits, TopK} \subseteq Nat

VARIABLES
    collections,  \* records [id, name, size]
    lastId,       \* of the AUTOINCREMENT
    docs,         \* records [id, coll, count]
    chunks,       \* records [doc, index, text]
    vectors,      \* pairs <<doc, index>> in the index
    saved,        \* and in its file
    jobs,
    asked, faults,  \* so far
    ingests,      \* history: by document, what was asked, once it was, and its collection's id
    done,         \* history: documents whose ingestion was answered
    failed,       \* history: documents some chunk of which was not written
    uncounted,    \* history: documents whose number of chunks was not written
    unsaved,      \* history: chunks that got no vector, or not in the file
    raced,        \* history: documents whose ingestion overlapped a deletion of the name
    cleared,      \* history: documents whose chunks were deleted
    erased        \* history: documents whose collection was deleted

tables == <<collections, lastId, docs, chunks>>
index == <<vectors, saved, unsaved>>
counts == <<asked, faults>>
ragVars == <<tables, index, jobs, counts, ingests, done, failed, uncounted, raced, cleared, erased>>

-----------------------------------------------------------------------------
(* chunkText *)

\* By preference; a text is cut after the last one in the second half of a chunk.
Separators == <<<<"n", "n">>, <<".", " ">>, <<"n">>>>

At(text, sep) == {i \in 0..(Len(text) - Len(sep)) : SubSeq(text, i + 1, i + Len(sep)) = sep}
Greatest(S) == CHOOSE x \in S : \A y \in S : x >= y

Cut(text, size) ==
  LET late(k) == {i \in At(SubSeq(text, 1, size), Separators[k]) : i > size \div 2}
      found == {k \in DOMAIN Separators : late(k) # {}}
      best == CHOOSE k \in found : \A l \in found : k <= l
  IN  IF Len(text) <= size THEN Len(text)
      ELSE IF found = {} THEN size
      ELSE Greatest(late(best)) + Len(Separators[best])

\* The next chunk does not start with a blank.
SkipsBlank(text, cut) == IF cut < Len(text) /\ text[cut + 1] = " " THEN Len(text) - cut - 1 ELSE Len(text) - cut
Left(text, cut) == Len(text) - cut

chunkText(text, size) ==
  LET chunked[n \in 0..Len(text)] ==  \* the last n characters
        LET rest == SubSeq(text, Len(text) - n + 1, Len(text))
            cut == Cut(rest, size)
        IN  IF n = 0 THEN <<>> ELSE <<SubSeq(rest, 1, cut)>> \o chunked[Left(rest, cut)]
  IN  IF text = <<>> THEN <<text>> ELSE chunked[Len(text)]

-----------------------------------------------------------------------------
\* kind, name: what is asked; doc, size, next, count: an ingestion's; table: the
\* next one in a deletion; hits, hit, found: a query's; dead: erased when the query
\* began (history).
NoJob == [kind |-> "none", at |-> "idle", name |-> AnyName, doc |-> 0, size |-> 0, next |-> 1, count |-> 0,
          table |-> 1, hits |-> {}, hit |-> <<0, 0>>, found |-> {}, dead |-> {}]

InitRag ==
    /\ collections = {} /\ lastId = 0 /\ docs = {} /\ chunks = {}
    /\ vectors = {} /\ saved = {} /\ unsaved = {}
    /\ jobs = [j \in Jobs |-> NoJob]
    /\ asked = 0 /\ faults = 0
    /\ ingests = <<>>
    /\ done = {} /\ failed = {} /\ uncounted = {} /\ raced = {} /\ cleared = {} /\ erased = {}

Named(n) == {c \in collections : c.name = n}
RowsIn(n) == {d \in docs : \E c \in Named(n) : d.coll = c.id}
Goto(j, job) == jobs' = [jobs EXCEPT ![j] = job] /\ UNCHANGED counts
Ask(j, job) ==
    /\ jobs[j].kind = "none"
    /\ asked < MaxAsked
    /\ asked' = asked + 1
    /\ jobs' = [jobs EXCEPT ![j] = job]
    /\ UNCHANGED faults
Fault == faults < MaxFaults /\ faults' = faults + 1 /\ UNCHANGED asked
HistoryStays == UNCHANGED <<ingests, done, failed, uncounted, raced, cleared, erased>>

\* An id that no row has, as without AUTOINCREMENT.
ReusedId == IF collections = {} THEN 1 ELSE Greatest({c.id : c \in collections}) + 1
FreshId == lastId + 1

\* The name is UNIQUE.
Create(n, size) ==
    /\ Named(n) = {}
    /\ lastId < MaxIds
    /\ collections' = collections \cup {[id |-> FreshId, name |-> n, size |-> size]}
    /\ lastId' = lastId + 1
    /\ UNCHANGED <<docs, chunks>>

CreateCollection(n, size) ==
    /\ Create(n, size)
    /\ UNCHANGED <<index, jobs, counts>> /\ HistoryStays

-----------------------------------------------------------------------------
(* IngestFile *)

Ingesting(n) == {j \in Jobs : jobs[j].kind = "ingest" /\ jobs[j].name = n}
Deleting(n) == {j \in Jobs : jobs[j].kind = "delete" /\ jobs[j].name = n}

IngestFile(j, n, file) ==
  LET d == Len(ingests) + 1 IN
    /\ d \in Docs
    /\ Ask(j, [NoJob EXCEPT !.kind = "ingest", !.at = "lookup", !.name = n, !.doc = d])
    /\ ingests' = Append(ingests, [name |-> n, file |-> file, coll |-> 0])
    /\ raced' = IF Deleting(n) # {} THEN raced \cup {d} ELSE raced
    /\ UNCHANGED <<tables, index, done, failed, uncounted, cleared, erased>>

Into(j, c) ==
    /\ Goto(j, [jobs[j] EXCEPT !.at = "document", !.size = c.size])
    /\ ingests' = [ingests EXCEPT ![jobs[j].doc].coll = c.id]
    /\ UNCHANGED <<index, done, failed, uncounted, raced, cleared, erased>>

\* getOrCreateCollection: a SELECT, then an INSERT of what another may have
\* created in between.
GetCollection(j) ==
    /\ jobs[j].at = "lookup"
    /\ UNCHANGED tables
    /\ \/ \E c \in Named(jobs[j].name) : Into(j, c)
       \/ /\ Named(jobs[j].name) = {}
          /\ Goto(j, [jobs[j] EXCEPT !.at = "create"])
          /\ UNCHANGED index /\ HistoryStays

AutoCreate(j) ==
    /\ jobs[j].at = "create"
    /\ Create(jobs[j].name, DefaultChunk)
    /\ Into(j, [id |-> FreshId, size |-> DefaultChunk])

InsertDocument(j) ==
    /\ jobs[j].at = "document"
    /\ docs' = docs \cup {[id |-> jobs[j].doc, coll |-> ingests[jobs[j].doc].coll, count |-> 0]}
    /\ Goto(j, [jobs[j] EXCEPT !.at = "chunk"])
    /\ UNCHANGED <<collections, lastId, chunks, index>> /\ HistoryStays

Chunked(j) == chunkText(ingests[jobs[j].doc].file, jobs[j].size)
Key(j) == <<jobs[j].doc, jobs[j].next>>

InsertChunk(j) ==
    /\ jobs[j].at = "chunk"
    /\ jobs[j].next \in DOMAIN Chunked(j)
    /\ chunks' = chunks \cup {[doc |-> jobs[j].doc, index |-> jobs[j].next, text |-> Chunked(j)[jobs[j].next]]}
    /\ Goto(j, [jobs[j] EXCEPT !.at = "vector", !.count = @ + 1])
    /\ UNCHANGED <<collections, lastId, docs, index>> /\ HistoryStays

\* A failure is passed over.
ChunkFails(j) ==
    /\ jobs[j].at = "chunk"
    /\ jobs[j].next \in DOMAIN Chunked(j)
    /\ Fault
    /\ jobs' = [jobs EXCEPT ![j].next = @ + 1]
    /\ failed' = failed \cup {jobs[j].doc}
    /\ UNCHANGED <<tables, index, ingests, done, uncounted, raced, cleared, erased>>

EmbedChunk(j) ==
    /\ jobs[j].at = "vector"
    /\ jobs' = [jobs EXCEPT ![j].at = "chunk", ![j].next = @ + 1]
    /\ \/ vectors' = vectors \cup {Key(j)} /\ UNCHANGED <<unsaved, counts>>
       \/ UNCHANGED vectors /\ unsaved' = unsaved \cup {Key(j)} /\ Fault  \* no embedder, or it fails
    /\ UNCHANGED <<tables, saved>> /\ HistoryStays

NeverSaved == saved
Saved == vectors

\* The count, then the index; failures are passed over.
CountChunks(j) ==
    /\ jobs[j].at = "chunk"
    /\ jobs[j].next \notin DOMAIN Chunked(j)
    /\ \/ /\ docs' = {IF d.id = jobs[j].doc THEN [d EXCEPT !.count = jobs[j].count] ELSE d : d \in docs}
          /\ UNCHANGED <<uncounted, counts>>
       \/ UNCHANGED docs /\ uncounted' = uncounted \cup {jobs[j].doc} /\ Fault
    /\ jobs' = [jobs EXCEPT ![j].at = "save"]
    /\ UNCHANGED <<collections, lastId, chunks, index, ingests, done, failed, raced, cleared, erased>>

SaveIndex(j) ==
    /\ jobs[j].at = "save"
    /\ \/ saved' = Saved /\ UNCHANGED <<unsaved, counts>>
       \/ UNCHANGED saved /\ unsaved' = unsaved \cup (vectors \ saved) /\ Fault
    /\ jobs' = [jobs EXCEPT ![j] = NoJob]
    /\ done' = done \cup {jobs[j].doc}
    /\ UNCHANGED <<tables, vectors, ingests, failed, uncounted, raced, cleared, erased>>

-----------------------------------------------------------------------------
(* DeleteCollection: three statements, each of which looks the name up. *)

Backwards == <<"collection", "documents", "chunks">>
Order == <<"chunks", "documents", "collection">>

DeleteCollection(j, n) ==
    /\ Ask(j, [NoJob EXCEPT !.kind = "delete", !.at = "delete", !.name = n])
    /\ raced' = raced \cup {jobs[k].doc : k \in Ingesting(n)}
    /\ UNCHANGED <<tables, index, ingests, done, failed, uncounted, cleared, erased>>

DeleteRows(j) ==
  LET n == jobs[j].name
      table == Order[jobs[j].table]
      rows == {d.id : d \in RowsIn(n)}
      dropped == {c.id : c \in Named(n)}
  IN
    /\ jobs[j].at = "delete"
    /\ chunks' = IF table = "chunks" THEN {x \in chunks : x.doc \notin rows} ELSE chunks
    /\ cleared' = IF table = "chunks" THEN cleared \cup rows ELSE cleared
    /\ docs' = IF table = "documents" THEN docs \ RowsIn(n) ELSE docs
    /\ collections' = IF table = "collection" THEN collections \ Named(n) ELSE collections
    /\ erased' = IF table = "collection"
                 THEN erased \cup {d \in DOMAIN ingests : ingests[d].coll \in dropped} ELSE erased
    /\ Goto(j, IF jobs[j].table = Len(Order) THEN NoJob ELSE [jobs[j] EXCEPT !.table = @ + 1])
    /\ UNCHANGED <<lastId, index, ingests, done, failed, uncounted, raced>>

-----------------------------------------------------------------------------
(* Query *)

\* The vectors nearest to the query, as far as those of memories leave room.
Query(j, n) ==
    /\ \E hits \in SUBSET vectors :
        /\ Cardinality(hits) <= MaxHits
        /\ Ask(j, [NoJob EXCEPT !.kind = "query", !.at = "read", !.name = n, !.hits = hits, !.dead = erased])
    /\ UNCHANGED <<tables, index>> /\ HistoryStays

\* A hit is looked up: the chunk, and if a collection is named the document, whose
\* collection's id must not be gone, and the collection's name; then the filename.
ReadHit(j, test, next) ==
    /\ Goto(j, [jobs[j] EXCEPT !.at = IF test THEN next ELSE "read"])
    /\ UNCHANGED <<tables, index>> /\ HistoryStays

ReadChunk(j, hit) ==
    /\ jobs[j].at = "read"
    /\ hit \in jobs[j].hits
    /\ Goto(j, [jobs[j] EXCEPT !.hits = @ \ {hit}, !.hit = hit, !.at =
                  IF \E x \in chunks : x.doc = hit[1] /\ x.index = hit[2]
                  THEN IF jobs[j].name = AnyName THEN "filename" ELSE "home" ELSE "read"])
    /\ UNCHANGED <<tables, index>> /\ HistoryStays

ReadHome(j) ==
    /\ jobs[j].at = "home"
    /\ ReadHit(j, \E d \in docs : d.id = jobs[j].hit[1], "name")

ReadName(j) ==
    /\ jobs[j].at = "name"
    /\ ReadHit(j, \E c \in Named(jobs[j].name) : c.id = ingests[jobs[j].hit[1]].coll, "filename")

ReadFilename(j) ==
    /\ jobs[j].at = "filename"
    /\ Goto(j, [jobs[j] EXCEPT !.at = "read", !.found = @ \cup {jobs[j].hit}])
    /\ UNCHANGED <<tables, index>> /\ HistoryStays

\* Ranked by distance or by a reranker, of which the model keeps that it may
\* prefer any of them, and cut.
RankResults(j) ==
    /\ jobs[j].at = "read"
    /\ jobs[j].hits = {}
    /\ \E best \in SUBSET jobs[j].found :
        /\ best = jobs[j].found \/ Cardinality(best) = TopK
        /\ Cardinality(best) <= TopK
        /\ Goto(j, [jobs[j] EXCEPT !.at = "results", !.found = best])
    /\ UNCHANGED <<tables, index>> /\ HistoryStays

-----------------------------------------------------------------------------
AnswerQuery(j) ==
    /\ jobs[j].at = "results"
    /\ Goto(j, NoJob)
    /\ UNCHANGED <<tables, index>> /\ HistoryStays

\* A statement fails, the name was taken, the index refuses a vector, or there is
\* no embedder, and the request with it.
Fail(j) ==
    /\ jobs[j].at \in {"lookup", "create", "document", "vector", "delete"}
    /\ \/ jobs[j].at = "create" /\ Named(jobs[j].name) # {} /\ UNCHANGED counts
       \/ Fault
    /\ jobs' = [jobs EXCEPT ![j] = NoJob]
    /\ UNCHANGED <<tables, index>> /\ HistoryStays

\* The server stops; it loads the index from its file when it starts again.
Restart ==
    /\ Fault
    /\ jobs' = [j \in Jobs |-> NoJob]
    /\ vectors' = saved
    /\ UNCHANGED <<tables, saved, unsaved>> /\ HistoryStays

Ingest(j) ==
    \/ GetCollection(j) \/ AutoCreate(j) \/ InsertDocument(j) \/ InsertChunk(j) \/ ChunkFails(j)
    \/ EmbedChunk(j) \/ CountChunks(j) \/ SaveIndex(j)

Search(j) ==
    \/ \E hit \in jobs[j].hits : ReadChunk(j, hit)
    \/ ReadHome(j) \/ ReadName(j) \/ ReadFilename(j) \/ RankResults(j) \/ AnswerQuery(j)

NextRag ==
    \/ \E n \in Collections, size \in Sizes : CreateCollection(n, size)
    \/ \E j \in Jobs, n \in Collections : DeleteCollection(j, n) \/ \E file \in Files : IngestFile(j, n, file)
    \/ \E j \in Jobs, n \in Collections \cup {AnyName} : Query(j, n)
    \/ \E j \in Jobs : Ingest(j) \/ DeleteRows(j) \/ Search(j) \/ Fail(j)
    \/ Restart

SpecRag == InitRag /\ [][NextRag]_ragVars

-----------------------------------------------------------------------------
(* Properties *)

Rows(d) == {x \in chunks : x.doc = d}

\* The text of a document, from its chunks by their number.
TextOf(d) ==
  LET joined[n \in 0..Cardinality(Rows(d))] ==
        IF n = 0 THEN <<>> ELSE joined[n - 1] \o (CHOOSE x \in Rows(d) : x.index = n).text
  IN  joined[Cardinality(Rows(d))]

\* Every variable has its type; no two collections have the same id or name.
TypeOKRag ==
    /\ \A c \in collections : c.id \in 1..lastId /\ c.name \in Collections /\ c.size \in Nat \ {0}
    /\ \A c, e \in collections : c.id = e.id \/ c.name = e.name => c = e
    /\ lastId \in 0..MaxIds
    /\ docs \subseteq [id : Docs, coll : 1..lastId, count : Nat]
    /\ \A x \in chunks : x.doc \in Docs /\ x.index \in Nat \ {0}
    /\ vectors \subseteq Docs \X Nat /\ saved \subseteq vectors
    /\ done \cup failed \cup uncounted \cup raced \cup cleared \cup erased \subseteq Docs
    /\ Len(ingests) <= MaxDocs
    /\ \A j \in Jobs :
        /\ jobs[j].kind \in {"none", "ingest", "delete", "query"} /\ jobs[j].name \in Collections \cup {AnyName}
        /\ jobs[j].kind = "ingest" => jobs[j].doc \in DOMAIN ingests
        /\ jobs[j].at \in {"document", "chunk", "vector", "save"} => ingests[jobs[j].doc].coll \in 1..lastId
        /\ jobs[j].kind = "delete" => jobs[j].table \in DOMAIN Order
        /\ jobs[j].hits \cup jobs[j].found \subseteq Docs \X Nat

\* A document that was answered for and still has its chunks is the file, piece by
\* piece, unless a chunk was not written, and has counted them, unless the count
\* was not: both failures are passed over (store.go:140-188, 269-291).
DocumentsAreWhole ==
    \A d \in docs :
        d.id \in done \ (failed \cup cleared) =>
            /\ TextOf(d.id) = ingests[d.id].file
            /\ d.id \notin uncounted => d.count = Cardinality(Rows(d.id))

\* A chunk without a document, or a document without a collection, is left only by
\* an ingestion that overlaps a deletion of its collection: not by deletions that
\* stop, or fail, between two statements (store.go:127-138).
OrphansOnlyByRace ==
    /\ \A x \in chunks : x.doc \in raced \/ \E d \in docs : d.id = x.doc
    /\ \A d \in docs : d.id \in raced \/ \E c \in collections : c.id = d.coll

\* A query under a name answers with what was ingested under it, and with nothing
\* of a collection that was deleted before the query began, though the vectors are
\* still there, rows may be left, and the name may be in use again
\* (reranker.go:271-333).
AnswersAreCurrent ==
    \A j \in Jobs :
        jobs[j].at = "results" /\ jobs[j].name # AnyName =>
            \A hit \in jobs[j].found : ingests[hit[1]].name = jobs[j].name /\ hit[1] \notin jobs[j].dead

\* The chunks of a document that was answered for have their vectors, and keep
\* them when the server is restarted, unless embedding one or saving the index
\* failed (store.go:164-181).
IngestedIsSearchable ==
    \A x \in chunks : x.doc \in done /\ <<x.doc, x.index>> \notin unsaved => <<x.doc, x.index>> \in vectors
=============================================================================
