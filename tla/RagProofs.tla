----------------------------- MODULE RagProofs -----------------------------
(***************************************************************************)
(* Proofs about Rag, for any collections, files, numbers of requests and   *)
(* bounds.                                                                 *)
(*                                                                         *)
(* Ids of collections are never used twice, which ties a document to the   *)
(* collection it was ingested into (Histories), though a name comes and    *)
(* goes.  A deletion makes orphans only of documents that were ingested    *)
(* while it ran: what it has passed is empty but for those (DeleteSound).  *)
(* The chunks of a text, of any size, are the text piece by piece          *)
(* (ChunksCover), and those of an ingestion are written one after the      *)
(* other, hence documents are whole (WholeInv).                            *)
(*                                                                         *)
(* Least and Naturals, induction over naturals, are of GraphSearchProofs.  *)
(***************************************************************************)
EXTENDS Rag, GraphSearchProofs, FiniteSetTheorems, TLAPS

Keys == Docs \X Nat
Ingestion == {"lookup", "create", "document", "chunk", "vector", "save"}
Reading == {"read", "home", "name", "filename", "results"}

JobRecords ==
    [kind : {"none", "ingest", "delete", "query"}, at : {"idle", "delete"} \cup Ingestion \cup Reading,
     name : Collections \cup {AnyName}, doc : Nat, size : Nat, next : Nat \ {0}, count : Nat, table : 1..3,
     hits : SUBSET Keys, hit : Nat \X Nat, found : SUBSET Keys, dead : SUBSET Docs]

\* What a request is at belongs to its kind.
Staged(b) ==
    \/ b.kind = "none" /\ b.at = "idle"
    \/ b.kind = "ingest" /\ b.at \in Ingestion
    \/ b.kind = "delete" /\ b.at = "delete"
    \/ b.kind = "query" /\ b.at \in Reading

CollectionsTyped ==
    /\ lastId \in 0..MaxIds
    /\ collections \subseteq [id : Nat \ {0}, name : Collections, size : Nat \ {0}]
    /\ \A c \in collections : c.id <= lastId
    /\ \A c, e \in collections : c.id = e.id \/ c.name = e.name => c = e

RowsTyped ==
    /\ docs \subseteq [id : Docs, coll : Nat \ {0}, count : Nat]
    /\ \A d \in docs : d.coll <= lastId
    /\ \A x \in chunks : x.doc \in Docs /\ x.index \in Nat \ {0}
    /\ vectors \subseteq Keys /\ saved \subseteq vectors
    /\ done \cup failed \cup uncounted \cup raced \cup cleared \cup erased \subseteq Docs

JobsTyped ==
    /\ jobs \in [Jobs -> JobRecords]
    /\ \A j \in Jobs : Staged(jobs[j])

IngestsTyped ==
    /\ ingests \in Seq([name : Collections, file : Files, coll : Nat])
    /\ Len(ingests) <= MaxDocs

Histories ==
    /\ \A d \in docs : d.id \in DOMAIN ingests /\ d.coll = ingests[d.id].coll
    /\ \A x \in chunks : x.doc \in DOMAIN ingests
    /\ \A v \in vectors : v[1] \in DOMAIN ingests
    /\ done \subseteq DOMAIN ingests
    /\ \A i \in DOMAIN ingests : /\ ingests[i].coll <= lastId
                                 /\ \A c \in collections : c.id = ingests[i].coll => c.name = ingests[i].name
    /\ \A i \in erased : /\ i \in DOMAIN ingests /\ ingests[i].coll >= 1
                         /\ \A c \in collections : c.id # ingests[i].coll

\* What was answered for is in the file of the index.
InFile == \A x \in chunks : x.doc \in done /\ <<x.doc, x.index>> \notin unsaved => <<x.doc, x.index>> \in saved

Bare(d) == (\A r \in docs : r.id # d) /\ (\A x \in chunks : x.doc # d)

\* An ingestion: its document is its own, has rows as far as it got, and a vector
\* for every chunk but the one that it is at.
IngestSound(b) ==
    b.kind = "ingest" =>
        /\ b.doc \in DOMAIN ingests /\ ingests[b.doc].name = b.name /\ b.name \in Collections
        /\ b.doc \notin done
        /\ b.at \in {"lookup", "create"} => ingests[b.doc].coll = 0
        /\ b.at \in {"lookup", "create", "document"} => Bare(b.doc)
        /\ b.at \in {"document", "chunk", "vector", "save"} => ingests[b.doc].coll >= 1
        /\ b.at = "document" => b.doc \in raced \/ \E c \in collections : c.id = ingests[b.doc].coll
        /\ b.at \in {"chunk", "vector", "save"} => b.doc \in raced \/ \E d \in docs : d.id = b.doc
        /\ b.at \in {"chunk", "vector", "save"} =>
             \A x \in chunks : x.doc = b.doc =>
                <<x.doc, x.index>> \in vectors \cup unsaved \/ (b.at = "vector" /\ x.index = b.next)

\* A deletion: what is left behind it is raced.
DeleteSound(b) ==
    b.kind = "delete" =>
        /\ b.table >= 2 => \A d \in RowsIn(b.name) : d.id \in raced \/ \A x \in chunks : x.doc # d.id
        /\ b.table >= 3 => \A d \in RowsIn(b.name) : d.id \in raced

Current(b, v) == ingests[v[1]].name = b.name /\ v[1] \notin b.dead

\* A query: what it has found is of its name, and was not erased before.
QuerySound(b) ==
    b.kind = "query" =>
        /\ b.dead \subseteq erased
        /\ \A v \in b.hits \cup b.found : v[1] \in DOMAIN ingests
        /\ b.at \in {"home", "name", "filename"} => b.hit \in Keys /\ b.hit[1] \in DOMAIN ingests
        /\ b.name # AnyName => /\ \A v \in b.found : Current(b, v)
                               /\ b.at = "filename" => Current(b, b.hit)

JobSound(b) == IngestSound(b) /\ DeleteSound(b) /\ QuerySound(b)

\* Two requests: ingestions have documents of their own, and one that runs beside a
\* deletion of its collection is noted.
Together(b, e) ==
    /\ b.kind = "ingest" /\ e.kind = "ingest" => b.doc # e.doc
    /\ b.kind = "ingest" /\ e.kind = "delete" /\ b.name = e.name => b.doc \in raced

JobsSound ==
    /\ \A j \in Jobs : JobSound(jobs[j])
    /\ \A j, k \in Jobs : j # k => Together(jobs[j], jobs[k])

RagInv ==
    /\ CollectionsTyped /\ RowsTyped /\ JobsTyped /\ IngestsTyped
    /\ Histories /\ OrphansOnlyByRace /\ InFile
    /\ JobsSound

history == <<ingests, done, failed, uncounted, raced, cleared, erased>>
-----------------------------------------------------------------------------
(* Facts that most steps use *)

\* What the invariant says of one request.
LEMMA JobFacts ==
    ASSUME RagInv, NEW j \in Jobs
    PROVE  jobs[j] \in JobRecords /\ Staged(jobs[j]) /\ JobSound(jobs[j])
BY DEF RagInv, JobsTyped, JobsSound

\* What is noted of an ingestion.
IngestRecords == [name : Collections, file : Files, coll : Nat]

LEMMA IngestFacts ==
    ASSUME RagInv
    PROVE  /\ Len(ingests) \in Nat /\ DOMAIN ingests = 1..Len(ingests) /\ DOMAIN ingests \subseteq Docs
           /\ \A i \in DOMAIN ingests : ingests[i] \in IngestRecords /\ ingests[i].coll \in Nat
           /\ lastId \in Nat
<1>1. ingests \in Seq(IngestRecords) /\ Len(ingests) <= MaxDocs /\ MaxDocs \in Nat
  BY BoundAssumption DEF RagInv, IngestsTyped, IngestRecords
<1>2. \A i \in DOMAIN ingests : ingests[i] \in IngestRecords
  BY <1>1
<1>3. lastId \in Nat
  BY DEF RagInv, CollectionsTyped
<1> QED
  BY <1>1, <1>2, <1>3 DEF IngestRecords, Docs

\* The collection of an ingestion is noted.
LEMMA NoteCollection ==
    ASSUME RagInv, NEW d \in DOMAIN ingests, NEW id \in Nat, ingests' = [ingests EXCEPT ![d].coll = id]
    PROVE  /\ IngestsTyped' /\ DOMAIN ingests' = DOMAIN ingests
           /\ \A i \in DOMAIN ingests : ingests'[i].name = ingests[i].name
           /\ \A i \in DOMAIN ingests \ {d} : ingests'[i].coll = ingests[i].coll
           /\ ingests'[d].coll = id
<1> DEFINE e == [ingests[d] EXCEPT !.coll = id]
<1>1. ingests[d] \in IngestRecords /\ ingests \in Seq(IngestRecords) /\ Len(ingests) <= MaxDocs
  BY IngestFacts DEF RagInv, IngestsTyped, IngestRecords
<1>2. e \in IngestRecords /\ e.coll = id /\ e.name = ingests[d].name
  BY <1>1 DEF IngestRecords
<1>3. ingests' = [ingests EXCEPT ![d] = e]
  OBVIOUS
<1> HIDE DEF e
<1>4. ingests' \in Seq(IngestRecords) /\ Len(ingests') = Len(ingests) /\ DOMAIN ingests' = DOMAIN ingests
  BY <1>1, <1>2, <1>3
<1>5. ingests'[d] = e /\ \A i \in DOMAIN ingests \ {d} : ingests'[i] = ingests[i]
  BY <1>3
<1> QED
  BY <1>1, <1>2, <1>4, <1>5 DEF IngestsTyped, IngestRecords

\* One request goes on, the others stay as they are.
LEMMA OneJob ==
    ASSUME RagInv, NEW j \in Jobs, NEW b \in JobRecords, Staged(b), jobs' = [jobs EXCEPT ![j] = b]
    PROVE  JobsTyped' /\ jobs'[j] = b /\ \A k \in Jobs \ {j} : jobs'[k] = jobs[k]
BY DEF RagInv, JobsTyped, Staged

\* A request without an answer is the start of any other.
LEMMA NoJobSound == NoJob \in JobRecords /\ Staged(NoJob) /\ JobSound(NoJob)
BY DEF NoJob, JobRecords, Staged, JobSound, IngestSound, DeleteSound, QuerySound

\* A step that changes nothing but one request.
LEMMA QuietStep ==
    ASSUME RagInv, NEW j \in Jobs, NEW b \in JobRecords, Staged(b), jobs' = [jobs EXCEPT ![j] = b],
           UNCHANGED <<tables, index, ingests, done, uncounted, raced, erased>>, failed' \cup cleared' \subseteq Docs,
           JobSound(b),
           \A k \in Jobs \ {j} : Together(b, jobs[k]) /\ Together(jobs[k], b)
    PROVE  RagInv'
<1>1. JobsTyped' /\ jobs'[j] = b /\ \A k \in Jobs \ {j} : jobs'[k] = jobs[k]
  BY OneJob
<1>2. CollectionsTyped' /\ RowsTyped' /\ IngestsTyped'
  BY DEF RagInv, CollectionsTyped, RowsTyped, IngestsTyped, tables, index
<1>3. Histories' /\ OrphansOnlyByRace' /\ InFile'
  BY DEF RagInv, Histories, OrphansOnlyByRace, InFile, tables, index
<1>4. ASSUME NEW k \in Jobs
      PROVE  JobSound(jobs[k])'
  <2>1. JobSound(jobs'[k])
    BY <1>1, JobFacts
  <2> QED
    BY <2>1 DEF JobSound, IngestSound, DeleteSound, QuerySound, Bare, Current, RowsIn, Named, tables, index
<1>5. ASSUME NEW k \in Jobs, NEW l \in Jobs, k # l
      PROVE  Together(jobs[k], jobs[l])'
  <2>1. Together(jobs'[k], jobs'[l])
    BY <1>1, <1>5 DEF RagInv, JobsSound
  <2> QED
    BY <2>1 DEF Together
<1> QED
  BY <1>1, <1>2, <1>3, <1>4, <1>5 DEF RagInv, JobsSound

\* The same for a query, or a request that ends.
LEMMA QuietQuery ==
    ASSUME RagInv, NEW j \in Jobs, NEW b \in JobRecords, Staged(b), jobs' = [jobs EXCEPT ![j] = b],
           UNCHANGED <<tables, index, history>>, b.kind \in {"none", "query"}, QuerySound(b)
    PROVE  RagInv'
<1>1. JobSound(b)
  BY DEF JobSound, IngestSound, DeleteSound
<1>2. \A k \in Jobs \ {j} : Together(b, jobs[k]) /\ Together(jobs[k], b)
  BY DEF Together
<1>3. UNCHANGED <<ingests, done, uncounted, raced, erased>> /\ failed' \cup cleared' \subseteq Docs
  BY DEF RagInv, RowsTyped, history
<1> QED
  BY <1>1, <1>2, <1>3, QuietStep

-----------------------------------------------------------------------------
(* Queries, and requests that end *)

\* The vectors that a query starts from are of documents.
LEMMA QueryInv ==
    ASSUME RagInv, NEW j \in Jobs, NEW n \in Collections \cup {AnyName}, Query(j, n)
    PROVE  RagInv'
<1>1. PICK hits \in SUBSET vectors :
        Ask(j, [NoJob EXCEPT !.kind = "query", !.at = "read", !.name = n, !.hits = hits, !.dead = erased])
  BY DEF Query
<1> DEFINE b == [NoJob EXCEPT !.kind = "query", !.at = "read", !.name = n, !.hits = hits, !.dead = erased]
<1>2. hits \subseteq Keys /\ erased \subseteq Docs /\ \A v \in hits : v[1] \in DOMAIN ingests
  BY DEF RagInv, RowsTyped, Histories
<1>3. NoJob \in JobRecords /\ NoJob.found = {}
  BY DEF NoJob, JobRecords
<1>4. b \in JobRecords /\ Staged(b) /\ b.kind = "query" /\ QuerySound(b)
  <2>1. "query" \in {"none", "ingest", "delete", "query"} /\ "read" \in {"idle", "delete"} \cup Ingestion \cup Reading
    BY DEF Reading
  <2>2. b \in JobRecords
    BY <1>2, <1>3, <2>1 DEF JobRecords
  <2>3. /\ b.kind = "query" /\ b.at = "read" /\ b.hits = hits /\ b.dead = erased /\ b.found = {}
    BY <1>3 DEF JobRecords
  <2> QED
    BY <1>2, <2>2, <2>3 DEF Staged, Reading, QuerySound
<1>5. jobs' = [jobs EXCEPT ![j] = b] /\ UNCHANGED <<tables, index, history>>
  BY <1>1 DEF Ask, Query, HistoryStays, history
<1> HIDE DEF b
<1> QED
  BY <1>4, <1>5, QuietQuery

\* A hit is taken out of those that are left.
LEMMA ReadChunkInv ==
    ASSUME RagInv, NEW j \in Jobs, NEW hit \in jobs[j].hits, ReadChunk(j, hit)
    PROVE  RagInv'
<1> DEFINE at == IF \E x \in chunks : x.doc = hit[1] /\ x.index = hit[2]
                 THEN IF jobs[j].name = AnyName THEN "filename" ELSE "home" ELSE "read"
           b == [jobs[j] EXCEPT !.hits = @ \ {hit}, !.hit = hit, !.at = at]
<1>1. jobs[j] \in JobRecords /\ jobs[j].kind = "query" /\ QuerySound(jobs[j])
  BY JobFacts DEF ReadChunk, Staged, JobSound, Ingestion
<1>2. hit \in Keys /\ hit \in Nat \X Nat /\ hit[1] \in DOMAIN ingests
  BY <1>1 DEF JobRecords, QuerySound, Keys, Docs
<1>3. at \in Reading /\ (at = "filename" => jobs[j].name = AnyName)
  BY DEF Reading
<1>4. jobs' = [jobs EXCEPT ![j] = b] /\ UNCHANGED <<tables, index, history>>
  BY DEF ReadChunk, Goto, HistoryStays, history
<1> HIDE DEF at
<1>5. b \in JobRecords /\ Staged(b) /\ b.kind = "query"
  BY <1>1, <1>2, <1>3 DEF JobRecords, Staged
<1>6. /\ b.hits = jobs[j].hits \ {hit} /\ b.hit = hit /\ b.at = at /\ b.name = jobs[j].name
      /\ b.found = jobs[j].found /\ b.dead = jobs[j].dead
  BY <1>1 DEF JobRecords
<1> HIDE DEF b
<1>7. QuerySound(b)
  BY <1>1, <1>2, <1>3, <1>5, <1>6 DEF QuerySound, Current
<1> QED
  BY <1>4, <1>5, <1>7, QuietQuery

\* A query goes on to look at what it has read.
LEMMA ReadOn ==
    ASSUME RagInv, NEW j \in Jobs, jobs[j].kind = "query", NEW at \in Reading,
           jobs' = [jobs EXCEPT ![j] = [jobs[j] EXCEPT !.at = at]],
           UNCHANGED <<tables, index, history>>,
           at \in {"home", "name", "filename"} => jobs[j].at \in {"home", "name", "filename"},
           at = "filename" /\ jobs[j].name # AnyName => Current(jobs[j], jobs[j].hit)
    PROVE  RagInv'
<1> DEFINE b == [jobs[j] EXCEPT !.at = at]
<1>1. jobs[j] \in JobRecords /\ QuerySound(jobs[j])
  BY JobFacts DEF JobSound
<1>2. b \in JobRecords /\ Staged(b) /\ b.kind = "query"
  BY <1>1 DEF JobRecords, Staged
<1>3. /\ b.hits = jobs[j].hits /\ b.hit = jobs[j].hit /\ b.at = at /\ b.name = jobs[j].name
      /\ b.found = jobs[j].found /\ b.dead = jobs[j].dead
  BY <1>1 DEF JobRecords
<1> HIDE DEF b
<1>4. QuerySound(b)
  BY <1>1, <1>2, <1>3 DEF QuerySound, Current
<1> QED
  BY <1>2, <1>4, QuietQuery DEF b

\* The document of a hit is looked up.
LEMMA ReadHomeInv ==
    ASSUME RagInv, NEW j \in Jobs, ReadHome(j)
    PROVE  RagInv'
<1> DEFINE at == IF \E d \in docs : d.id = jobs[j].hit[1] THEN "name" ELSE "read"
<1>1. jobs[j].kind = "query" /\ jobs[j].at = "home"
  BY JobFacts DEF ReadHome, Staged, Ingestion
<1>2. at \in Reading /\ at # "filename"
  BY DEF Reading
<1>3. jobs' = [jobs EXCEPT ![j] = [jobs[j] EXCEPT !.at = at]] /\ UNCHANGED <<tables, index, history>>
  BY DEF ReadHome, ReadHit, Goto, HistoryStays, history
<1> HIDE DEF at
<1> QED
  BY <1>1, <1>2, <1>3, ReadOn

\* The name of the collection that the document was ingested into is the query's:
\* the collection is there, so that the document was not erased.
LEMMA ReadNameInv ==
    ASSUME RagInv, NEW j \in Jobs, ReadName(j)
    PROVE  RagInv'
<1> DEFINE b == jobs[j]
           at == IF \E c \in Named(b.name) : c.id = ingests[b.hit[1]].coll THEN "filename" ELSE "read"
<1>1. b.kind = "query" /\ b.at = "name" /\ QuerySound(b)
  BY JobFacts DEF ReadName, Staged, Ingestion, JobSound
<1>2. at \in Reading
  BY DEF Reading
<1>3. jobs' = [jobs EXCEPT ![j] = [jobs[j] EXCEPT !.at = at]] /\ UNCHANGED <<tables, index, history>>
  BY DEF ReadName, ReadHit, Goto, HistoryStays, history
<1>4. ASSUME at = "filename"
      PROVE  Current(b, b.hit)
  <2>1. PICK c \in collections : c.name = b.name /\ c.id = ingests[b.hit[1]].coll
    BY <1>4 DEF Named
  <2>2. b.hit[1] \in DOMAIN ingests /\ b.dead \subseteq erased
    BY <1>1 DEF QuerySound
  <2>3. ingests[b.hit[1]].name = b.name
    BY <2>1, <2>2 DEF RagInv, Histories
  <2>4. b.hit[1] \notin erased
    BY <2>1, <2>2 DEF RagInv, Histories
  <2> QED
    BY <2>2, <2>3, <2>4 DEF Current
<1> HIDE DEF at
<1> QED
  BY <1>1, <1>2, <1>3, <1>4, ReadOn

\* What was looked up is found.
LEMMA ReadFilenameInv ==
    ASSUME RagInv, NEW j \in Jobs, ReadFilename(j)
    PROVE  RagInv'
<1> DEFINE b == [jobs[j] EXCEPT !.at = "read", !.found = @ \cup {jobs[j].hit}]
<1>1. jobs[j] \in JobRecords /\ jobs[j].kind = "query" /\ jobs[j].at = "filename" /\ QuerySound(jobs[j])
  BY JobFacts DEF ReadFilename, Staged, JobSound, Ingestion
<1>2. jobs[j].hit \in Keys /\ jobs[j].hit[1] \in DOMAIN ingests
  BY <1>1 DEF QuerySound
<1>3. jobs' = [jobs EXCEPT ![j] = b] /\ UNCHANGED <<tables, index, history>>
  BY DEF ReadFilename, Goto, HistoryStays, history
<1>4. b \in JobRecords /\ Staged(b) /\ b.kind = "query"
  BY <1>1, <1>2 DEF JobRecords, Staged, Reading
<1>5. /\ b.hits = jobs[j].hits /\ b.at = "read" /\ b.name = jobs[j].name
      /\ b.found = jobs[j].found \cup {jobs[j].hit} /\ b.dead = jobs[j].dead
  BY <1>1 DEF JobRecords
<1> HIDE DEF b
<1>6. QuerySound(b)
  BY <1>1, <1>2, <1>4, <1>5 DEF QuerySound, Current
<1> QED
  BY <1>3, <1>4, <1>6, QuietQuery

\* The best of what was found is some of it.
LEMMA RankResultsInv ==
    ASSUME RagInv, NEW j \in Jobs, RankResults(j)
    PROVE  RagInv'
<1>1. PICK best \in SUBSET jobs[j].found : Goto(j, [jobs[j] EXCEPT !.at = "results", !.found = best])
  BY DEF RankResults
<1> DEFINE b == [jobs[j] EXCEPT !.at = "results", !.found = best]
<1>2. jobs[j] \in JobRecords /\ jobs[j].kind = "query" /\ QuerySound(jobs[j])
  BY JobFacts DEF RankResults, Staged, JobSound, Ingestion
<1>3. jobs' = [jobs EXCEPT ![j] = b] /\ UNCHANGED <<tables, index, history>>
  BY <1>1 DEF RankResults, Goto, HistoryStays, history
<1>4. best \subseteq Keys
  BY <1>2 DEF JobRecords
<1>5. b \in JobRecords /\ Staged(b) /\ b.kind = "query"
  BY <1>2, <1>4 DEF JobRecords, Staged, Reading
<1>6. b.hits = jobs[j].hits /\ b.at = "results" /\ b.name = jobs[j].name /\ b.found = best /\ b.dead = jobs[j].dead
  BY <1>2 DEF JobRecords
<1> HIDE DEF b
<1>7. QuerySound(b)
  BY <1>2, <1>5, <1>6 DEF QuerySound, Current
<1> QED
  BY <1>3, <1>5, <1>7, QuietQuery

\* A request is answered, or fails.
LEMMA EndInv ==
    ASSUME RagInv, NEW j \in Jobs, AnswerQuery(j) \/ Fail(j)
    PROVE  RagInv'
<1>1. jobs' = [jobs EXCEPT ![j] = NoJob] /\ UNCHANGED <<tables, index, history>>
  BY DEF AnswerQuery, Fail, Goto, HistoryStays, history
<1>2. NoJob.kind = "none"
  BY DEF NoJob
<1> QED
  BY <1>1, <1>2, NoJobSound, QuietQuery DEF JobSound

-----------------------------------------------------------------------------
(* Collections *)

\* At most one collection is added, of a name that no other has and an id that
\* none has had.
Grown(n) ==
    /\ CollectionsTyped'
    /\ lastId <= lastId'
    /\ collections \subseteq collections'
    /\ \A e \in collections' \ collections : e.id = lastId + 1 /\ e.name = n

LEMMA CreateGrown ==
    ASSUME RagInv, NEW n \in Collections, NEW size \in Nat \ {0}, Create(n, size)
    PROVE  /\ Grown(n) /\ lastId' = lastId + 1
           /\ \E e \in collections' : e.id = lastId + 1 /\ e.name = n
<1> DEFINE c == [id |-> lastId + 1, name |-> n, size |-> size]
<1>1. lastId \in Nat /\ lastId' = lastId + 1 /\ lastId < MaxIds /\ MaxIds \in Nat
  BY BoundAssumption DEF RagInv, CollectionsTyped, Create
<1>2. collections' = collections \cup {c}
  BY DEF Create, FreshId
<1>3. c \in [id : Nat \ {0}, name : Collections, size : Nat \ {0}] /\ c.id = lastId + 1 /\ c.name = n
  BY <1>1
<1>4. \A e \in collections : e.id <= lastId /\ e.id \in Nat /\ e.name # n
  BY DEF RagInv, CollectionsTyped, Create, Named
<1> HIDE DEF c
<1>5. CollectionsTyped'
  BY <1>1, <1>2, <1>3, <1>4 DEF RagInv, CollectionsTyped
<1> QED
  BY <1>1, <1>2, <1>3, <1>5 DEF Grown

\* A new collection has no document.
LEMMA GrownRows ==
    ASSUME RagInv, NEW n, Grown(n), UNCHANGED docs, NEW m, NEW d \in RowsIn(m)'
    PROVE  d \in RowsIn(m)
<1>1. PICK c \in collections' : c.name = m /\ d.coll = c.id
  BY DEF RowsIn, Named
<1>2. d \in docs /\ d.coll <= lastId /\ d.coll \in Nat /\ lastId \in Nat
  BY DEF RowsIn, RagInv, RowsTyped, CollectionsTyped
<1>3. c \in collections
  BY <1>1, <1>2 DEF Grown
<1> QED
  BY <1>1, <1>2, <1>3 DEF RowsIn, Named

\* What was noted of ids stays true.
LEMMA GrownIds ==
    ASSUME RagInv, NEW n, Grown(n), NEW i \in DOMAIN ingests
    PROVE  /\ ingests[i].coll <= lastId' /\ ingests[i].coll \in Nat
           /\ \A c \in collections' \ collections : c.id # ingests[i].coll
<1>1. ingests[i].coll <= lastId /\ ingests[i].coll \in Nat /\ lastId \in Nat /\ lastId' \in Nat
  BY IngestFacts DEF RagInv, Histories, CollectionsTyped, Grown
<1> QED
  BY <1>1 DEF Grown

\* A collection is created.
LEMMA CreateCollectionInv ==
    ASSUME RagInv, NEW n \in Collections, NEW size \in Sizes, CreateCollection(n, size)
    PROVE  RagInv'
<1>1. Grown(n) /\ UNCHANGED <<docs, chunks, index, jobs, history>>
  BY CreateGrown, ChunkAssumption DEF CreateCollection, Create, HistoryStays, history
<1>2. CollectionsTyped' /\ JobsTyped' /\ IngestsTyped'
  BY <1>1 DEF RagInv, Grown, JobsTyped, IngestsTyped, history
<1>3. RowsTyped'
  <2>1. \A d \in docs : d.coll <= lastId'
    BY <1>1, <1>2 DEF RagInv, RowsTyped, CollectionsTyped, Grown
  <2> QED
    BY <1>1, <2>1 DEF RagInv, RowsTyped, index, history
<1>4. Histories'
  BY <1>1, GrownIds DEF RagInv, Histories, index, history
<1>5. OrphansOnlyByRace' /\ InFile'
  BY <1>1 DEF RagInv, OrphansOnlyByRace, InFile, Grown, index, history
<1>6. ASSUME NEW k \in Jobs
      PROVE  JobSound(jobs[k])'
  <2>1. JobSound(jobs[k]) /\ jobs'[k] = jobs[k]
    BY <1>1, JobFacts
  <2>2. IngestSound(jobs[k])' /\ QuerySound(jobs[k])'
    BY <1>1, <2>1 DEF JobSound, IngestSound, QuerySound, Bare, Current, Grown, index, history
  <2>3. DeleteSound(jobs[k])'
    BY <1>1, <2>1, GrownRows DEF JobSound, DeleteSound, history
  <2> QED
    BY <2>2, <2>3 DEF JobSound
<1>7. \A k, l \in Jobs : k # l => Together(jobs[k], jobs[l])'
  BY <1>1 DEF RagInv, JobsSound, Together, history
<1> QED
  BY <1>2, <1>3, <1>4, <1>5, <1>6, <1>7 DEF RagInv, JobsSound

\* An ingestion has the id of its collection, which was there or is new.
LEMMA IntoInv ==
    ASSUME RagInv, NEW j \in Jobs, jobs[j].at \in {"lookup", "create"}, NEW c, Into(j, c),
           Grown(jobs[j].name), UNCHANGED <<docs, chunks>>, c.id \in Nat \ {0}, c.size \in Nat,
           c.id <= lastId', \E e \in collections' : e.id = c.id /\ e.name = jobs[j].name
    PROVE  RagInv'
<1> DEFINE b == [jobs[j] EXCEPT !.at = "document", !.size = c.size]
           d == jobs[j].doc
<1>1. jobs[j] \in JobRecords /\ jobs[j].kind = "ingest" /\ IngestSound(jobs[j])
  BY JobFacts DEF Staged, JobSound, Reading
<1>2. /\ d \in DOMAIN ingests /\ ingests[d].coll = 0 /\ ingests[d].name = jobs[j].name
      /\ jobs[j].name \in Collections /\ Bare(d) /\ d \notin done
  BY <1>1 DEF IngestSound
<1>3. jobs' = [jobs EXCEPT ![j] = b] /\ ingests' = [ingests EXCEPT ![d].coll = c.id]
  BY DEF Into, Goto
<1>4. UNCHANGED <<index, done, failed, uncounted, raced, cleared, erased>>
  BY DEF Into
<1>5. b \in JobRecords /\ Staged(b)
  BY <1>1 DEF JobRecords, Staged, Ingestion
<1>6. b.kind = "ingest" /\ b.at = "document" /\ b.name = jobs[j].name /\ b.doc = d
  BY <1>1 DEF JobRecords
<1>7. JobsTyped' /\ jobs'[j] = b /\ \A k \in Jobs \ {j} : jobs'[k] = jobs[k]
  BY <1>3, <1>5, OneJob
<1>8. /\ IngestsTyped' /\ DOMAIN ingests' = DOMAIN ingests
      /\ \A i \in DOMAIN ingests : ingests'[i].name = ingests[i].name
      /\ \A i \in DOMAIN ingests \ {d} : ingests'[i].coll = ingests[i].coll
      /\ ingests'[d].coll = c.id
  BY <1>2, <1>3, NoteCollection
<1> HIDE DEF b, d
<1>9. CollectionsTyped'
  BY DEF Grown
<1>10. RowsTyped'
  <2>1. \A r \in docs : r.coll <= lastId'
    BY <1>9 DEF RagInv, RowsTyped, CollectionsTyped, Grown
  <2> QED
    BY <1>4, <2>1 DEF RagInv, RowsTyped, index
<1>11. Histories'
  <2>1. \A r \in docs : r.id \in DOMAIN ingests /\ r.id # d /\ r.coll = ingests'[r.id].coll
    BY <1>2, <1>8 DEF RagInv, Histories, Bare
  <2>2. ASSUME NEW i \in DOMAIN ingests
        PROVE  /\ ingests'[i].coll <= lastId'
               /\ \A e \in collections' : e.id = ingests'[i].coll => e.name = ingests[i].name
    <3>1. CASE i = d
      BY <1>2, <1>8, <1>9, <3>1 DEF CollectionsTyped
    <3>2. CASE i # d
      BY <1>8, <3>2, GrownIds DEF RagInv, Histories
    <3> QED
      BY <3>1, <3>2
  <2>3. ASSUME NEW i \in erased
        PROVE  /\ i \in DOMAIN ingests /\ ingests'[i].coll >= 1
               /\ \A e \in collections' : e.id # ingests'[i].coll
    <3>1. i \in DOMAIN ingests /\ ingests[i].coll >= 1 /\ \A e \in collections : e.id # ingests[i].coll
      BY DEF RagInv, Histories
    <3>2. i # d
      BY <1>2, <3>1
    <3> QED
      BY <1>8, <3>1, <3>2, GrownIds
  <2> QED
    BY <1>4, <1>8, <2>1, <2>2, <2>3 DEF RagInv, Histories, index
<1>12. OrphansOnlyByRace' /\ InFile'
  BY <1>4 DEF RagInv, OrphansOnlyByRace, InFile, Grown, index
<1>13. ASSUME NEW k \in Jobs
       PROVE  JobSound(jobs[k])'
  <2>1. CASE k = j
    <3>1. jobs'[k].kind = "ingest" /\ jobs'[k].at = "document" /\ jobs'[k].name = jobs[j].name /\ jobs'[k].doc = d
      BY <1>6, <1>7, <2>1
    <3>2. \E e \in collections' : e.id = ingests'[d].coll
      BY <1>8
    <3>3. IngestSound(jobs[k])'
      BY <1>2, <1>4, <1>8, <3>1, <3>2 DEF IngestSound, Bare
    <3> QED
      BY <3>1, <3>3 DEF JobSound, DeleteSound, QuerySound
  <2>2. CASE k # j
    <3>1. JobSound(jobs[k]) /\ jobs'[k] = jobs[k]
      BY <1>7, <2>2, JobFacts
    <3>2. jobs[k].kind = "ingest" => jobs[k].doc # d
      BY <1>1, <2>2 DEF RagInv, JobsSound, Together, d
    <3>3. IngestSound(jobs[k])'
      BY <1>4, <1>8, <3>1, <3>2 DEF JobSound, IngestSound, Bare, Grown, index
    <3>4. QuerySound(jobs[k])'
      BY <1>4, <1>8, <3>1 DEF JobSound, QuerySound, Current
    <3>5. DeleteSound(jobs[k])'
      BY <1>4, <3>1, GrownRows DEF JobSound, DeleteSound
    <3> QED
      BY <3>3, <3>4, <3>5 DEF JobSound
  <2> QED
    BY <2>1, <2>2
<1>14. ASSUME NEW k \in Jobs, NEW l \in Jobs, k # l
       PROVE  Together(jobs[k], jobs[l])'
  <2>1. Together(jobs[k], jobs[l])
    BY <1>14 DEF RagInv, JobsSound
  <2>2. /\ jobs'[k].kind = jobs[k].kind /\ jobs'[k].doc = jobs[k].doc /\ jobs'[k].name = jobs[k].name
        /\ jobs'[l].kind = jobs[l].kind /\ jobs'[l].doc = jobs[l].doc /\ jobs'[l].name = jobs[l].name
    BY <1>1, <1>6, <1>7 DEF d
  <2> QED
    BY <1>4, <2>1, <2>2 DEF Together
<1> QED
  BY <1>7, <1>8, <1>9, <1>10, <1>11, <1>12, <1>13, <1>14 DEF RagInv, JobsSound

\* The collection is found, or is going to be created.
LEMMA GetCollectionInv ==
    ASSUME RagInv, NEW j \in Jobs, GetCollection(j)
    PROVE  RagInv'
<1>1. jobs[j] \in JobRecords /\ jobs[j].kind = "ingest" /\ jobs[j].at = "lookup" /\ IngestSound(jobs[j])
  BY JobFacts DEF GetCollection, Staged, JobSound, Reading
<1>2. CASE \E c \in Named(jobs[j].name) : Into(j, c)
  <2>1. PICK c \in collections : c.name = jobs[j].name /\ Into(j, c)
    BY <1>2 DEF Named
  <2>2. UNCHANGED <<collections, lastId, docs, chunks>>
    BY DEF GetCollection, tables
  <2>3. Grown(jobs[j].name)
    BY <2>2, IngestFacts DEF Grown, RagInv, CollectionsTyped
  <2>4. c.id \in Nat \ {0} /\ c.size \in Nat /\ c.id <= lastId'
    BY <2>2 DEF RagInv, CollectionsTyped
  <2> QED
    BY <1>1, <2>1, <2>2, <2>3, <2>4, IntoInv
<1>3. CASE Goto(j, [jobs[j] EXCEPT !.at = "create"]) /\ UNCHANGED index /\ HistoryStays
  <2> DEFINE b == [jobs[j] EXCEPT !.at = "create"]
  <2>1. jobs' = [jobs EXCEPT ![j] = b] /\ UNCHANGED <<tables, index, history>>
    BY <1>3 DEF GetCollection, Goto, HistoryStays, history
  <2>2. b \in JobRecords /\ Staged(b)
    BY <1>1 DEF JobRecords, Staged, Ingestion
  <2>3. b.kind = "ingest" /\ b.at = "create" /\ b.name = jobs[j].name /\ b.doc = jobs[j].doc
    BY <1>1 DEF JobRecords
  <2> HIDE DEF b
  <2>4. JobSound(b)
    BY <1>1, <2>3 DEF JobSound, IngestSound, DeleteSound, QuerySound
  <2>5. \A k \in Jobs \ {j} : Together(b, jobs[k]) /\ Together(jobs[k], b)
    BY <1>1, <2>3 DEF RagInv, JobsSound, Together
  <2>6. UNCHANGED <<ingests, done, uncounted, raced, erased>> /\ failed' \cup cleared' \subseteq Docs
    BY <2>1 DEF RagInv, RowsTyped, history
  <2> QED
    BY <2>1, <2>2, <2>4, <2>5, <2>6, QuietStep
<1> QED
  BY <1>2, <1>3 DEF GetCollection

\* It is created on the way.
LEMMA AutoCreateInv ==
    ASSUME RagInv, NEW j \in Jobs, AutoCreate(j)
    PROVE  RagInv'
<1>1. jobs[j].at = "create" /\ jobs[j].name \in Collections
  BY JobFacts DEF AutoCreate, Staged, JobSound, IngestSound, Reading
<1>2. DefaultChunk \in Nat \ {0}
  BY ChunkAssumption
<1>3. /\ Grown(jobs[j].name) /\ lastId' = lastId + 1
      /\ \E e \in collections' : e.id = lastId + 1 /\ e.name = jobs[j].name
  BY <1>1, <1>2, CreateGrown DEF AutoCreate
<1>4. PICK c : c = [id |-> FreshId, size |-> DefaultChunk]
  OBVIOUS
<1>5. c.id = lastId + 1 /\ c.id \in Nat \ {0} /\ c.size \in Nat /\ c.id <= lastId'
  BY <1>2, <1>3, <1>4, IngestFacts DEF FreshId
<1>6. Into(j, c) /\ UNCHANGED <<docs, chunks>>
  BY <1>4 DEF AutoCreate, Create
<1> QED
  BY <1>1, <1>3, <1>5, <1>6, IntoInv

-----------------------------------------------------------------------------
(* Ingestion *)

\* A file is handed in, as a document that no other request knows.
LEMMA IngestFileInv ==
    ASSUME RagInv, NEW j \in Jobs, NEW n \in Collections, NEW file \in Files, IngestFile(j, n, file)
    PROVE  RagInv'
<1> DEFINE d == Len(ingests) + 1
           b == [NoJob EXCEPT !.kind = "ingest", !.at = "lookup", !.name = n, !.doc = d]
           e == [name |-> n, file |-> file, coll |-> 0]
<1>1. /\ d \in Docs /\ jobs[j].kind = "none" /\ jobs' = [jobs EXCEPT ![j] = b]
      /\ ingests' = Append(ingests, e) /\ raced' = IF Deleting(n) # {} THEN raced \cup {d} ELSE raced
      /\ UNCHANGED <<tables, index, done, failed, uncounted, cleared, erased>>
  BY DEF IngestFile, Ask
<1>2. d \notin DOMAIN ingests /\ d \in Nat
  BY IngestFacts
<1>3. b \in JobRecords /\ Staged(b)
  BY <1>2, NoJobSound DEF JobRecords, Staged, Ingestion
<1>4. b.kind = "ingest" /\ b.at = "lookup" /\ b.name = n /\ b.doc = d
  BY NoJobSound DEF JobRecords
<1>5. e \in IngestRecords /\ e.name = n /\ e.coll = 0
  BY DEF IngestRecords
<1> HIDE DEF b, e
<1>6. JobsTyped' /\ jobs'[j] = b /\ \A k \in Jobs \ {j} : jobs'[k] = jobs[k]
  BY <1>1, <1>3, OneJob
<1>7. ingests \in Seq(IngestRecords) /\ Len(ingests) <= MaxDocs /\ MaxDocs \in Nat
  BY BoundAssumption DEF RagInv, IngestsTyped, IngestRecords
<1>8. /\ ingests' \in Seq(IngestRecords) /\ Len(ingests') = d /\ DOMAIN ingests' = DOMAIN ingests \cup {d}
      /\ ingests'[d] = e /\ \A i \in DOMAIN ingests : ingests'[i] = ingests[i]
  BY <1>1, <1>5, <1>7
<1>9. IngestsTyped'
  BY <1>1, <1>7, <1>8 DEF IngestsTyped, IngestRecords, Docs
<1> HIDE DEF d
<1>10. raced \subseteq raced' /\ raced' \subseteq Docs
  BY <1>1 DEF RagInv, RowsTyped
<1>11. CollectionsTyped' /\ RowsTyped'
  BY <1>1, <1>10 DEF RagInv, CollectionsTyped, RowsTyped, tables, index
<1>12. Histories'
  <2>1. ingests'[d].coll <= lastId /\ \A c \in collections : c.id # ingests'[d].coll
    BY <1>5, <1>8, IngestFacts DEF RagInv, CollectionsTyped
  <2> QED
    BY <1>1, <1>8, <2>1 DEF RagInv, Histories, tables, index
<1>13. OrphansOnlyByRace' /\ InFile'
  BY <1>1, <1>10 DEF RagInv, OrphansOnlyByRace, InFile, tables, index
<1>14. ASSUME NEW k \in Jobs
       PROVE  JobSound(jobs[k])'
  <2>1. CASE k = j
    <3>1. jobs'[k].kind = "ingest" /\ jobs'[k].at = "lookup" /\ jobs'[k].name = n /\ jobs'[k].doc = d
      BY <1>4, <1>6, <2>1
    <3>2. (\A r \in docs : r.id # d) /\ (\A x \in chunks : x.doc # d) /\ d \notin done
      BY <1>2 DEF RagInv, Histories
    <3>3. IngestSound(jobs[k])'
      BY <1>1, <1>5, <1>8, <3>1, <3>2 DEF IngestSound, Bare, tables
    <3> QED
      BY <3>1, <3>3 DEF JobSound, DeleteSound, QuerySound
  <2>2. CASE k # j
    <3>1. JobSound(jobs[k]) /\ jobs'[k] = jobs[k]
      BY <1>6, <2>2, JobFacts
    <3>2. IngestSound(jobs[k])'
      BY <1>1, <1>8, <1>10, <3>1 DEF JobSound, IngestSound, Bare, tables, index
    <3>3. QuerySound(jobs[k])'
      BY <1>1, <1>8, <3>1 DEF JobSound, QuerySound, Current
    <3>4. DeleteSound(jobs[k])'
      BY <1>1, <1>10, <3>1 DEF JobSound, DeleteSound, RowsIn, Named, tables
    <3> QED
      BY <3>2, <3>3, <3>4 DEF JobSound
  <2> QED
    BY <2>1, <2>2
<1>15. \A k \in Jobs : jobs[k].kind = "ingest" => jobs[k].doc # d
  BY <1>2, JobFacts DEF JobSound, IngestSound
<1>16. ASSUME NEW k \in Jobs, NEW l \in Jobs, k # l
       PROVE  Together(jobs[k], jobs[l])'
  <2>1. CASE k # j /\ l # j
    BY <1>6, <1>10, <1>16, <2>1 DEF RagInv, JobsSound, Together
  <2>2. CASE k = j
    <3>1. jobs'[k] = b /\ jobs'[l] = jobs[l]
      BY <1>6, <1>16, <2>2
    <3>2. jobs[l].kind = "delete" /\ jobs[l].name = n => d \in raced'
      BY <1>1 DEF Deleting
    <3> QED
      BY <1>4, <1>15, <3>1, <3>2 DEF Together
  <2>3. CASE l = j
    <3>1. jobs'[l] = b /\ jobs'[k] = jobs[k]
      BY <1>6, <1>16, <2>3
    <3> QED
      BY <1>4, <1>15, <3>1 DEF Together
  <2> QED
    BY <2>1, <2>2, <2>3
<1> QED
  BY <1>6, <1>9, <1>11, <1>12, <1>13, <1>14, <1>16 DEF RagInv, JobsSound

\* An ingestion writes rows and vectors of its document: another one does not see
\* them, and to a deletion of the collection they are raced.
LEMMA IngestStep ==
    ASSUME RagInv, NEW j \in Jobs, jobs[j].kind = "ingest", NEW b \in JobRecords, Staged(b),
           jobs' = [jobs EXCEPT ![j] = b], b.kind \in {"ingest", "none"},
           b.kind = "ingest" => b.doc = jobs[j].doc /\ b.name = jobs[j].name,
           UNCHANGED <<collections, lastId, ingests, raced, erased>>,
           RowsTyped', OrphansOnlyByRace', InFile', IngestSound(jobs[j])',
           \A r \in docs' : r \in docs \/ (r.id = jobs[j].doc /\ r.coll = ingests[jobs[j].doc].coll),
           \A r \in docs : \E q \in docs' : q.id = r.id,
           \A x \in chunks' : x \in chunks \/ x.doc = jobs[j].doc,
           \A v \in vectors' : v \in vectors \/ v[1] = jobs[j].doc,
           vectors \subseteq vectors', unsaved \subseteq unsaved', done' \subseteq done \cup {jobs[j].doc}
    PROVE  RagInv'
<1> DEFINE d == jobs[j].doc
<1>1. d \in DOMAIN ingests /\ ingests[d].name = jobs[j].name
  BY JobFacts DEF JobSound, IngestSound
<1>2. JobsTyped' /\ jobs'[j] = b /\ \A k \in Jobs \ {j} : jobs'[k] = jobs[k]
  BY OneJob
<1> HIDE DEF d
<1>3. CollectionsTyped' /\ IngestsTyped'
  BY DEF RagInv, CollectionsTyped, IngestsTyped
<1>4. Histories'
  BY <1>1 DEF RagInv, Histories, d
<1>5. ASSUME NEW k \in Jobs
      PROVE  JobSound(jobs[k])'
  <2>1. CASE k = j
    <3>1. DeleteSound(jobs[k])' /\ QuerySound(jobs[k])'
      BY <1>2, <2>1 DEF DeleteSound, QuerySound
    <3> QED
      BY <2>1, <3>1 DEF JobSound
  <2>2. CASE k # j
    <3>1. JobSound(jobs[k]) /\ jobs'[k] = jobs[k]
      BY <1>2, <2>2, JobFacts
    <3>2. IngestSound(jobs[k])'
      <4>1. jobs[k].kind = "ingest" => jobs[k].doc # d
        BY <2>2 DEF RagInv, JobsSound, Together, d
      <4>2. IngestSound(jobs[k])
        BY <3>1 DEF JobSound
      <4>3. \A e : e # d /\ Bare(e) => Bare(e)'
        BY DEF Bare, d
      <4> QED
        BY <3>1, <4>1, <4>2, <4>3 DEF IngestSound, d
    <3>3. DeleteSound(jobs[k])'
      <4>1. jobs[k].kind = "delete" /\ jobs[k].name = jobs[j].name => d \in raced
        BY <2>2 DEF RagInv, JobsSound, Together, d
      <4>2. ASSUME NEW n, NEW r \in RowsIn(n)'
            PROVE  \/ r \in RowsIn(n) /\ r.id # d
                   \/ r.id = d /\ n = jobs[j].name
        <5>1. PICK c \in collections : c.name = n /\ r.coll = c.id
          BY DEF RowsIn, Named
        <5>2. r \in docs' /\ r.coll = ingests[r.id].coll
          BY <1>4 DEF RowsIn, Histories
        <5>3. r.id = d => c.name = ingests[d].name
          BY <1>1, <5>1, <5>2 DEF RagInv, Histories
        <5>4. r.id # d => r \in docs
          BY <5>2 DEF d
        <5> QED
          BY <1>1, <5>1, <5>3, <5>4 DEF RowsIn, Named
      <4>3. DeleteSound(jobs[k])
        BY <3>1 DEF JobSound
      <4> QED
        BY <3>1, <4>1, <4>2, <4>3 DEF DeleteSound, d
    <3>4. QuerySound(jobs[k])'
      BY <3>1 DEF JobSound, QuerySound, Current
    <3> QED
      BY <3>2, <3>3, <3>4 DEF JobSound
  <2> QED
    BY <2>1, <2>2
<1>6. ASSUME NEW k \in Jobs, NEW l \in Jobs, k # l
      PROVE  Together(jobs[k], jobs[l])'
  <2>1. Together(jobs[k], jobs[l])
    BY <1>6 DEF RagInv, JobsSound
  <2> QED
    BY <1>2, <1>6, <2>1 DEF Together
<1> QED
  BY <1>2, <1>3, <1>4, <1>5, <1>6 DEF RagInv, JobsSound

\* What an ingestion is at, and the rows it has.
LEMMA IngestionFacts ==
    ASSUME RagInv, NEW j \in Jobs, jobs[j].at \in Ingestion
    PROVE  /\ jobs[j] \in JobRecords /\ jobs[j].kind = "ingest" /\ IngestSound(jobs[j])
           /\ jobs[j].doc \in DOMAIN ingests /\ jobs[j].doc \in Docs /\ jobs[j].doc \notin done
BY JobFacts, IngestFacts DEF Staged, JobSound, IngestSound, Ingestion, Reading

\* The document gets its row.
LEMMA InsertDocumentInv ==
    ASSUME RagInv, NEW j \in Jobs, InsertDocument(j)
    PROVE  RagInv'
<1> DEFINE d == jobs[j].doc
           b == [jobs[j] EXCEPT !.at = "chunk"]
           row == [id |-> d, coll |-> ingests[d].coll, count |-> 0]
<1>1. jobs[j].at = "document" /\ docs' = docs \cup {row} /\ jobs' = [jobs EXCEPT ![j] = b]
      /\ UNCHANGED <<collections, lastId, chunks, index, history>>
  BY DEF InsertDocument, Goto, HistoryStays, history
<1>2. /\ jobs[j] \in JobRecords /\ jobs[j].kind = "ingest" /\ IngestSound(jobs[j])
      /\ d \in DOMAIN ingests /\ d \in Docs /\ d \notin done
  BY <1>1, IngestionFacts DEF Ingestion
<1>3. /\ ingests[d].coll \in Nat \ {0} /\ ingests[d].coll <= lastId /\ Bare(d)
      /\ d \in raced \/ \E c \in collections : c.id = ingests[d].coll
  BY <1>1, <1>2, IngestFacts DEF IngestSound, RagInv, Histories
<1>4. row \in [id : Docs, coll : Nat \ {0}, count : Nat] /\ row.id = d /\ row.coll = ingests[d].coll
  BY <1>2, <1>3
<1>5. b \in JobRecords /\ Staged(b)
  BY <1>2 DEF JobRecords, Staged, Ingestion
<1>6. b.kind = "ingest" /\ b.at = "chunk" /\ b.name = jobs[j].name /\ b.doc = d
  BY <1>2 DEF JobRecords
<1>7. jobs'[j] = b
  BY <1>1, <1>5, OneJob
<1> HIDE DEF b, row, d
<1>8. RowsTyped'
  BY <1>1, <1>3, <1>4 DEF RagInv, RowsTyped, index, history
<1>9. OrphansOnlyByRace' /\ InFile'
  BY <1>1, <1>3, <1>4 DEF RagInv, OrphansOnlyByRace, InFile, index, history
<1>10. IngestSound(jobs[j])'
  <2>1. jobs'[j].kind = "ingest" /\ jobs'[j].at = "chunk" /\ jobs'[j].name = jobs[j].name /\ jobs'[j].doc = d
    BY <1>6, <1>7
  <2>2. row \in docs'
    BY <1>1
  <2> QED
    BY <1>1, <1>2, <1>3, <1>4, <2>1, <2>2 DEF IngestSound, Bare, history, d
<1>11. UNCHANGED <<collections, lastId, ingests, uncounted, raced, erased, chunks, vectors, unsaved, done>>
  BY <1>1 DEF index, history
<1> QED
  BY <1>1, <1>2, <1>4, <1>5, <1>6, <1>8, <1>9, <1>10, <1>11, IngestStep DEF d

\* A chunk gets its row.
LEMMA InsertChunkInv ==
    ASSUME RagInv, NEW j \in Jobs, InsertChunk(j)
    PROVE  RagInv'
<1> DEFINE d == jobs[j].doc
           b == [jobs[j] EXCEPT !.at = "vector", !.count = @ + 1]
           row == [doc |-> d, index |-> jobs[j].next, text |-> Chunked(j)[jobs[j].next]]
<1>1. jobs[j].at = "chunk" /\ chunks' = chunks \cup {row} /\ jobs' = [jobs EXCEPT ![j] = b]
      /\ UNCHANGED <<collections, lastId, docs, index, history>>
  BY DEF InsertChunk, Goto, HistoryStays, history
<1>2. /\ jobs[j] \in JobRecords /\ jobs[j].kind = "ingest" /\ IngestSound(jobs[j])
      /\ d \in DOMAIN ingests /\ d \in Docs /\ d \notin done
  BY <1>1, IngestionFacts DEF Ingestion
<1>3. row.doc = d /\ row.index = jobs[j].next /\ jobs[j].next \in Nat \ {0}
  BY <1>2 DEF JobRecords
<1>4. b \in JobRecords /\ Staged(b)
  <2>1. "vector" \in {"idle", "delete"} \cup Ingestion \cup Reading /\ jobs[j].count + 1 \in Nat
    BY <1>2 DEF JobRecords, Ingestion
  <2>2. b \in JobRecords
    BY <1>2, <2>1 DEF JobRecords
  <2>3. b.kind = "ingest" /\ b.at = "vector"
    BY <1>2 DEF JobRecords
  <2> QED
    BY <2>2, <2>3 DEF Staged, Ingestion
<1>5. b.kind = "ingest" /\ b.at = "vector" /\ b.name = jobs[j].name /\ b.doc = d /\ b.next = jobs[j].next
  BY <1>2 DEF JobRecords
<1>6. jobs'[j] = b
  BY <1>1, <1>4, OneJob
<1> HIDE DEF b, row, d
<1>7. RowsTyped'
  BY <1>1, <1>2, <1>3 DEF RagInv, RowsTyped, index, history
<1>8. d \in raced \/ \E r \in docs : r.id = d
  BY <1>1, <1>2 DEF IngestSound, d
<1>9. OrphansOnlyByRace' /\ InFile'
  BY <1>1, <1>2, <1>3, <1>8 DEF RagInv, OrphansOnlyByRace, InFile, index, history
<1>10. IngestSound(jobs[j])'
  <2>1. /\ jobs'[j].kind = "ingest" /\ jobs'[j].at = "vector" /\ jobs'[j].name = jobs[j].name
        /\ jobs'[j].doc = d /\ jobs'[j].next = jobs[j].next
    BY <1>5, <1>6
  <2>2. \A x \in chunks' : x.doc = d => <<x.doc, x.index>> \in vectors \cup unsaved \/ x.index = jobs[j].next
    BY <1>1, <1>2, <1>3 DEF IngestSound, d
  <2> QED
    BY <1>1, <1>2, <1>8, <2>1, <2>2 DEF IngestSound, index, history, d
<1>11. UNCHANGED <<collections, lastId, ingests, uncounted, raced, erased, docs, vectors, unsaved, done>>
  BY <1>1 DEF index, history
<1> QED
  BY <1>1, <1>2, <1>3, <1>4, <1>5, <1>7, <1>9, <1>10, <1>11, IngestStep DEF d

\* A chunk that is not written is passed over.
LEMMA ChunkFailsInv ==
    ASSUME RagInv, NEW j \in Jobs, ChunkFails(j)
    PROVE  RagInv'
<1> DEFINE b == [jobs[j] EXCEPT !.next = @ + 1]
<1>1. jobs[j].at = "chunk" /\ jobs' = [jobs EXCEPT ![j] = b] /\ failed' = failed \cup {jobs[j].doc}
      /\ UNCHANGED <<tables, index, ingests, done, uncounted, raced, cleared, erased>>
  BY DEF ChunkFails
<1>2. /\ jobs[j] \in JobRecords /\ jobs[j].kind = "ingest" /\ IngestSound(jobs[j])
      /\ jobs[j].doc \in Docs
  BY <1>1, IngestionFacts DEF Ingestion
<1>3. b \in JobRecords /\ Staged(b)
  BY <1>1, <1>2 DEF JobRecords, Staged, Ingestion
<1>4. b.kind = "ingest" /\ b.at = "chunk" /\ b.name = jobs[j].name /\ b.doc = jobs[j].doc
  BY <1>1, <1>2 DEF JobRecords
<1> HIDE DEF b
<1>5. JobSound(b)
  BY <1>1, <1>2, <1>4 DEF JobSound, IngestSound, DeleteSound, QuerySound
<1>6. \A k \in Jobs \ {j} : Together(b, jobs[k]) /\ Together(jobs[k], b)
  BY <1>2, <1>4 DEF RagInv, JobsSound, Together
<1>7. failed' \cup cleared' \subseteq Docs
  BY <1>1, <1>2 DEF RagInv, RowsTyped
<1> QED
  BY <1>1, <1>3, <1>5, <1>6, <1>7, QuietStep

\* The chunk gets its vector, or never will.
LEMMA EmbedChunkInv ==
    ASSUME RagInv, NEW j \in Jobs, EmbedChunk(j)
    PROVE  RagInv'
<1> DEFINE d == jobs[j].doc
           b == [jobs[j] EXCEPT !.at = "chunk", !.next = @ + 1]
<1>1. jobs[j].at = "vector" /\ jobs' = [jobs EXCEPT ![j].at = "chunk", ![j].next = @ + 1]
      /\ UNCHANGED <<tables, saved, history>>
  BY DEF EmbedChunk, HistoryStays, history
<1>2. /\ jobs[j] \in JobRecords /\ jobs[j].kind = "ingest" /\ IngestSound(jobs[j])
      /\ d \in DOMAIN ingests /\ d \in Docs /\ d \notin done
  BY <1>1, IngestionFacts DEF Ingestion
<1>3. jobs' = [jobs EXCEPT ![j] = b]
  BY <1>1, <1>2 DEF RagInv, JobsTyped, JobRecords
<1>4. b \in JobRecords /\ Staged(b)
  <2>1. "chunk" \in {"idle", "delete"} \cup Ingestion \cup Reading /\ jobs[j].next + 1 \in Nat \ {0}
    BY <1>2 DEF JobRecords, Ingestion
  <2>2. b \in JobRecords
    BY <1>2, <2>1 DEF JobRecords
  <2>3. b.kind = "ingest" /\ b.at = "chunk"
    BY <1>2 DEF JobRecords
  <2> QED
    BY <2>2, <2>3 DEF Staged, Ingestion
<1>5. b.kind = "ingest" /\ b.at = "chunk" /\ b.name = jobs[j].name /\ b.doc = d
  BY <1>2 DEF JobRecords
<1>6. jobs'[j] = b
  BY <1>3, <1>4, OneJob
<1>7. Key(j) = <<d, jobs[j].next>> /\ Key(j) \in Keys
  BY <1>2 DEF Key, Keys, JobRecords
<1>8. \/ vectors' = vectors \cup {Key(j)} /\ unsaved' = unsaved
      \/ vectors' = vectors /\ unsaved' = unsaved \cup {Key(j)}
  BY DEF EmbedChunk
<1> HIDE DEF b, d
<1>9. /\ vectors \subseteq vectors' /\ unsaved \subseteq unsaved' /\ vectors' \subseteq Keys
      /\ \A v \in vectors' : v \in vectors \/ v[1] = d
      /\ <<d, jobs[j].next>> \in vectors' \cup unsaved'
  BY <1>7, <1>8 DEF RagInv, RowsTyped
<1>10. UNCHANGED <<collections, lastId, docs, chunks, saved, ingests, done, failed, uncounted, raced, cleared, erased>>
  BY <1>1 DEF tables, history
<1>11. RowsTyped' /\ OrphansOnlyByRace' /\ InFile'
  BY <1>9, <1>10 DEF RagInv, RowsTyped, OrphansOnlyByRace, InFile
<1>12. IngestSound(jobs[j])'
  <2>1. jobs'[j].kind = "ingest" /\ jobs'[j].at = "chunk" /\ jobs'[j].name = jobs[j].name /\ jobs'[j].doc = d
    BY <1>5, <1>6
  <2>2. \A x \in chunks : x.doc = d => <<x.doc, x.index>> \in vectors' \cup unsaved'
    BY <1>1, <1>2, <1>9 DEF IngestSound, d
  <2>3. /\ ingests[d].name = jobs[j].name /\ jobs[j].name \in Collections /\ ingests[d].coll >= 1
        /\ d \in raced \/ \E r \in docs : r.id = d
    BY <1>1, <1>2 DEF IngestSound, d
  <2> QED
    BY <1>2, <1>10, <2>1, <2>2, <2>3 DEF IngestSound
<1> QED
  BY <1>2, <1>3, <1>4, <1>5, <1>9, <1>10, <1>11, <1>12, IngestStep DEF d

\* The document counts its chunks.
LEMMA CountChunksInv ==
    ASSUME RagInv, NEW j \in Jobs, CountChunks(j)
    PROVE  RagInv'
<1> DEFINE d == jobs[j].doc
           b == [jobs[j] EXCEPT !.at = "save"]
<1>0. PICK written \in BOOLEAN : docs' = IF written THEN {IF r.id = d THEN [r EXCEPT !.count = jobs[j].count] ELSE r : r \in docs}
                                 ELSE docs
  BY DEF CountChunks
<1>1. jobs[j].at = "chunk" /\ jobs' = [jobs EXCEPT ![j] = b] /\ uncounted' \subseteq uncounted \cup {d}
      /\ UNCHANGED <<collections, lastId, chunks, index, ingests, done, failed, raced, cleared, erased>>
  BY DEF CountChunks
<1> DEFINE counted(r) == IF written /\ r.id = d THEN [r EXCEPT !.count = jobs[j].count] ELSE r
<1>2. /\ jobs[j] \in JobRecords /\ jobs[j].kind = "ingest" /\ IngestSound(jobs[j])
      /\ d \in DOMAIN ingests /\ d \in Docs /\ d \notin done
  BY <1>1, IngestionFacts DEF Ingestion
<1>3. b \in JobRecords /\ Staged(b)
  BY <1>2 DEF JobRecords, Staged, Ingestion
<1>4. b.kind = "ingest" /\ b.at = "save" /\ b.name = jobs[j].name /\ b.doc = d
  BY <1>2 DEF JobRecords
<1>5. jobs'[j] = b
  BY <1>1, <1>3, OneJob
<1>16. docs' = {counted(r) : r \in docs}
  BY <1>0
<1>6. \A r \in docs : /\ counted(r) \in [id : Docs, coll : Nat \ {0}, count : Nat]
                      /\ counted(r).id = r.id /\ counted(r).coll = r.coll
  <2>1. jobs[j].count \in Nat
    BY <1>2 DEF JobRecords
  <2>2. \A r \in docs : r \in [id : Docs, coll : Nat \ {0}, count : Nat]
    BY DEF RagInv, RowsTyped
  <2> QED
    BY <2>1, <2>2
<1>7. \A r \in docs : counted(r) \in docs \/ counted(r).id = d
  OBVIOUS
<1> HIDE DEF b, d, counted
<1>8. /\ UNCHANGED <<collections, lastId, chunks, vectors, saved, unsaved, ingests, done, failed, raced, cleared, erased>>
      /\ uncounted' \subseteq uncounted \cup {d}
  BY <1>1 DEF index
<1>9. \A r \in docs' : \E q \in docs : r = counted(q)
  BY <1>16
<1>10. \A q \in docs : counted(q) \in docs'
  BY <1>16
<1>11. RowsTyped'
  BY <1>2, <1>6, <1>8, <1>9 DEF RagInv, RowsTyped
<1>12. OrphansOnlyByRace' /\ InFile'
  BY <1>6, <1>8, <1>9, <1>10 DEF RagInv, OrphansOnlyByRace, InFile
<1>13. IngestSound(jobs[j])'
  <2>1. jobs'[j].kind = "ingest" /\ jobs'[j].at = "save" /\ jobs'[j].name = jobs[j].name /\ jobs'[j].doc = d
    BY <1>4, <1>5
  <2>2. d \in raced \/ \E r \in docs' : r.id = d
    BY <1>1, <1>2, <1>6, <1>10 DEF IngestSound, d
  <2> QED
    BY <1>1, <1>2, <1>8, <2>1, <2>2 DEF IngestSound, d
<1>14. \A r \in docs' : r \in docs \/ (r.id = d /\ r.coll = ingests[d].coll)
  BY <1>6, <1>7, <1>9 DEF RagInv, Histories
<1>15. \A r \in docs : \E q \in docs' : q.id = r.id
  BY <1>6, <1>10
<1> QED
  BY <1>1, <1>2, <1>3, <1>4, <1>8, <1>11, <1>12, <1>13, <1>14, <1>15, IngestStep DEF d

\* The index is saved, or what is not in its file is noted; the ingestion is answered.
LEMMA SaveIndexInv ==
    ASSUME RagInv, NEW j \in Jobs, SaveIndex(j)
    PROVE  RagInv'
<1> DEFINE d == jobs[j].doc
<1>1. jobs[j].at = "save" /\ jobs' = [jobs EXCEPT ![j] = NoJob] /\ done' = done \cup {d}
      /\ UNCHANGED <<tables, vectors, ingests, failed, uncounted, raced, cleared, erased>>
  BY DEF SaveIndex
<1>2. /\ jobs[j] \in JobRecords /\ jobs[j].kind = "ingest" /\ IngestSound(jobs[j])
      /\ d \in DOMAIN ingests /\ d \in Docs /\ d \notin done
  BY <1>1, IngestionFacts DEF Ingestion
<1>3. NoJob \in JobRecords /\ Staged(NoJob) /\ NoJob.kind = "none" /\ jobs'[j] = NoJob
  BY <1>1, NoJobSound, OneJob DEF NoJob
<1> HIDE DEF d
<1>4. \/ saved' = vectors /\ unsaved' = unsaved
      \/ saved' = saved /\ unsaved' = unsaved \cup (vectors \ saved)
  BY DEF SaveIndex, Saved
<1>5. unsaved \subseteq unsaved' /\ saved \subseteq vectors /\ saved \subseteq saved'
  BY <1>4 DEF RagInv, RowsTyped
<1>6. UNCHANGED <<collections, lastId, docs, chunks, vectors, ingests, failed, uncounted, raced, cleared, erased>>
  BY <1>1 DEF tables
<1>7. RowsTyped' /\ OrphansOnlyByRace'
  BY <1>1, <1>2, <1>4, <1>6 DEF RagInv, RowsTyped, OrphansOnlyByRace
<1>8. InFile'
  <2>1. \A x \in chunks : x.doc = d => <<x.doc, x.index>> \in vectors \cup unsaved
    BY <1>1, <1>2 DEF IngestSound, d
  <2>2. \A x \in chunks : x.doc \in done /\ <<x.doc, x.index>> \notin unsaved => <<x.doc, x.index>> \in saved
    BY DEF RagInv, InFile
  <2> QED
    BY <1>1, <1>4, <1>5, <1>6, <2>1, <2>2 DEF InFile
<1>9. IngestSound(jobs[j])'
  BY <1>3 DEF IngestSound
<1> QED
  BY <1>1, <1>2, <1>3, <1>5, <1>6, <1>7, <1>8, <1>9, IngestStep DEF d

-----------------------------------------------------------------------------
(* Deletion *)

\* A deletion begins: the ingestions beside it are raced.
LEMMA DeleteCollectionInv ==
    ASSUME RagInv, NEW j \in Jobs, NEW n \in Collections, DeleteCollection(j, n)
    PROVE  RagInv'
<1> DEFINE b == [NoJob EXCEPT !.kind = "delete", !.at = "delete", !.name = n]
           beside == {jobs[k].doc : k \in Ingesting(n)}
<1>1. jobs[j].kind = "none" /\ jobs' = [jobs EXCEPT ![j] = b] /\ raced' = raced \cup beside
      /\ UNCHANGED <<tables, index, ingests, done, failed, uncounted, cleared, erased>>
  BY DEF DeleteCollection, Ask
<1>2. b \in JobRecords /\ Staged(b)
  BY NoJobSound DEF JobRecords, Staged, Ingestion
<1>3. b.kind = "delete" /\ b.name = n /\ b.table = 1
  BY NoJobSound DEF JobRecords, NoJob
<1>4. beside \subseteq Docs
  BY JobFacts, IngestFacts DEF Ingesting, JobSound, IngestSound
<1>5. \A k \in Jobs : jobs[k].kind = "ingest" /\ jobs[k].name = n => jobs[k].doc \in beside
  BY DEF Ingesting
<1> HIDE DEF b, beside
<1>6. JobsTyped' /\ jobs'[j] = b /\ \A k \in Jobs \ {j} : jobs'[k] = jobs[k]
  BY <1>1, <1>2, OneJob
<1>7. CollectionsTyped' /\ RowsTyped' /\ IngestsTyped'
  BY <1>1, <1>4 DEF RagInv, CollectionsTyped, RowsTyped, IngestsTyped, tables, index
<1>8. Histories' /\ OrphansOnlyByRace' /\ InFile'
  BY <1>1 DEF RagInv, Histories, OrphansOnlyByRace, InFile, tables, index
<1>9. ASSUME NEW k \in Jobs
      PROVE  JobSound(jobs[k])'
  <2>1. CASE k = j
    BY <1>3, <1>6, <2>1 DEF JobSound, IngestSound, DeleteSound, QuerySound
  <2>2. CASE k # j
    <3>1. JobSound(jobs[k]) /\ jobs'[k] = jobs[k]
      BY <1>6, <2>2, JobFacts
    <3>2. IngestSound(jobs[k])'
      BY <1>1, <3>1 DEF JobSound, IngestSound, Bare, tables, index
    <3>3. QuerySound(jobs[k])'
      BY <1>1, <3>1 DEF JobSound, QuerySound, Current
    <3>4. DeleteSound(jobs[k])'
      BY <1>1, <3>1 DEF JobSound, DeleteSound, RowsIn, Named, tables
    <3> QED
      BY <3>2, <3>3, <3>4 DEF JobSound
  <2> QED
    BY <2>1, <2>2
<1>10. ASSUME NEW k \in Jobs, NEW l \in Jobs, k # l
       PROVE  Together(jobs[k], jobs[l])'
  <2>1. CASE k # j /\ l # j
    BY <1>1, <1>6, <1>10, <2>1 DEF RagInv, JobsSound, Together
  <2>2. CASE k = j \/ l = j
    BY <1>1, <1>3, <1>5, <1>6, <1>10, <2>2 DEF Together
  <2> QED
    BY <2>1, <2>2
<1> QED
  BY <1>6, <1>7, <1>8, <1>9, <1>10 DEF RagInv, JobsSound

\* Rows are deleted, of documents with a collection of the name, or collections of
\* the name: what others rely on stays, or is of a document that is raced.
LEMMA DeletionStep ==
    ASSUME RagInv, NEW j \in Jobs, jobs[j].kind = "delete", NEW b \in JobRecords, Staged(b),
           jobs' = [jobs EXCEPT ![j] = b], b.kind \in {"delete", "none"},
           b.kind = "delete" => b.name = jobs[j].name,
           UNCHANGED <<lastId, index, ingests, done, failed, uncounted, raced>>,
           collections' \subseteq collections, docs' \subseteq docs, chunks' \subseteq chunks,
           cleared' \cup erased' \subseteq Docs, erased \subseteq erased',
           OrphansOnlyByRace', DeleteSound(jobs[j])',
           \A r \in docs \ docs' : r \in RowsIn(jobs[j].name),
           \A c \in collections \ collections' : c.name = jobs[j].name,
           \A i \in erased' : i \in erased \/ \E c \in collections \ collections' :
                                                 i \in DOMAIN ingests /\ ingests[i].coll = c.id
    PROVE  RagInv'
<1> DEFINE n == jobs[j].name
<1>1. JobsTyped' /\ jobs'[j] = b /\ \A k \in Jobs \ {j} : jobs'[k] = jobs[k]
  BY OneJob
<1>2. UNCHANGED <<lastId, vectors, saved, unsaved, ingests, done, failed, uncounted, raced>>
  BY DEF index
<1>3. CollectionsTyped' /\ IngestsTyped' /\ RowsTyped'
  BY <1>2 DEF RagInv, CollectionsTyped, IngestsTyped, RowsTyped
<1>4. Histories'
  <2>1. ASSUME NEW i \in erased'
        PROVE  /\ i \in DOMAIN ingests /\ ingests[i].coll >= 1
               /\ \A c \in collections' : c.id # ingests[i].coll
    <3>1. CASE i \in erased
      BY <3>1 DEF RagInv, Histories
    <3>2. CASE i \notin erased
      <4>1. PICK c \in collections \ collections' : i \in DOMAIN ingests /\ ingests[i].coll = c.id
        BY <3>2
      <4>2. c.id \in Nat \ {0} /\ \A e \in collections' : e.id # c.id
        BY <4>1 DEF RagInv, CollectionsTyped
      <4> QED
        BY <4>1, <4>2
    <3> QED
      BY <3>1, <3>2
  <2> QED
    BY <1>2, <2>1 DEF RagInv, Histories
<1>5. InFile'
  BY <1>2 DEF RagInv, InFile
<1>6. \A k \in Jobs : jobs[k].kind = "ingest" /\ jobs[k].name = n => jobs[k].doc \in raced
  BY DEF RagInv, JobsSound, Together
<1>7. \A m : RowsIn(m)' \subseteq RowsIn(m)
  BY DEF RowsIn, Named
<1>8. \A d : Bare(d) => Bare(d)'
  BY DEF Bare
<1> HIDE DEF n
<1>9. ASSUME NEW k \in Jobs
      PROVE  JobSound(jobs[k])'
  <2>1. CASE k = j
    BY <1>1, <2>1 DEF JobSound, IngestSound, QuerySound
  <2>2. CASE k # j
    <3>1. JobSound(jobs[k]) /\ jobs'[k] = jobs[k]
      BY <1>1, <2>2, JobFacts
    <3>2. IngestSound(jobs[k])'
      <4>1. CASE jobs[k].kind # "ingest"
        BY <3>1, <4>1 DEF IngestSound
      <4>2. CASE jobs[k].kind = "ingest" /\ jobs[k].name = n
        <5>1. jobs[k].doc \in raced
          BY <1>6, <4>2
        <5> QED
          BY <1>2, <1>8, <3>1, <5>1 DEF JobSound, IngestSound
      <4>3. CASE jobs[k].kind = "ingest" /\ jobs[k].name # n
        <5>1. jobs[k].doc \in DOMAIN ingests /\ ingests[jobs[k].doc].name # n
          BY <3>1, <4>3 DEF JobSound, IngestSound
        <5>2. \A r \in docs : r.id = jobs[k].doc => r \in docs'
          <6>1. \A r \in docs, c \in collections : r.id = jobs[k].doc /\ r.coll = c.id => c.name # n
            BY <5>1 DEF RagInv, Histories
          <6> QED
            BY <6>1 DEF RowsIn, Named, n
        <5>3. \A c \in collections : c.id = ingests[jobs[k].doc].coll => c \in collections'
          BY <5>1 DEF RagInv, Histories, n
        <5> QED
          BY <1>2, <1>8, <3>1, <5>2, <5>3 DEF JobSound, IngestSound
      <4> QED
        BY <4>1, <4>2, <4>3
    <3>3. QuerySound(jobs[k])'
      BY <1>2, <3>1 DEF JobSound, QuerySound, Current
    <3>4. DeleteSound(jobs[k])'
      BY <1>2, <1>7, <3>1 DEF JobSound, DeleteSound
    <3> QED
      BY <3>2, <3>3, <3>4 DEF JobSound
  <2> QED
    BY <2>1, <2>2
<1>10. ASSUME NEW k \in Jobs, NEW l \in Jobs, k # l
       PROVE  Together(jobs[k], jobs[l])'
  <2>1. Together(jobs[k], jobs[l])
    BY <1>10 DEF RagInv, JobsSound
  <2> QED
    BY <1>1, <1>2, <1>10, <2>1 DEF Together
<1> QED
  BY <1>1, <1>3, <1>4, <1>5, <1>9, <1>10 DEF RagInv, JobsSound

\* The statements of a deletion, in their order.
LEMMA DeleteRowsInv ==
    ASSUME RagInv, NEW j \in Jobs, DeleteRows(j)
    PROVE  RagInv'
<1> DEFINE n == jobs[j].name
           t == jobs[j].table
           b == IF t = 3 THEN NoJob ELSE [jobs[j] EXCEPT !.table = @ + 1]
           rows == {r.id : r \in RowsIn(n)}
           gone == {i \in DOMAIN ingests : ingests[i].coll \in {c.id : c \in Named(n)}}
<1>1. jobs[j] \in JobRecords /\ jobs[j].kind = "delete" /\ jobs[j].at = "delete" /\ DeleteSound(jobs[j])
  BY JobFacts DEF DeleteRows, Staged, JobSound, Ingestion, Reading
<1>2. t \in 1..3
  BY <1>1 DEF JobRecords
<1>3. jobs' = [jobs EXCEPT ![j] = b] /\ UNCHANGED <<lastId, index, ingests, done, failed, uncounted, raced>>
  BY DEF DeleteRows, Goto, Order
<1>4. b \in JobRecords /\ Staged(b) /\ b.kind \in {"delete", "none"}
      /\ (b.kind = "delete" => t # 3 /\ b.name = n /\ b.table = t + 1)
  <2>1. CASE t = 3
    BY <2>1, NoJobSound DEF NoJob
  <2>2. CASE t # 3
    <3>1. b = [jobs[j] EXCEPT !.table = @ + 1] /\ t + 1 \in 1..3
      BY <1>2, <2>2
    <3>2. b \in JobRecords /\ b.kind = "delete" /\ b.at = "delete" /\ b.name = n /\ b.table = t + 1
      BY <1>1, <3>1 DEF JobRecords
    <3> QED
      BY <2>2, <3>2 DEF Staged
  <2> QED
    BY <2>1, <2>2
<1>5. rows \subseteq Docs /\ gone \subseteq Docs
  BY IngestFacts DEF RagInv, RowsTyped, RowsIn
<1>6. cleared \subseteq Docs /\ erased \subseteq Docs
  BY DEF RagInv, RowsTyped
<1>7. t = 1 => /\ chunks' = {x \in chunks : x.doc \notin rows} /\ cleared' = cleared \cup rows
               /\ UNCHANGED <<docs, collections, erased>>
  BY DEF DeleteRows, Order
<1>8. t = 2 => docs' = docs \ RowsIn(n) /\ UNCHANGED <<chunks, cleared, collections, erased>>
  BY DEF DeleteRows, Order
<1>9. t = 3 => collections' = collections \ Named(n) /\ erased' = erased \cup gone /\ UNCHANGED <<chunks, cleared, docs>>
  BY DEF DeleteRows, Order
<1>10. jobs'[j] = b
  BY <1>3, <1>4, OneJob
<1> HIDE DEF b, t, n
<1>11. /\ collections' \subseteq collections /\ docs' \subseteq docs /\ chunks' \subseteq chunks
       /\ cleared' \cup erased' \subseteq Docs /\ erased \subseteq erased'
       /\ \A r \in docs \ docs' : r \in RowsIn(n)
       /\ \A c \in collections \ collections' : c.name = n
       /\ \A i \in erased' : i \in erased \/ \E c \in collections \ collections' :
                                                i \in DOMAIN ingests /\ ingests[i].coll = c.id
  <2>1. CASE t = 1
    BY <1>5, <1>6, <1>7, <2>1
  <2>2. CASE t = 2
    BY <1>6, <1>8, <2>2
  <2>3. CASE t = 3
    <3> HIDE DEF rows
    <3>1. Named(n) \subseteq collections /\ \A c \in Named(n) : c.name = n
      BY DEF Named
    <3>2. collections \ collections' = Named(n)
      BY <1>9, <2>3, <3>1
    <3> QED
      BY <1>5, <1>6, <1>9, <2>3, <3>1, <3>2
  <2> QED
    BY <1>2, <2>1, <2>2, <2>3
<1>12. OrphansOnlyByRace'
  <2>1. CASE t = 1
    BY <1>3, <1>7, <2>1 DEF RagInv, OrphansOnlyByRace
  <2>2. CASE t = 2
    <3>1. \A r \in RowsIn(n) : r.id \in raced \/ \A x \in chunks : x.doc # r.id
      BY <1>1, <2>2 DEF DeleteSound, t, n
    <3>2. \A x \in chunks : x.doc \in raced \/ \E r \in docs' : r.id = x.doc
      BY <1>8, <2>2, <3>1 DEF RagInv, OrphansOnlyByRace
    <3> QED
      BY <1>3, <1>8, <2>2, <3>2 DEF RagInv, OrphansOnlyByRace
  <2>3. CASE t = 3
    <3>1. \A r \in RowsIn(n) : r.id \in raced
      BY <1>1, <2>3 DEF DeleteSound, t, n
    <3>2. \A r \in docs : r.id \in raced \/ \E c \in collections' : c.id = r.coll
      BY <1>9, <2>3, <3>1 DEF RagInv, OrphansOnlyByRace, RowsIn
    <3> QED
      BY <1>3, <1>9, <2>3, <3>2 DEF RagInv, OrphansOnlyByRace
  <2> QED
    BY <1>2, <2>1, <2>2, <2>3
<1>13. DeleteSound(jobs[j])'
  <2>1. jobs'[j].kind = "delete" => t \in {1, 2} /\ jobs'[j].name = n /\ jobs'[j].table = t + 1
    BY <1>2, <1>4, <1>10
  <2>2. CASE t = 1
    <3>1. ASSUME NEW m, m = n PROVE \A r \in RowsIn(m)' : \A x \in chunks' : x.doc # r.id
      BY <1>7, <2>2, <3>1 DEF RowsIn, Named
    <3>2. \A m : m = jobs'[j].name /\ m = n => \A r \in RowsIn(m)' : \A x \in chunks' : x.doc # r.id
      BY <3>1
    <3> QED
      BY <2>1, <2>2, <3>2 DEF DeleteSound
  <2>3. CASE t = 2
    <3>1. ASSUME NEW m, m = n PROVE RowsIn(m)' = {}
      BY <1>8, <2>3, <3>1 DEF RowsIn, Named
    <3> QED
      BY <2>1, <3>1 DEF DeleteSound
  <2>4. CASE t = 3
    BY <2>1, <2>4 DEF DeleteSound
  <2> QED
    BY <1>2, <2>2, <2>3, <2>4
<1> QED
  BY <1>1, <1>3, <1>4, <1>11, <1>12, <1>13, DeletionStep DEF n

-----------------------------------------------------------------------------
(* Every step, and the theorems *)

\* The server stops; what is in the file is what there is.
LEMMA RestartInv ==
    ASSUME RagInv, Restart
    PROVE  RagInv'
<1>1. jobs' = [k \in Jobs |-> NoJob] /\ vectors' = saved /\ UNCHANGED <<tables, saved, unsaved, history>>
  BY DEF Restart, HistoryStays, history
<1>2. JobsTyped' /\ \A k \in Jobs : jobs'[k] = NoJob
  BY <1>1, NoJobSound DEF JobsTyped
<1>3. CollectionsTyped' /\ RowsTyped' /\ IngestsTyped'
  BY <1>1 DEF RagInv, CollectionsTyped, RowsTyped, IngestsTyped, tables, history
<1>4. Histories' /\ OrphansOnlyByRace' /\ InFile'
  BY <1>1 DEF RagInv, RowsTyped, Histories, OrphansOnlyByRace, InFile, tables, history
<1>5. JobsSound'
  BY <1>2 DEF NoJob, JobsSound, JobSound, IngestSound, DeleteSound, QuerySound, Together
<1> QED
  BY <1>2, <1>3, <1>4, <1>5 DEF RagInv

\* The invariant holds at the start.
LEMMA InitRagInv == InitRag => RagInv
<1> SUFFICES ASSUME InitRag PROVE RagInv
  OBVIOUS
<1>1. CollectionsTyped /\ RowsTyped
  BY BoundAssumption DEF InitRag, CollectionsTyped, RowsTyped
<1>2. JobsTyped /\ \A j \in Jobs : jobs[j] = NoJob
  BY NoJobSound DEF InitRag, JobsTyped
<1>3. IngestsTyped
  BY BoundAssumption DEF InitRag, IngestsTyped
<1>4. Histories /\ OrphansOnlyByRace /\ InFile
  BY DEF InitRag, Histories, OrphansOnlyByRace, InFile
<1>5. JobsSound
  BY <1>2 DEF NoJob, JobsSound, JobSound, IngestSound, DeleteSound, QuerySound, Together
<1> QED
  BY <1>1, <1>2, <1>3, <1>4, <1>5 DEF RagInv

\* Every step keeps it.
LEMMA NextRagInv == RagInv /\ [NextRag]_ragVars => RagInv'
<1> SUFFICES ASSUME RagInv, [NextRag]_ragVars PROVE RagInv'
  OBVIOUS
<1>1. ASSUME NEW j \in Jobs, Ingest(j)
      PROVE  RagInv'
  BY <1>1, GetCollectionInv, AutoCreateInv, InsertDocumentInv, InsertChunkInv, ChunkFailsInv,
     EmbedChunkInv, CountChunksInv, SaveIndexInv DEF Ingest
<1>2. ASSUME NEW j \in Jobs, Search(j)
      PROVE  RagInv'
  BY <1>2, ReadChunkInv, ReadHomeInv, ReadNameInv, ReadFilenameInv, RankResultsInv, EndInv DEF Search
<1>3. ASSUME NEW n \in Collections, NEW size \in Sizes, CreateCollection(n, size)
      PROVE  RagInv'
  BY <1>3, CreateCollectionInv
<1>4. ASSUME NEW j \in Jobs, NEW n \in Collections, DeleteCollection(j, n) \/ \E file \in Files : IngestFile(j, n, file)
      PROVE  RagInv'
  BY <1>4, DeleteCollectionInv, IngestFileInv
<1>5. ASSUME NEW j \in Jobs, NEW n \in Collections \cup {AnyName}, Query(j, n)
      PROVE  RagInv'
  BY <1>5, QueryInv
<1>6. ASSUME NEW j \in Jobs, DeleteRows(j) \/ Fail(j)
      PROVE  RagInv'
  BY <1>6, DeleteRowsInv, EndInv
<1>7. CASE UNCHANGED ragVars
  <2>1. UNCHANGED <<tables, index, jobs, history>>
    BY <1>7 DEF ragVars, history
  <2>2. CollectionsTyped' /\ RowsTyped' /\ IngestsTyped' /\ JobsTyped'
    BY <2>1 DEF RagInv, CollectionsTyped, RowsTyped, IngestsTyped, JobsTyped, tables, index, history
  <2>3. Histories' /\ OrphansOnlyByRace' /\ InFile'
    BY <2>1 DEF RagInv, Histories, OrphansOnlyByRace, InFile, tables, index, history
  <2>4. ASSUME NEW k \in Jobs
        PROVE  JobSound(jobs[k])'
    <3>1. JobSound(jobs[k]) /\ jobs'[k] = jobs[k]
      BY <2>1, JobFacts
    <3> QED
      BY <2>1, <3>1 DEF JobSound, IngestSound, DeleteSound, QuerySound, Bare, Current, RowsIn, Named,
                        tables, index, history
  <2>5. \A k, l \in Jobs : k # l => Together(jobs[k], jobs[l])'
    BY <2>1 DEF RagInv, JobsSound, Together, history
  <2> QED
    BY <2>2, <2>3, <2>4, <2>5 DEF RagInv, JobsSound
<1> QED
  BY <1>1, <1>2, <1>3, <1>4, <1>5, <1>6, <1>7, RestartInv DEF NextRag

\* The invariant of the RAG store.
LEMMA SpecRagInv == SpecRag => []RagInv
BY InitRagInv, NextRagInv, PTL DEF SpecRag

\* Every variable has its type, and no two collections have the same id or name,
\* though the name is looked up and the row inserted in two statements
\* (store.go:190-204).
THEOREM RagTypeCorrect == SpecRag => []TypeOKRag
<1>1. ASSUME RagInv PROVE TypeOKRag
  <2>1. CollectionsTyped /\ RowsTyped /\ IngestsTyped /\ lastId \in Nat
    BY <1>1, IngestFacts DEF RagInv
  <2>2. /\ \A c \in collections : c.id \in 1..lastId /\ c.name \in Collections /\ c.size \in Nat \ {0}
        /\ \A c, e \in collections : c.id = e.id \/ c.name = e.name => c = e
        /\ lastId \in 0..MaxIds
    BY <2>1 DEF CollectionsTyped
  <2>3. docs \subseteq [id : Docs, coll : 1..lastId, count : Nat]
    BY <2>1 DEF RowsTyped
  <2>4. /\ \A x \in chunks : x.doc \in Docs /\ x.index \in Nat \ {0}
        /\ vectors \subseteq Docs \X Nat /\ saved \subseteq vectors
        /\ done \cup failed \cup uncounted \cup raced \cup cleared \cup erased \subseteq Docs
        /\ Len(ingests) <= MaxDocs
    BY <2>1 DEF RowsTyped, IngestsTyped, Keys
  <2>5. ASSUME NEW j \in Jobs
        PROVE  /\ jobs[j].kind \in {"none", "ingest", "delete", "query"} /\ jobs[j].name \in Collections \cup {AnyName}
               /\ jobs[j].kind = "ingest" => jobs[j].doc \in DOMAIN ingests
               /\ jobs[j].at \in {"document", "chunk", "vector", "save"} => ingests[jobs[j].doc].coll \in 1..lastId
               /\ jobs[j].kind = "delete" => jobs[j].table \in DOMAIN Order
               /\ jobs[j].hits \cup jobs[j].found \subseteq Docs \X Nat
    <3>1. jobs[j] \in JobRecords /\ IngestSound(jobs[j])
      BY <1>1, JobFacts DEF JobSound
    <3>2. ASSUME jobs[j].at \in {"document", "chunk", "vector", "save"}
          PROVE  ingests[jobs[j].doc].coll \in 1..lastId
      <4>1. jobs[j].kind = "ingest" /\ jobs[j].doc \in DOMAIN ingests
        BY <1>1, <3>2, IngestionFacts DEF Ingestion
      <4>2. ingests[jobs[j].doc].coll >= 1
        BY <3>1, <3>2, <4>1 DEF IngestSound
      <4>3. ingests[jobs[j].doc].coll <= lastId /\ ingests[jobs[j].doc].coll \in Nat
        BY <1>1, <4>1, IngestFacts DEF RagInv, Histories
      <4> QED
        BY <2>1, <4>2, <4>3
    <3>3. jobs[j].table \in DOMAIN Order
      BY <3>1 DEF JobRecords, Order
    <3> QED
      BY <3>1, <3>2, <3>3 DEF JobRecords, IngestSound, Keys
  <2> QED
    BY <2>2, <2>3, <2>4, <2>5 DEF TypeOKRag
<1> QED
  BY <1>1, SpecRagInv, PTL

\* Deletions and ingestions that stop or fail between two statements leave no
\* orphans: a chunk without a document, or a document without a collection, is of
\* an ingestion that overlapped a deletion (store.go:127-138).
THEOREM OrphansByRaceOnly == SpecRag => []OrphansOnlyByRace
<1>1. RagInv => OrphansOnlyByRace
  BY DEF RagInv
<1> QED
  BY <1>1, SpecRagInv, PTL

\* A query under a name answers with nothing of another collection, and nothing of
\* one that was deleted before it began (reranker.go:271-333).
THEOREM AnswersCurrent == SpecRag => []AnswersAreCurrent
<1>1. ASSUME RagInv PROVE AnswersAreCurrent
  <2>1. ASSUME NEW j \in Jobs, jobs[j].at = "results", jobs[j].name # AnyName, NEW hit \in jobs[j].found
        PROVE  ingests[hit[1]].name = jobs[j].name /\ hit[1] \notin jobs[j].dead
    <3>1. jobs[j].kind = "query" /\ QuerySound(jobs[j])
      BY <1>1, <2>1, JobFacts DEF Staged, JobSound, Ingestion
    <3> QED
      BY <2>1, <3>1 DEF QuerySound, Current
  <2> QED
    BY <2>1 DEF AnswersAreCurrent
<1> QED
  BY <1>1, SpecRagInv, PTL

\* What was answered for can be found, also after a restart (store.go:164-181).
THEOREM IngestedSearchable == SpecRag => []IngestedIsSearchable
<1>1. RagInv => IngestedIsSearchable
  BY DEF RagInv, InFile, RowsTyped, IngestedIsSearchable
<1> QED
  BY <1>1, SpecRagInv, PTL
-----------------------------------------------------------------------------
(* chunkText, and the text of its chunks one after the other               *)

\* A bounded set of naturals that is not empty has a greatest member.
LEMMA GreatestMember ==
    ASSUME NEW n \in Nat, NEW T \in SUBSET (0..n), T # {}
    PROVE  Greatest(T) \in T
<1> DEFINE D == {m \in Nat : m <= n /\ n - m \in T}
<1>1. D # {}
  <2>1. PICK x \in T : TRUE
    OBVIOUS
  <2>2. n - x \in Nat /\ n - x <= n /\ n - (n - x) = x
    OBVIOUS
  <2> QED
    BY <2>1, <2>2
<1>2. PICK m \in D : \A k \in D : m <= k
  BY <1>1, Least
<1>3. ASSUME NEW y \in T
      PROVE  n - m >= y
  <2>1. n - y \in Nat /\ n - y <= n /\ n - (n - y) = y
    OBVIOUS
  <2>2. n - y \in D
    BY <2>1
  <2> QED
    BY <1>2, <2>1, <2>2
<1>4. n - m \in T
  BY <1>2
<1> QED
  BY <1>3, <1>4 DEF Greatest

\* A piece is cut off a text, and there is something left of it only if the text is
\* longer than a chunk.
LEMMA CutWithin ==
    ASSUME NEW S, NEW text \in Seq(S), text # <<>>, NEW size \in Nat \ {0}
    PROVE  Cut(text, size) \in 1..Len(text)
<1> DEFINE late(k) == {i \in At(SubSeq(text, 1, size), Separators[k]) : i > size \div 2}
           found == {k \in DOMAIN Separators : late(k) # {}}
           best == CHOOSE k \in found : \A l \in found : k <= l
<1>1. Len(text) \in Nat \ {0}
  OBVIOUS
<1>2. CASE Len(text) <= size
  BY <1>1, <1>2 DEF Cut
<1>3. CASE ~(Len(text) <= size) /\ found = {}
  BY <1>1, <1>3 DEF Cut
<1>4. CASE ~(Len(text) <= size) /\ found # {}
  <2>1. DOMAIN Separators = 1..3 /\ \A k \in 1..3 : Len(Separators[k]) \in {1, 2}
    BY DEF Separators
  <2>2. best \in found
    <3>1. found \subseteq Nat
      BY <2>1
    <3> HIDE DEF found
    <3>2. \E k \in found : \A l \in found : k <= l
      BY <1>4, <3>1, Least
    <3> QED
      BY <3>2
  <2> HIDE DEF best
  <2>3. best \in 1..3 /\ late(best) # {}
    BY <2>1, <2>2
  <2>4. Len(SubSeq(text, 1, size)) = size
    BY <1>1, <1>4
  <2>5. \A i \in late(best) : i \in Nat /\ i + Len(Separators[best]) <= size
    BY <2>1, <2>3, <2>4 DEF At
  <2>6. late(best) \in SUBSET (0..size)
    BY <2>1, <2>3, <2>5
  <2> HIDE DEF late
  <2>7. Greatest(late(best)) \in late(best)
    BY <2>3, <2>6, GreatestMember
  <2>8. Cut(text, size) = Greatest(late(best)) + Len(Separators[best])
    BY <1>4 DEF Cut, best, late
  <2> DEFINE x == Greatest(late(best))
             l == Len(Separators[best])
  <2>9. x \in Nat /\ x + l <= size /\ l \in {1, 2}
    BY <2>1, <2>3, <2>5, <2>7
  <2> HIDE DEF x, l
  <2>10. x + l >= 1 /\ x + l <= Len(text) /\ x + l \in Nat
    BY <1>1, <1>4, <2>9
  <2> QED
    BY <2>8, <2>10 DEF x, l
<1> QED
  BY <1>2, <1>3, <1>4

\* f follows a chain of numbers down to 0 and collects a piece at each.
Collects(prev, piece, top, f) == f = [n \in 0..top |-> IF n = 0 THEN <<>> ELSE <<piece[n]>> \o f[prev[n]]]

LEMMA CollectsExists ==
    ASSUME NEW prev, NEW piece, \A n \in Nat \ {0} : prev[n] \in Nat /\ prev[n] < n
    PROVE  \A top \in Nat : \E f : Collects(prev, piece, top, f)
<1> DEFINE T == {n \in Nat : \E f : Collects(prev, piece, n, f)}
<1>1. 0 \in T
  <2> DEFINE f == [n \in 0..0 |-> <<>>]
  <2>1. Collects(prev, piece, 0, f)
    BY DEF Collects
  <2> QED
    BY <2>1
<1>2. ASSUME NEW top \in Nat, top \in T
      PROVE  top + 1 \in T
  <2>1. PICK f : Collects(prev, piece, top, f)
    BY <1>2
  <2> DEFINE g == [n \in 0..(top + 1) |-> IF n = top + 1 THEN <<piece[n]>> \o f[prev[n]] ELSE f[n]]
  <2>2. /\ f[0] = <<>>
        /\ \A n \in 0..top : n # 0 => f[n] = <<piece[n]>> \o f[prev[n]]
    <3>1. \A n \in 0..top : f[n] = IF n = 0 THEN <<>> ELSE <<piece[n]>> \o f[prev[n]]
      BY <2>1, Zenon DEF Collects
    <3>2. 0 \in 0..top
      OBVIOUS
    <3> QED
      BY <3>1, <3>2, Zenon
  <2>3. /\ g[top + 1] = <<piece[top + 1]>> \o f[prev[top + 1]]
        /\ \A n \in 0..top : g[n] = f[n]
    <3>1. top + 1 \in 0..(top + 1) /\ \A n \in 0..top : n \in 0..(top + 1) /\ n # top + 1
      OBVIOUS
    <3> QED
      BY <3>1, Zenon
  <2>4. g = [n \in 0..(top + 1) |-> g[n]]
    BY Zenon
  <2> HIDE DEF g
  <2>6. ASSUME NEW n \in 0..(top + 1)
        PROVE  g[n] = IF n = 0 THEN <<>> ELSE <<piece[n]>> \o g[prev[n]]
    <3>1. CASE n = 0
      <4>1. n \in 0..top
        BY <3>1
      <4> QED
        BY <2>2, <2>3, <3>1, <4>1, Zenon
    <3>2. CASE n # 0
      <4>1. prev[n] \in 0..top
        BY <3>2
      <4>2. n = top + 1 \/ n \in 0..top
        OBVIOUS
      <4> QED
        BY <2>2, <2>3, <3>2, <4>1, <4>2, Zenon
    <3> QED
      BY <3>1, <3>2
  <2>5. Collects(prev, piece, top + 1, g)
    BY <2>4, <2>6, Zenon DEF Collects
  <2> QED
    BY <2>5
<1> HIDE DEF T
<1>3. Nat \subseteq T
  BY <1>1, <1>2, Naturals
<1> QED
  BY <1>3 DEF T

\* f cuts the last n characters of a text, for any n, as chunkText does.
Chunking(f, text, size) ==
    f = [n \in 0..Len(text) |->
          LET rest == SubSeq(text, Len(text) - n + 1, Len(text))
              cut == Cut(rest, size)
          IN  IF n = 0 THEN <<>> ELSE <<SubSeq(rest, 1, cut)>> \o f[Left(rest, cut)]]

Ending(text, n) == SubSeq(text, Len(text) - n + 1, Len(text))
CutOf(text, n, size) == Cut(Ending(text, n), size)

LEMMA EndingFacts ==
    ASSUME NEW S, NEW text \in Seq(S), NEW size \in Nat \ {0}, NEW n \in 1..Len(text)
    PROVE  /\ Ending(text, n) \in Seq(S) /\ Len(Ending(text, n)) = n
           /\ CutOf(text, n, size) \in 1..n
           /\ Left(Ending(text, n), CutOf(text, n, size)) = n - CutOf(text, n, size)
           /\ SubSeq(Ending(text, n), 1, CutOf(text, n, size))
                = SubSeq(text, Len(text) - n + 1, Len(text) - n + CutOf(text, n, size))
<1> DEFINE rest == Ending(text, n)
           L == Len(text)
           cut == Cut(rest, size)
<1>1. L \in Nat /\ n \in 1..L /\ L - n + 1 \in 1..L /\ \A i \in 1..L : text[i] \in S
  OBVIOUS
<1>2. rest \in Seq(S) /\ Len(rest) = n /\ \A i \in 1..n : rest[i] = text[L - n + i]
  BY <1>1 DEF Ending
<1>3. cut \in 1..n
  <2>1. rest # <<>>
    BY <1>1, <1>2
  <2> HIDE DEF rest
  <2> QED
    BY <1>2, <2>1, CutWithin
<1> HIDE DEF cut
<1>4. SubSeq(rest, 1, cut) = SubSeq(text, L - n + 1, L - n + cut)
  BY <1>1, <1>2, <1>3 DEF Ending
<1>5. Left(rest, cut) = n - cut
  BY <1>2 DEF Left
<1> QED
  BY <1>2, <1>3, <1>4, <1>5 DEF cut, CutOf

LEMMA ChunkingExists ==
    ASSUME NEW S, NEW text \in Seq(S), NEW size \in Nat \ {0}
    PROVE  \E f : Chunking(f, text, size)
<1> DEFINE L == Len(text)
           prev == [n \in Nat |-> IF n \in 1..L THEN Left(Ending(text, n), CutOf(text, n, size)) ELSE 0]
           piece == [n \in Nat |-> SubSeq(Ending(text, n), 1, CutOf(text, n, size))]
<1>1. ASSUME NEW n \in Nat \ {0}
      PROVE  prev[n] \in Nat /\ prev[n] < n
  <2>1. CASE n \in 1..L
    <3>1. CutOf(text, n, size) \in 1..n /\ prev[n] = n - CutOf(text, n, size)
      BY <2>1, EndingFacts
    <3> HIDE DEF prev
    <3> QED
      BY <2>1, <3>1
  <2>2. CASE n \notin 1..L
    BY <2>2
  <2> QED
    BY <2>1, <2>2
<1>2. L \in Nat /\ \A n \in 0..L : n # 0 => n \in 1..L
  OBVIOUS
<1>3. \A n \in 1..L : /\ prev[n] = Left(Ending(text, n), CutOf(text, n, size))
                      /\ piece[n] = SubSeq(Ending(text, n), 1, CutOf(text, n, size))
  <2>1. \A n \in 1..L : n \in Nat
    OBVIOUS
  <2> QED
    BY <2>1, Zenon
<1> HIDE DEF prev, piece
<1>4. PICK f : Collects(prev, piece, L, f)
  BY <1>1, <1>2, CollectsExists
<1>5. f = [n \in 0..L |-> IF n = 0 THEN <<>> ELSE <<SubSeq(Ending(text, n), 1, CutOf(text, n, size))>>
                                                    \o f[Left(Ending(text, n), CutOf(text, n, size))]]
  BY <1>2, <1>3, <1>4, Zenon DEF Collects
<1> QED
  BY <1>5, Zenon DEF Chunking, Ending, CutOf

\* A chunk, and what follows it.
LEMMA ChunkingSteps ==
    ASSUME NEW S, NEW text \in Seq(S), NEW size \in Nat \ {0}, NEW f, Chunking(f, text, size)
    PROVE  /\ f[0] = <<>>
           /\ \A n \in 1..Len(text) :
                f[n] = <<SubSeq(text, Len(text) - n + 1, Len(text) - n + CutOf(text, n, size))>>
                         \o f[n - CutOf(text, n, size)]
<1>1. \A n \in 0..Len(text) :
        f[n] = IF n = 0 THEN <<>> ELSE <<SubSeq(Ending(text, n), 1, CutOf(text, n, size))>>
                                         \o f[Left(Ending(text, n), CutOf(text, n, size))]
  BY Zenon DEF Chunking, Ending, CutOf
<1>2. 0 \in 0..Len(text) /\ \A n \in 1..Len(text) : n \in 0..Len(text) /\ n # 0
  OBVIOUS
<1>3. \A n \in 1..Len(text) :
        f[n] = <<SubSeq(Ending(text, n), 1, CutOf(text, n, size))>>
                 \o f[Left(Ending(text, n), CutOf(text, n, size))]
  BY <1>1, <1>2, Zenon
<1>4. f[0] = <<>>
  BY <1>1, <1>2, Zenon
<1>5. ASSUME NEW n \in 1..Len(text)
      PROVE  f[n] = <<SubSeq(text, Len(text) - n + 1, Len(text) - n + CutOf(text, n, size))>>
                      \o f[n - CutOf(text, n, size)]
  <2>1. /\ Left(Ending(text, n), CutOf(text, n, size)) = n - CutOf(text, n, size)
        /\ SubSeq(Ending(text, n), 1, CutOf(text, n, size))
             = SubSeq(text, Len(text) - n + 1, Len(text) - n + CutOf(text, n, size))
    BY EndingFacts
  <2> QED
    BY <1>3, <2>1, Zenon
<1> QED
  BY <1>4, <1>5

\* The pieces of c are those of a text from a place on, one after the other: o is
\* where each of them ends.
Covers(c, text, from) ==
    \E o \in [0..Len(c) -> 0..Len(text)] :
        /\ o[0] = from /\ o[Len(c)] = Len(text)
        /\ \A i \in 1..Len(c) : o[i - 1] <= o[i] /\ c[i] = SubSeq(text, o[i - 1] + 1, o[i])

LEMMA CoversMore ==
    ASSUME NEW S, NEW text \in Seq(S), NEW c \in Seq(Seq(S)), NEW from \in 0..Len(text), NEW to \in 0..Len(text),
           from <= to, Covers(c, text, to)
    PROVE  LET d == <<SubSeq(text, from + 1, to)>> \o c
           IN  d \in Seq(Seq(S)) /\ Len(d) = Len(c) + 1 /\ Covers(d, text, from)
<1> DEFINE p == SubSeq(text, from + 1, to)
           d == <<p>> \o c
<1>1. PICK o \in [0..Len(c) -> 0..Len(text)] :
        /\ o[0] = to /\ o[Len(c)] = Len(text)
        /\ \A i \in 1..Len(c) : o[i - 1] <= o[i] /\ c[i] = SubSeq(text, o[i - 1] + 1, o[i])
  BY DEF Covers
<1> DEFINE u == [i \in 0..(Len(c) + 1) |-> IF i = 0 THEN from ELSE o[i - 1]]
<1>2. p \in Seq(S)
  <2>1. \A i \in 1..Len(text) : text[i] \in S
    OBVIOUS
  <2> QED
    BY <2>1
<1> HIDE DEF p
<1>3. d \in Seq(Seq(S)) /\ Len(d) = Len(c) + 1 /\ d[1] = p /\ \A i \in 1..Len(c) : d[i + 1] = c[i]
  BY <1>2
<1> HIDE DEF d
<1>4. Len(c) \in Nat /\ Len(text) \in Nat
  OBVIOUS
<1>5. /\ u[0] = from
      /\ \A i \in 0..Len(c) : u[i + 1] = o[i]
  BY <1>4
<1>6. u \in [0..(Len(c) + 1) -> 0..Len(text)]
  <2>1. \A i \in 0..(Len(c) + 1) : i # 0 => i - 1 \in 0..Len(c)
    BY <1>4
  <2>2. \A i \in 0..Len(c) : o[i] \in 0..Len(text)
    BY <1>1
  <2> QED
    BY <2>1, <2>2
<1> HIDE DEF u
<1>7. u[Len(c) + 1] = Len(text)
  BY <1>1, <1>4, <1>5
<1>8. ASSUME NEW i \in 1..(Len(c) + 1)
      PROVE  u[i - 1] <= u[i] /\ d[i] = SubSeq(text, u[i - 1] + 1, u[i])
  <2>1. CASE i = 1
    <3>1. u[0] = from /\ u[1] = to
      <4>1. 0 \in 0..Len(c) /\ 0 + 1 = 1
        BY <1>4
      <4> QED
        BY <1>1, <1>5, <4>1
    <3> QED
      BY <1>3, <2>1, <3>1 DEF p
  <2>2. CASE i # 1
    <3> DEFINE k == i - 1
    <3>1. k \in 1..Len(c) /\ k - 1 \in 0..Len(c) /\ k \in 0..Len(c) /\ i = k + 1 /\ (k - 1) + 1 = i - 1
      BY <1>4, <2>2
    <3>2. u[i] = o[k] /\ u[i - 1] = o[k - 1] /\ d[i] = c[k]
      BY <1>3, <1>5, <3>1
    <3> HIDE DEF k
    <3> QED
      BY <1>1, <3>1, <3>2
  <2> QED
    BY <2>1, <2>2
<1>9. Covers(d, text, from)
  BY <1>1, <1>3, <1>5, <1>6, <1>7, <1>8 DEF Covers
<1> QED
  BY <1>3, <1>9 DEF d, p

LEMMA ChunkingCovers ==
    ASSUME NEW S, NEW text \in Seq(S), NEW size \in Nat \ {0}, NEW f, Chunking(f, text, size)
    PROVE  \A n \in 0..Len(text) : f[n] \in Seq(Seq(S)) /\ Covers(f[n], text, Len(text) - n)
<1> DEFINE Good(n) == f[n] \in Seq(Seq(S)) /\ Covers(f[n], text, Len(text) - n)
           D == {n \in 0..Len(text) : ~Good(n)}
<1>1. Len(text) \in Nat
  OBVIOUS
<1>2. Good(0)
  <2> DEFINE o == [i \in 0..0 |-> Len(text)]
  <2>1. f[0] = <<>> /\ <<>> \in Seq(Seq(S)) /\ Len(<<>>) = 0
    BY ChunkingSteps
  <2>2. Covers(<<>>, text, Len(text) - 0)
    <3>1. o \in [0..Len(<<>>) -> 0..Len(text)] /\ o[0] = Len(text) - 0 /\ o[Len(<<>>)] = Len(text)
      BY <1>1, <2>1
    <3>2. \A i \in 1..Len(<<>>) : FALSE
      BY <2>1
    <3> HIDE DEF o
    <3> QED
      BY <3>1, <3>2 DEF Covers
  <2> QED
    BY <2>1, <2>2
<1> HIDE DEF Good
<1>3. ASSUME D # {}
      PROVE  FALSE
  <2>1. D \subseteq Nat
    BY <1>1
  <2>2. PICK n \in D : \A m \in D : n <= m
    BY <1>3, <2>1, Least
  <2>3. n \in 1..Len(text)
    BY <1>1, <1>2, <2>2
  <2> DEFINE cut == CutOf(text, n, size)
             m == n - cut
  <2>4. cut \in 1..n
    BY <2>3, EndingFacts
  <2>5. f[n] = <<SubSeq(text, Len(text) - n + 1, Len(text) - n + cut)>> \o f[m]
    BY <2>3, ChunkingSteps
  <2> HIDE DEF cut
  <2>6. m \in 0..Len(text) /\ m < n
    BY <2>3, <2>4
  <2>7. Good(m)
    BY <2>2, <2>3, <2>6
  <2>8. /\ Len(text) - n \in 0..Len(text) /\ Len(text) - m \in 0..Len(text) /\ Len(text) - n <= Len(text) - m
        /\ Len(text) - n + cut = Len(text) - m
    BY <2>3, <2>4
  <2> HIDE DEF m
  <2>9. Good(n)
    <3> DEFINE from == Len(text) - n
               to == Len(text) - m
    <3>1. f[m] \in Seq(Seq(S)) /\ Covers(f[m], text, to)
      BY <2>7 DEF Good
    <3>2. f[n] = <<SubSeq(text, from + 1, to)>> \o f[m]
      BY <2>5, <2>8
    <3>3. from \in 0..Len(text) /\ to \in 0..Len(text) /\ from <= to
      BY <2>8
    <3> HIDE DEF from, to
    <3>4. f[n] \in Seq(Seq(S)) /\ Covers(f[n], text, from)
      BY <3>1, <3>2, <3>3, CoversMore
    <3> QED
      BY <3>4 DEF Good, from
  <2>10. n \notin D
    BY <2>9
  <2> QED
    BY <2>2, <2>10
<1> QED
  BY <1>3 DEF Good

\* The chunks of a text are the text, piece by piece.
LEMMA ChunksCover ==
    ASSUME NEW S, NEW text \in Seq(S), NEW size \in Nat \ {0}
    PROVE  chunkText(text, size) \in Seq(Seq(S)) /\ Covers(chunkText(text, size), text, 0)
<1>1. CASE text = <<>>
  <2>1. chunkText(text, size) = <<text>>
    BY <1>1 DEF chunkText
  <2> DEFINE o == [i \in 0..1 |-> 0]
             c == <<text>>
  <2>2. c \in Seq(Seq(S)) /\ Len(c) = 1 /\ c[1] = text /\ Len(text) = 0
    BY <1>1
  <2>3. SubSeq(text, 1, 0) = text
    BY <1>1
  <2> HIDE DEF c
  <2>4. o \in [0..Len(c) -> 0..Len(text)] /\ \A i \in 0..1 : o[i] = 0
    BY <2>2
  <2> HIDE DEF o
  <2>5. \A i \in 1..Len(c) : i = 1
    BY <2>2
  <2>6. Covers(c, text, 0)
    BY <2>2, <2>3, <2>4, <2>5 DEF Covers
  <2> QED
    BY <2>1, <2>2, <2>6 DEF c
<1>2. CASE text # <<>>
  <2> DEFINE f == CHOOSE f : Chunking(f, text, size)
  <2>1. chunkText(text, size) = f[Len(text)]
    BY <1>2 DEF chunkText, Chunking
  <2>2. Chunking(f, text, size)
    BY ChunkingExists
  <2> HIDE DEF f
  <2>3. Len(text) \in 0..Len(text) /\ Len(text) - Len(text) = 0
    OBVIOUS
  <2> QED
    BY <2>1, <2>2, <2>3, ChunkingCovers
<1> QED
  BY <1>1, <1>2

\* f joins the first pieces, one after the other, for any number of them up to top.
Joins(piece, top, f) == f = [n \in 0..top |-> IF n = 0 THEN <<>> ELSE f[n - 1] \o piece[n]]

LEMMA JoinsExists ==
    ASSUME NEW piece
    PROVE  \A top \in Nat : \E f : Joins(piece, top, f)
<1> DEFINE T == {n \in Nat : \E f : Joins(piece, n, f)}
<1>1. 0 \in T
  <2> DEFINE f == [n \in 0..0 |-> <<>>]
  <2>1. Joins(piece, 0, f)
    BY DEF Joins
  <2> QED
    BY <2>1
<1>2. ASSUME NEW top \in Nat, top \in T
      PROVE  top + 1 \in T
  <2>1. PICK f : Joins(piece, top, f)
    BY <1>2
  <2> DEFINE g == [n \in 0..(top + 1) |-> IF n = top + 1 THEN f[top] \o piece[n] ELSE f[n]]
  <2>2. \A n \in 0..top : f[n] = IF n = 0 THEN <<>> ELSE f[n - 1] \o piece[n]
    BY <2>1, Zenon DEF Joins
  <2>3. g[top + 1] = f[top] \o piece[top + 1] /\ \A n \in 0..top : g[n] = f[n]
    <3>1. top + 1 \in 0..(top + 1) /\ \A n \in 0..top : n \in 0..(top + 1) /\ n # top + 1
      OBVIOUS
    <3> QED
      BY <3>1, Zenon
  <2>4. g = [n \in 0..(top + 1) |-> g[n]]
    BY Zenon
  <2> HIDE DEF g
  <2>5. ASSUME NEW n \in 0..(top + 1)
        PROVE  g[n] = IF n = 0 THEN <<>> ELSE g[n - 1] \o piece[n]
    <3>1. CASE n = top + 1
      <4>1. n # 0 /\ n - 1 = top /\ top \in 0..top
        BY <3>1
      <4> QED
        BY <2>3, <3>1, <4>1, Zenon
    <3>2. CASE n # top + 1
      <4>1. n \in 0..top /\ (n # 0 => n - 1 \in 0..top)
        BY <3>2
      <4> QED
        BY <2>2, <2>3, <4>1, Zenon
    <3> QED
      BY <3>1, <3>2
  <2>6. Joins(piece, top + 1, g)
    BY <2>4, <2>5, Zenon DEF Joins
  <2> QED
    BY <2>6
<1> HIDE DEF T
<1>3. Nat \subseteq T
  BY <1>1, <1>2, Naturals
<1> QED
  BY <1>3 DEF T

\* The pieces of a text, joined, are the text.
LEMMA JoinedWhole ==
    ASSUME NEW S, NEW text \in Seq(S), NEW c \in Seq(Seq(S)), Covers(c, text, 0), NEW piece, NEW f,
           \A i \in 1..Len(c) : piece[i] = c[i], Joins(piece, Len(c), f)
    PROVE  f[Len(c)] = text
<1>1. PICK o \in [0..Len(c) -> 0..Len(text)] :
        /\ o[0] = 0 /\ o[Len(c)] = Len(text)
        /\ \A i \in 1..Len(c) : o[i - 1] <= o[i] /\ c[i] = SubSeq(text, o[i - 1] + 1, o[i])
  BY DEF Covers
<1> DEFINE T == {n \in Nat : n <= Len(c) => f[n] = SubSeq(text, 1, o[n])}
<1>2. Len(c) \in Nat /\ Len(text) \in Nat /\ \A i \in 0..Len(c) : o[i] \in 0..Len(text)
  <2>1. \A i \in 0..Len(c) : o[i] \in 0..Len(text)
    BY <1>1, Zenon
  <2>2. Len(c) \in Nat /\ Len(text) \in Nat
    OBVIOUS
  <2> QED
    BY <2>1, <2>2, Zenon
<1>3. \A n \in 0..Len(c) : f[n] = IF n = 0 THEN <<>> ELSE f[n - 1] \o piece[n]
  BY Zenon DEF Joins
<1>4. 0 \in T
  <2>1. f[0] = <<>>
    <3>1. 0 \in 0..Len(c)
      BY <1>2
    <3> QED
      BY <1>3, <3>1, Zenon
  <2>2. SubSeq(text, 1, 0) = <<>>
    OBVIOUS
  <2> QED
    BY <1>1, <2>1, <2>2
<1>5. ASSUME NEW n \in Nat, n \in T
      PROVE  n + 1 \in T
  <2>1. CASE n + 1 > Len(c)
    BY <2>1, <1>2
  <2>2. CASE n + 1 <= Len(c)
    <3>1. n \in 0..Len(c) /\ n + 1 \in 1..Len(c) /\ n + 1 \in 0..Len(c) /\ n + 1 # 0 /\ (n + 1) - 1 = n
      BY <1>2, <2>2
    <3>2. f[n + 1] = f[n] \o c[n + 1]
      BY <1>3, <3>1, Zenon
    <3>3. f[n] = SubSeq(text, 1, o[n])
      BY <1>2, <1>5, <3>1
    <3>4. o[n] <= o[n + 1] /\ c[n + 1] = SubSeq(text, o[n] + 1, o[n + 1])
      BY <1>1, <3>1, Zenon
    <3>5. o[n] \in 0..Len(text) /\ o[n + 1] \in 0..Len(text)
      BY <1>2, <3>1
    <3>6. \A u, v \in 0..Len(text) : u <= v => SubSeq(text, 1, u) \o SubSeq(text, u + 1, v) = SubSeq(text, 1, v)
      BY <1>2
    <3>7. f[n + 1] = SubSeq(text, 1, o[n + 1])
      BY <3>2, <3>3, <3>4, <3>5, <3>6
    <3> QED
      BY <3>7
  <2> QED
    BY <1>2, <2>1, <2>2
<1> HIDE DEF T
<1>6. Nat \subseteq T
  BY <1>4, <1>5, Naturals
<1>7. f[Len(c)] = SubSeq(text, 1, Len(text))
  BY <1>1, <1>2, <1>6 DEF T
<1> QED
  BY <1>7

\* The rows of the first k chunks of a document.
Pieces(d, c, k) == {[doc |-> d, index |-> i, text |-> c[i]] : i \in 1..k}

\* A document whose rows are all the chunks of a text has the text, and as many rows.
LEMMA WholeRows ==
    ASSUME NEW S, NEW text \in Seq(S), NEW c \in Seq(Seq(S)), Covers(c, text, 0), NEW d,
           Rows(d) = Pieces(d, c, Len(c))
    PROVE  Cardinality(Rows(d)) = Len(c) /\ TextOf(d) = text
<1> DEFINE row(i) == [doc |-> d, index |-> i, text |-> c[i]]
<1>1. Len(c) \in Nat
  OBVIOUS
<1>2. Rows(d) = {row(i) : i \in 1..Len(c)} /\ \A i \in 1..Len(c) : row(i).index = i /\ row(i).text = c[i]
  BY DEF Pieces
<1> HIDE DEF row
<1>3. Cardinality(Rows(d)) = Len(c)
  <2> DEFINE g == [i \in 1..Len(c) |-> row(i)]
  <2>1. g \in Bijection(1..Len(c), Rows(d))
    <3>1. g \in [1..Len(c) -> Rows(d)]
      BY <1>2
    <3>2. \A a, b \in 1..Len(c) : g[a] = g[b] => a = b
      BY <1>2
    <3>3. \A x \in Rows(d) : \E i \in 1..Len(c) : g[i] = x
      BY <1>2
    <3> HIDE DEF g
    <3> QED
      BY <3>1, <3>2, <3>3 DEF Bijection, Injection, Surjection, IsInjective
  <2>2. ExistsBijection(1..Len(c), Rows(d))
    BY <2>1 DEF ExistsBijection
  <2> QED
    BY <1>1, <2>2, FS_CountingElements
<1> DEFINE piece == [n \in 1..Len(c) |-> (CHOOSE x \in Rows(d) : x.index = n).text]
<1>4. \A n \in 1..Len(c) : piece[n] = c[n]
  <2>1. ASSUME NEW n \in 1..Len(c)
        PROVE  (CHOOSE x \in Rows(d) : x.index = n) = row(n)
    <3>1. row(n) \in Rows(d) /\ row(n).index = n
      BY <1>2
    <3>2. \A x \in Rows(d) : x.index = n => x = row(n)
      BY <1>2
    <3> QED
      BY <3>1, <3>2
  <2> QED
    BY <1>2, <2>1
<1> DEFINE f == CHOOSE f : f = [n \in 0..Cardinality(Rows(d)) |->
                 IF n = 0 THEN <<>> ELSE f[n - 1] \o (CHOOSE x \in Rows(d) : x.index = n).text]
<1>5. TextOf(d) = f[Len(c)]
  BY <1>3 DEF TextOf
<1>6. Joins(piece, Len(c), f)
  <2>1. PICK h : Joins(piece, Len(c), h)
    BY <1>1, JoinsExists
  <2> DEFINE Text(n) == (CHOOSE x \in Rows(d) : x.index = n).text
  <2>2. \A n \in 0..Len(c) : n # 0 => piece[n] = Text(n)
    <3>1. \A n \in 0..Len(c) : n # 0 => n \in 1..Len(c)
      BY <1>1
    <3> QED
      BY <3>1, Zenon
  <2> HIDE DEF piece, Text
  <2>3. \A g : Joins(piece, Len(c), g) <=> g = [n \in 0..Len(c) |-> IF n = 0 THEN <<>> ELSE g[n - 1] \o Text(n)]
    <3>1. ASSUME NEW g
          PROVE  [n \in 0..Len(c) |-> IF n = 0 THEN <<>> ELSE g[n - 1] \o piece[n]]
                   = [n \in 0..Len(c) |-> IF n = 0 THEN <<>> ELSE g[n - 1] \o Text(n)]
      BY <2>2, Zenon
    <3> QED
      BY <3>1, Zenon DEF Joins
  <2>4. h = [n \in 0..Cardinality(Rows(d)) |-> IF n = 0 THEN <<>> ELSE h[n - 1] \o Text(n)]
    BY <1>3, <2>1, <2>3, Zenon
  <2>5. f = [n \in 0..Cardinality(Rows(d)) |-> IF n = 0 THEN <<>> ELSE f[n - 1] \o Text(n)]
    BY <2>4, Zenon DEF Text
  <2> QED
    BY <1>3, <2>3, <2>5, Zenon
<1> HIDE DEF f, piece
<1>7. f[Len(c)] = text
  BY <1>4, <1>6, JoinedWhole
<1> QED
  BY <1>3, <1>5, <1>7
-----------------------------------------------------------------------------
(* Documents are whole: WholeInv                                           *)

ChunksOf(d, size) == chunkText(ingests[d].file, size)
Unharmed(d) == d \notin failed \cup cleared

\* An ingestion has written the first of its chunks, and has counted those.
WholeJob(b) ==
    b.kind = "ingest" =>
        /\ b.at \in {"lookup", "create", "document"} => b.next = 1 /\ b.count = 0
        /\ b.at \in {"document", "chunk", "vector", "save"} => b.size \in Nat \ {0}
        /\ b.at \in {"chunk", "vector", "save"} /\ Unharmed(b.doc) =>
             /\ b.count <= Len(ChunksOf(b.doc, b.size))
             /\ Rows(b.doc) = Pieces(b.doc, ChunksOf(b.doc, b.size), b.count)
             /\ b.at = "chunk" => b.next = b.count + 1
             /\ b.at = "vector" => b.next = b.count
             /\ b.at = "save" => /\ b.count = Len(ChunksOf(b.doc, b.size))
                                 /\ b.doc \notin uncounted => \A r \in docs : r.id = b.doc => r.count = b.count

\* A document that was answered for has all the chunks of its file, of some size.
WholeDoc(r) ==
    r.id \in done /\ Unharmed(r.id) =>
        \E size \in Nat \ {0} :
            /\ Rows(r.id) = Pieces(r.id, ChunksOf(r.id, size), Len(ChunksOf(r.id, size)))
            /\ r.id \notin uncounted => r.count = Len(ChunksOf(r.id, size))

WholeInv ==
    /\ RagInv
    /\ \A j \in Jobs : WholeJob(jobs[j])
    /\ \A r \in docs : WholeDoc(r)

\* A step that is about document d, if any, leaves the others alone.
Apart(d) ==
    /\ \A i \in DOMAIN ingests : i \in DOMAIN ingests' /\ ingests'[i].file = ingests[i].file
    /\ \A i \in DOMAIN ingests \ {d} : Unharmed(i)' => Unharmed(i) /\ Rows(i)' = Rows(i)
    /\ uncounted \subseteq uncounted'
    /\ done' \subseteq done \cup {d}
    /\ \A r \in docs' : r \in docs \/ r.id = d

LEMMA ApartJobs ==
    ASSUME RagInv, NEW d, Apart(d), NEW k \in Jobs, WholeJob(jobs[k]), jobs[k].doc # d \/ jobs[k].kind # "ingest"
    PROVE  jobs'[k] = jobs[k] => WholeJob(jobs[k])'
<1> SUFFICES ASSUME jobs'[k] = jobs[k], jobs[k].kind = "ingest" PROVE WholeJob(jobs[k])'
  BY DEF WholeJob
<1> DEFINE e == jobs[k].doc
<1>1. e \in DOMAIN ingests /\ e # d
  BY JobFacts DEF JobSound, IngestSound
<1>2. /\ \A size : ChunksOf(e, size)' = ChunksOf(e, size)
      /\ Unharmed(e)' => Unharmed(e) /\ Rows(e)' = Rows(e)
      /\ \A r \in docs' : r.id = e => r \in docs
      /\ uncounted \subseteq uncounted'
  BY <1>1 DEF Apart, ChunksOf
<1> QED
  BY <1>2 DEF WholeJob

LEMMA ApartDocs ==
    ASSUME WholeInv, NEW d, Apart(d), NEW r \in docs', r.id # d
    PROVE  WholeDoc(r)'
<1>1. r \in docs /\ WholeDoc(r) /\ r.id \in DOMAIN ingests
  BY DEF WholeInv, Apart, RagInv, Histories
<1>2. /\ \A size : ChunksOf(r.id, size)' = ChunksOf(r.id, size)
      /\ Unharmed(r.id)' => Unharmed(r.id) /\ Rows(r.id)' = Rows(r.id)
      /\ r.id \in done' => r.id \in done
      /\ uncounted \subseteq uncounted'
  BY <1>1 DEF Apart, ChunksOf
<1> QED
  BY <1>1, <1>2 DEF WholeDoc

\* A step of no ingestion, though it may end one.
LEMMA WholeQuiet ==
    ASSUME WholeInv, RagInv', Apart(0), \A k \in Jobs : jobs'[k] = jobs[k] \/ jobs'[k].kind # "ingest"
    PROVE  WholeInv'
<1>1. ASSUME NEW k \in Jobs
      PROVE  WholeJob(jobs[k])'
  <2>1. CASE jobs'[k] = jobs[k]
    <3>1. jobs[k].doc # 0 \/ jobs[k].kind # "ingest"
      BY JobFacts, IngestFacts DEF WholeInv, JobSound, IngestSound
    <3> QED
      BY <2>1, <3>1, ApartJobs DEF WholeInv
  <2>2. CASE jobs'[k].kind # "ingest"
    BY <2>2 DEF WholeJob
  <2> QED
    BY <2>1, <2>2
<1>2. ASSUME NEW r \in docs'
      PROVE  WholeDoc(r)'
  <2>1. r.id # 0
    BY DEF RagInv, RowsTyped, Docs
  <2> QED
    BY <2>1, ApartDocs
<1> QED
  BY <1>1, <1>2 DEF WholeInv

\* A step of an ingestion.
LEMMA WholeStep ==
    ASSUME WholeInv, RagInv', NEW j \in Jobs, jobs[j].kind = "ingest", Apart(jobs[j].doc),
           \A k \in Jobs \ {j} : jobs'[k] = jobs[k],
           WholeJob(jobs[j])', \A r \in docs' : r.id = jobs[j].doc => WholeDoc(r)'
    PROVE  WholeInv'
<1>1. ASSUME NEW k \in Jobs \ {j}
      PROVE  WholeJob(jobs[k])'
  <2>1. jobs[k].doc # jobs[j].doc \/ jobs[k].kind # "ingest"
    BY DEF WholeInv, RagInv, JobsSound, Together
  <2> QED
    BY <2>1, ApartJobs DEF WholeInv
<1>2. \A r \in docs' : WholeDoc(r)'
  BY ApartDocs
<1> QED
  BY <1>1, <1>2 DEF WholeInv

\* The same, of one that was not answered for yet.
LEMMA WholeUndone ==
    ASSUME WholeInv, RagInv', NEW j \in Jobs, jobs[j].kind = "ingest", Apart(jobs[j].doc), UNCHANGED done,
           NEW b, jobs' = [jobs EXCEPT ![j] = b], WholeJob(jobs[j])'
    PROVE  WholeInv'
<1>1. \A k \in Jobs \ {j} : jobs'[k] = jobs[k]
  BY DEF WholeInv, RagInv, JobsTyped
<1>2. jobs[j].doc \notin done
  BY JobFacts DEF WholeInv, JobSound, IngestSound
<1>3. \A r \in docs' : r.id = jobs[j].doc => WholeDoc(r)'
  BY <1>2 DEF WholeDoc
<1> QED
  BY <1>1, <1>3, WholeStep

LEMMA FileChunks ==
    ASSUME NEW file \in Files, NEW size \in Nat \ {0}
    PROVE  /\ Len(chunkText(file, size)) \in Nat /\ DOMAIN chunkText(file, size) = 1..Len(chunkText(file, size))
           /\ \E S : /\ file \in Seq(S) /\ chunkText(file, size) \in Seq(Seq(S))
                    /\ Covers(chunkText(file, size), file, 0)
<1> DEFINE S == {file[i] : i \in DOMAIN file}
<1>1. file \in Seq(S)
  BY FileAssumption
<1> HIDE DEF S
<1>2. chunkText(file, size) \in Seq(Seq(S)) /\ Covers(chunkText(file, size), file, 0)
  BY <1>1, ChunksCover
<1> HIDE DEF chunkText
<1> QED
  BY <1>1, <1>2

\* What an ingestion is at, and how far it is.
LEMMA WholeFacts ==
    ASSUME WholeInv, NEW j \in Jobs, jobs[j].at \in Ingestion
    PROVE  /\ RagInv /\ jobs[j] \in JobRecords /\ jobs[j].kind = "ingest" /\ jobs[j].doc \in DOMAIN ingests
           /\ jobs[j].doc \notin done /\ jobs[j].at \in {"lookup", "create", "document"} => Bare(jobs[j].doc)
           /\ WholeJob(jobs[j])
<1>1. RagInv /\ WholeJob(jobs[j])
  BY DEF WholeInv
<1>2. /\ jobs[j] \in JobRecords /\ jobs[j].kind = "ingest" /\ IngestSound(jobs[j])
      /\ jobs[j].doc \in DOMAIN ingests /\ jobs[j].doc \notin done
  BY <1>1, IngestionFacts
<1> QED
  BY <1>1, <1>2 DEF IngestSound

\* The collection is found.
LEMMA IntoWhole ==
    ASSUME WholeInv, RagInv', NEW j \in Jobs, jobs[j].at \in {"lookup", "create"}, NEW c, c.size \in Nat \ {0},
           Into(j, c), UNCHANGED <<docs, chunks>>
    PROVE  WholeInv'
<1> DEFINE d == jobs[j].doc
           b == [jobs[j] EXCEPT !.at = "document", !.size = c.size]
           e == [ingests[d] EXCEPT !.coll = c.id]
<1>1. jobs' = [jobs EXCEPT ![j] = b] /\ ingests' = [ingests EXCEPT ![d].coll = c.id]
      /\ UNCHANGED <<index, done, failed, uncounted, raced, cleared, erased>>
  BY DEF Into, Goto
<1>2. /\ RagInv /\ jobs[j] \in JobRecords /\ jobs[j].kind = "ingest" /\ d \in DOMAIN ingests
      /\ WholeJob(jobs[j])
  BY WholeFacts DEF Ingestion
<1>3. jobs'[j] = b
  BY <1>1, <1>2 DEF RagInv, JobsTyped
<1>4. b.kind = "ingest" /\ b.at = "document" /\ b.doc = d /\ b.size = c.size /\ b.next = 1 /\ b.count = 0
  BY <1>2 DEF JobRecords, WholeJob
<1>5. e.file = ingests[d].file
  BY <1>2, IngestFacts DEF IngestRecords
<1>6. ingests' = [ingests EXCEPT ![d] = e]
  BY <1>1
<1> HIDE DEF e, b
<1>7. Apart(d)
  BY <1>1, <1>2, <1>5, <1>6, IngestFacts DEF Apart, Unharmed, Rows
<1>8. WholeJob(jobs[j])'
  BY <1>3, <1>4 DEF WholeJob
<1> QED
  BY <1>1, <1>2, <1>7, <1>8, WholeUndone

LEMMA GetCollectionWhole ==
    ASSUME WholeInv, RagInv', NEW j \in Jobs, GetCollection(j)
    PROVE  WholeInv'
<1>1. CASE \E c \in Named(jobs[j].name) : Into(j, c)
  <2>1. PICK c \in Named(jobs[j].name) : Into(j, c)
    BY <1>1
  <2>2. c.size \in Nat \ {0}
    BY DEF WholeInv, RagInv, CollectionsTyped, Named
  <2> QED
    BY <2>1, <2>2, IntoWhole DEF GetCollection, tables
<1>2. CASE ~ \E c \in Named(jobs[j].name) : Into(j, c)
  <2> DEFINE b == [jobs[j] EXCEPT !.at = "create"]
  <2>1. jobs[j].at = "lookup" /\ jobs' = [jobs EXCEPT ![j] = b]
        /\ UNCHANGED <<chunks, docs, ingests, done, failed, uncounted, cleared>>
    BY <1>2 DEF GetCollection, Goto, tables, HistoryStays
  <2>2. /\ RagInv /\ jobs[j] \in JobRecords /\ jobs[j].kind = "ingest" /\ WholeJob(jobs[j])
    BY <2>1, WholeFacts DEF Ingestion
  <2>3. jobs'[j] = b
    BY <2>1, <2>2 DEF RagInv, JobsTyped
  <2>4. b.kind = "ingest" /\ b.at = "create" /\ b.next = 1 /\ b.count = 0
    BY <2>1, <2>2 DEF JobRecords, WholeJob
  <2> HIDE DEF b
  <2>5. WholeJob(jobs[j])'
    BY <2>3, <2>4 DEF WholeJob
  <2>6. Apart(jobs[j].doc)
    BY <2>1 DEF Apart, Unharmed, Rows
  <2> QED
    BY <2>1, <2>2, <2>5, <2>6, WholeUndone
<1> QED
  BY <1>1, <1>2

LEMMA AutoCreateWhole ==
    ASSUME WholeInv, RagInv', NEW j \in Jobs, AutoCreate(j)
    PROVE  WholeInv'
<1>1. jobs[j].at = "create" /\ UNCHANGED <<docs, chunks>>
  BY DEF AutoCreate, Create
<1>2. Into(j, [id |-> FreshId, size |-> DefaultChunk])
  BY DEF AutoCreate
<1>3. [id |-> FreshId, size |-> DefaultChunk].size \in Nat \ {0}
  BY ChunkAssumption
<1> QED
  BY <1>1, <1>2, <1>3, IntoWhole

\* A document is asked for.
LEMMA IngestFileWhole ==
    ASSUME WholeInv, RagInv', NEW j \in Jobs, NEW n, NEW file, IngestFile(j, n, file)
    PROVE  WholeInv'
<1> DEFINE d == Len(ingests) + 1
           b == [NoJob EXCEPT !.kind = "ingest", !.at = "lookup", !.name = n, !.doc = d]
<1>1. jobs' = [jobs EXCEPT ![j] = b] /\ ingests' = Append(ingests, [name |-> n, file |-> file, coll |-> 0])
      /\ UNCHANGED <<docs, chunks, done, failed, uncounted, cleared>>
  BY DEF IngestFile, Ask, tables
<1>2. RagInv /\ Len(ingests) \in Nat /\ DOMAIN ingests = 1..Len(ingests)
  BY IngestFacts DEF WholeInv
<1>3. jobs'[j] = b /\ \A k \in Jobs \ {j} : jobs'[k] = jobs[k]
  BY <1>1, <1>2 DEF RagInv, JobsTyped
<1>4. b.kind = "ingest" /\ b.at = "lookup" /\ b.next = 1 /\ b.count = 0
  BY DEF NoJob
<1> HIDE DEF b
<1>5. \A i \in DOMAIN ingests : i \in DOMAIN ingests' /\ ingests'[i] = ingests[i]
  BY <1>1, <1>2 DEF RagInv, IngestsTyped
<1>6. Apart(0)
  BY <1>1, <1>2, <1>5 DEF Apart, Unharmed, Rows
<1>7. ASSUME NEW k \in Jobs
      PROVE  WholeJob(jobs[k])'
  <2>1. CASE k = j
    BY <1>3, <1>4, <2>1 DEF WholeJob
  <2>2. CASE k # j
    <3>1. jobs[k].doc # 0 \/ jobs[k].kind # "ingest"
      BY JobFacts, IngestFacts DEF WholeInv, JobSound, IngestSound
    <3> QED
      BY <1>3, <1>6, <2>2, <3>1, ApartJobs DEF WholeInv
  <2> QED
    BY <2>1, <2>2
<1>8. \A r \in docs' : WholeDoc(r)'
  <2>1. \A r \in docs' : r.id # 0
    BY DEF RagInv, RowsTyped, Docs
  <2> QED
    BY <1>6, <2>1, ApartDocs
<1> QED
  BY <1>7, <1>8 DEF WholeInv

\* What is to be shown of an ingestion that has its row.
LEMMA WholeNow ==
    ASSUME NEW j \in Jobs, NEW b, jobs'[j] = b, b.at \in {"chunk", "vector", "save"}, b.size \in Nat \ {0},
           NEW c, c = chunkText(ingests'[b.doc].file, b.size),
           b.doc \notin failed' \cup cleared' =>
             /\ b.count <= Len(c)
             /\ {x \in chunks' : x.doc = b.doc} = Pieces(b.doc, c, b.count)
             /\ b.at = "chunk" => b.next = b.count + 1
             /\ b.at = "vector" => b.next = b.count
             /\ b.at = "save" => /\ b.count = Len(c)
                                 /\ b.doc \notin uncounted' => \A r \in docs' : r.id = b.doc => r.count = b.count
    PROVE  WholeJob(jobs[j])'
<1>1. Rows(jobs[j].doc)' = {x \in chunks' : x.doc = b.doc}
  BY DEF Rows
<1>2. ChunksOf(jobs[j].doc, jobs[j].size)' = c
  BY DEF ChunksOf
<1>3. b.at \notin {"lookup", "create", "document"}
  OBVIOUS
<1> QED
  BY <1>1, <1>2, <1>3 DEF WholeJob, Unharmed

LEMMA InsertDocumentWhole ==
    ASSUME WholeInv, RagInv', NEW j \in Jobs, InsertDocument(j)
    PROVE  WholeInv'
<1> DEFINE d == jobs[j].doc
           b == [jobs[j] EXCEPT !.at = "chunk"]
           row == [id |-> d, coll |-> ingests[d].coll, count |-> 0]
<1>1. jobs[j].at = "document" /\ docs' = docs \cup {row} /\ jobs' = [jobs EXCEPT ![j] = b]
      /\ UNCHANGED <<chunks, ingests, done, failed, uncounted, cleared>>
  BY DEF InsertDocument, Goto, HistoryStays
<1>2. /\ RagInv /\ jobs[j] \in JobRecords /\ jobs[j].kind = "ingest" /\ d \in DOMAIN ingests
      /\ WholeJob(jobs[j]) /\ Bare(d)
  <2>1. jobs[j].at \in Ingestion /\ jobs[j].at \in {"lookup", "create", "document"}
    BY <1>1 DEF Ingestion
  <2>2. IngestSound(jobs[j])
    BY <2>1, IngestionFacts DEF WholeInv
  <2>3. Bare(jobs[j].doc)
    BY <2>1, <2>2, WholeFacts DEF IngestSound
  <2> QED
    BY <2>1, <2>3, WholeFacts
<1>3. jobs'[j] = b
  BY <1>1, <1>2 DEF RagInv, JobsTyped
<1>4. /\ b.kind = "ingest" /\ b.at = "chunk" /\ b.doc = d /\ b.size \in Nat \ {0}
      /\ b.next = 1 /\ b.count = 0
  BY <1>1, <1>2 DEF JobRecords, WholeJob
<1>5. row.id = d
  OBVIOUS
<1> HIDE DEF row, b, d
<1>6. Apart(d)
  BY <1>1, <1>5 DEF Apart, Unharmed, Rows
<1>7. WholeJob(jobs[j])'
  <2> DEFINE c == chunkText(ingests[d].file, b.size)
  <2>1. {x \in chunks' : x.doc = d} = {} /\ Pieces(d, c, 0) = {}
    BY <1>1, <1>2 DEF Bare, Pieces
  <2>2. Len(c) \in Nat
    <3>1. ingests[d].file \in Files
      BY <1>2, IngestFacts DEF IngestRecords
    <3> QED
      BY <1>4, <3>1, FileChunks
  <2>3. c = chunkText(ingests'[b.doc].file, b.size)
    BY <1>1, <1>4
  <2> HIDE DEF c
  <2> QED
    BY <1>3, <1>4, <2>1, <2>2, <2>3, WholeNow
<1> QED
  BY <1>1, <1>2, <1>6, <1>7, WholeUndone DEF d

LEMMA InsertChunkWhole ==
    ASSUME WholeInv, RagInv', NEW j \in Jobs, InsertChunk(j)
    PROVE  WholeInv'
<1> DEFINE d == jobs[j].doc
           b == [jobs[j] EXCEPT !.at = "vector", !.count = @ + 1]
           c == chunkText(ingests[d].file, jobs[j].size)
           row == [doc |-> d, index |-> jobs[j].next, text |-> c[jobs[j].next]]
<1>1. jobs[j].at = "chunk" /\ jobs[j].next \in DOMAIN c /\ chunks' = chunks \cup {row}
      /\ jobs' = [jobs EXCEPT ![j] = b] /\ UNCHANGED <<docs, ingests, done, failed, uncounted, cleared>>
  BY DEF InsertChunk, Chunked, Goto, HistoryStays
<1>2. RagInv /\ jobs[j] \in JobRecords /\ jobs[j].kind = "ingest" /\ d \in DOMAIN ingests /\ WholeJob(jobs[j])
  BY <1>1, WholeFacts DEF Ingestion
<1>3. jobs'[j] = b
  BY <1>1, <1>2 DEF RagInv, JobsTyped
<1>4. /\ b.at = "vector" /\ b.doc = d /\ b.size = jobs[j].size /\ b.size \in Nat \ {0}
      /\ b.count = jobs[j].count + 1 /\ jobs[j].count \in Nat /\ b.next = jobs[j].next
  BY <1>1, <1>2 DEF JobRecords, WholeJob
<1>5. DOMAIN c = 1..Len(c) /\ Len(c) \in Nat
  <2>1. ingests[d].file \in Files
    BY <1>2, IngestFacts DEF IngestRecords
  <2> QED
    BY <1>4, <2>1, FileChunks
<1>6. Unharmed(d) => /\ Rows(d) = Pieces(d, c, jobs[j].count)
                     /\ jobs[j].next = jobs[j].count + 1
  BY <1>1, <1>2 DEF WholeJob, ChunksOf
<1>7. row.doc = d
  OBVIOUS
<1>8. ASSUME Unharmed(d)
      PROVE  b.count <= Len(c) /\ {x \in chunks' : x.doc = d} = Pieces(d, c, b.count) /\ b.next = b.count
  <2>1. jobs[j].next = b.count /\ b.count <= Len(c)
    BY <1>1, <1>4, <1>5, <1>6, <1>8
  <2>2. {x \in chunks' : x.doc = d} = Rows(d) \cup {row}
    BY <1>1, <1>7 DEF Rows
  <2>3. row = [doc |-> d, index |-> b.count, text |-> c[b.count]]
    BY <2>1
  <2> HIDE DEF row, b, c, d
  <2>4. 1..b.count = (1..jobs[j].count) \cup {b.count}
    BY <1>4
  <2>5. Pieces(d, c, b.count) = Pieces(d, c, jobs[j].count) \cup {row}
    BY <2>3, <2>4, Zenon DEF Pieces
  <2> QED
    BY <1>4, <1>6, <1>8, <2>1, <2>2, <2>5
<1> HIDE DEF row, b, d
<1>9. Apart(d)
  BY <1>1, <1>7 DEF Apart, Unharmed, Rows
<1>10. WholeJob(jobs[j])'
  <2>1. c = chunkText(ingests'[b.doc].file, b.size)
    BY <1>1, <1>4
  <2>2. d \notin failed' \cup cleared' => Unharmed(d)
    BY <1>1 DEF Unharmed
  <2> HIDE DEF c
  <2> QED
    BY <1>3, <1>4, <1>8, <2>1, <2>2, WholeNow
<1> QED
  BY <1>1, <1>2, <1>9, <1>10, WholeUndone DEF d

LEMMA ChunkFailsWhole ==
    ASSUME WholeInv, RagInv', NEW j \in Jobs, ChunkFails(j)
    PROVE  WholeInv'
<1> DEFINE d == jobs[j].doc
           b == [jobs[j] EXCEPT !.next = @ + 1]
<1>1. jobs[j].at = "chunk" /\ jobs' = [jobs EXCEPT ![j] = b] /\ failed' = failed \cup {d}
      /\ UNCHANGED <<chunks, docs, ingests, done, uncounted, cleared>>
  <2>1. jobs' = [jobs EXCEPT ![j].next = @ + 1]
    BY DEF ChunkFails
  <2> QED
    BY <2>1 DEF ChunkFails, tables
<1>2. RagInv /\ jobs[j] \in JobRecords /\ jobs[j].kind = "ingest" /\ WholeJob(jobs[j])
  BY <1>1, WholeFacts DEF Ingestion
<1>3. jobs'[j] = b
  BY <1>1, <1>2 DEF RagInv, JobsTyped
<1>4. b.at = "chunk" /\ b.doc = d /\ b.size \in Nat \ {0}
  BY <1>1, <1>2 DEF JobRecords, WholeJob
<1> HIDE DEF b, d
<1>5. Apart(d)
  BY <1>1 DEF Apart, Unharmed, Rows
<1>6. WholeJob(jobs[j])'
  BY <1>1, <1>3, <1>4, WholeNow
<1> QED
  BY <1>1, <1>2, <1>5, <1>6, WholeUndone DEF d

LEMMA EmbedChunkWhole ==
    ASSUME WholeInv, RagInv', NEW j \in Jobs, EmbedChunk(j)
    PROVE  WholeInv'
<1> DEFINE d == jobs[j].doc
           b == [jobs[j] EXCEPT !.at = "chunk", !.next = @ + 1]
           c == chunkText(ingests[d].file, jobs[j].size)
<1>1. jobs[j].at = "vector" /\ jobs' = [jobs EXCEPT ![j].at = "chunk", ![j].next = @ + 1]
      /\ UNCHANGED <<chunks, docs, ingests, done, failed, uncounted, cleared>>
  BY DEF EmbedChunk, HistoryStays, tables
<1>2. RagInv /\ jobs[j] \in JobRecords /\ jobs[j].kind = "ingest" /\ WholeJob(jobs[j])
  BY <1>1, WholeFacts DEF Ingestion
<1>3. jobs' = [jobs EXCEPT ![j] = b]
  BY <1>1, <1>2 DEF RagInv, JobsTyped, JobRecords
<1>4. jobs'[j] = b
  BY <1>2, <1>3 DEF RagInv, JobsTyped
<1>5. /\ b.at = "chunk" /\ b.doc = d /\ b.size = jobs[j].size /\ b.size \in Nat \ {0}
      /\ b.count = jobs[j].count /\ b.next = jobs[j].next + 1
  BY <1>1, <1>2 DEF JobRecords, WholeJob
<1>6. Unharmed(d) => /\ Rows(d) = Pieces(d, c, jobs[j].count) /\ jobs[j].count <= Len(c)
                     /\ jobs[j].next = jobs[j].count
  BY <1>1, <1>2 DEF WholeJob, ChunksOf
<1> HIDE DEF b, d
<1>7. Apart(d)
  BY <1>1 DEF Apart, Unharmed, Rows
<1>8. WholeJob(jobs[j])'
  <2>1. c = chunkText(ingests'[b.doc].file, b.size)
    BY <1>1, <1>5
  <2>2. d \notin failed' \cup cleared' => Unharmed(d) /\ {x \in chunks' : x.doc = d} = Rows(d)
    BY <1>1 DEF Unharmed, Rows
  <2> HIDE DEF c
  <2> QED
    BY <1>4, <1>5, <1>6, <2>1, <2>2, WholeNow
<1> QED
  BY <1>1, <1>2, <1>3, <1>7, <1>8, WholeUndone DEF d

LEMMA CountChunksWhole ==
    ASSUME WholeInv, RagInv', NEW j \in Jobs, CountChunks(j)
    PROVE  WholeInv'
<1> DEFINE d == jobs[j].doc
           b == [jobs[j] EXCEPT !.at = "save"]
           c == chunkText(ingests[d].file, jobs[j].size)
<1>0. PICK written \in BOOLEAN :
        /\ docs' = IF written THEN {IF r.id = d THEN [r EXCEPT !.count = jobs[j].count] ELSE r : r \in docs} ELSE docs
        /\ uncounted' = IF written THEN uncounted ELSE uncounted \cup {d}
  BY DEF CountChunks
<1> DEFINE counted(r) == IF written /\ r.id = d THEN [r EXCEPT !.count = jobs[j].count] ELSE r
<1>1. jobs[j].at = "chunk" /\ jobs[j].next \notin DOMAIN c
      /\ jobs' = [jobs EXCEPT ![j] = b] /\ UNCHANGED <<chunks, ingests, done, failed, cleared>>
  BY DEF CountChunks, Chunked
<1>12. docs' = {counted(r) : r \in docs}
  BY <1>0
<1>2. RagInv /\ jobs[j] \in JobRecords /\ jobs[j].kind = "ingest" /\ d \in DOMAIN ingests /\ WholeJob(jobs[j])
  BY <1>1, WholeFacts DEF Ingestion
<1>3. jobs'[j] = b
  BY <1>1, <1>2 DEF RagInv, JobsTyped
<1>4. /\ b.at = "save" /\ b.doc = d /\ b.size = jobs[j].size /\ b.size \in Nat \ {0}
      /\ b.count = jobs[j].count /\ jobs[j].count \in Nat /\ jobs[j].next \in Nat
  BY <1>1, <1>2 DEF JobRecords, WholeJob
<1>5. DOMAIN c = 1..Len(c) /\ Len(c) \in Nat
  <2>1. ingests[d].file \in Files
    BY <1>2, IngestFacts DEF IngestRecords
  <2> QED
    BY <1>4, <2>1, FileChunks
<1>6. Unharmed(d) => /\ Rows(d) = Pieces(d, c, jobs[j].count) /\ jobs[j].count <= Len(c)
                     /\ jobs[j].next = jobs[j].count + 1
  BY <1>1, <1>2 DEF WholeJob, ChunksOf
<1>7. Unharmed(d) => jobs[j].count = Len(c)
  <2> HIDE DEF c
  <2> QED
    BY <1>1, <1>4, <1>5, <1>6
<1>8. \A r \in docs : r \in [id : Docs, coll : Nat \ {0}, count : Nat]
  BY <1>2 DEF RagInv, RowsTyped
<1>9. \A r \in docs : /\ counted(r).id = r.id
                      /\ r.id = d /\ written => counted(r).count = jobs[j].count
                      /\ r.id # d => counted(r) = r
  BY <1>8
<1> HIDE DEF b, d, counted
<1>10. Apart(d)
  BY <1>0, <1>1, <1>9, <1>12 DEF Apart, Unharmed, Rows
<1>11. WholeJob(jobs[j])'
  <2>1. c = chunkText(ingests'[b.doc].file, b.size)
    BY <1>1, <1>4
  <2>2. d \notin failed' \cup cleared' => Unharmed(d) /\ {x \in chunks' : x.doc = d} = Rows(d)
    BY <1>1 DEF Unharmed, Rows
  <2>3. d \notin uncounted' => \A r \in docs' : r.id = d => r.count = b.count
    BY <1>0, <1>4, <1>9, <1>12
  <2> HIDE DEF c
  <2> QED
    BY <1>3, <1>4, <1>6, <1>7, <2>1, <2>2, <2>3, WholeNow
<1> QED
  BY <1>1, <1>2, <1>10, <1>11, WholeUndone DEF d

\* The document is answered for.
LEMMA SaveIndexWhole ==
    ASSUME WholeInv, RagInv', NEW j \in Jobs, SaveIndex(j)
    PROVE  WholeInv'
<1> DEFINE d == jobs[j].doc
<1>1. jobs[j].at = "save" /\ jobs' = [jobs EXCEPT ![j] = NoJob] /\ done' = done \cup {d}
      /\ UNCHANGED <<chunks, docs, ingests, failed, uncounted, cleared>>
  BY DEF SaveIndex, tables
<1>2. RagInv /\ jobs[j] \in JobRecords /\ jobs[j].kind = "ingest" /\ WholeJob(jobs[j])
  BY <1>1, WholeFacts DEF Ingestion
<1>3. jobs'[j] = NoJob /\ \A k \in Jobs \ {j} : jobs'[k] = jobs[k]
  BY <1>1, <1>2 DEF RagInv, JobsTyped
<1>4. WholeJob(jobs[j])'
  BY <1>3 DEF WholeJob, NoJob
<1>5. Apart(d)
  BY <1>1 DEF Apart, Unharmed, Rows
<1>6. ASSUME NEW r \in docs', r.id = d
      PROVE  WholeDoc(r)'
  <2> DEFINE size == jobs[j].size
             c == chunkText(ingests[d].file, size)
  <2>1. size \in Nat \ {0}
    BY <1>1, <1>2 DEF WholeJob
  <2>2. Unharmed(d) => Rows(d) = Pieces(d, c, Len(c)) /\ (d \notin uncounted => r.count = Len(c))
    BY <1>1, <1>2, <1>6 DEF WholeJob, ChunksOf
  <2>3. /\ Unharmed(r.id)' = Unharmed(r.id) /\ Rows(r.id)' = Rows(r.id) /\ uncounted' = uncounted
        /\ \A s : ChunksOf(r.id, s)' = ChunksOf(r.id, s)
    BY <1>1 DEF Unharmed, Rows, ChunksOf
  <2>4. c = ChunksOf(r.id, size)
    BY <1>6 DEF ChunksOf
  <2> HIDE DEF d, c, size
  <2> QED
    BY <1>6, <2>1, <2>2, <2>3, <2>4 DEF WholeDoc
<1> QED
  BY <1>2, <1>3, <1>4, <1>5, <1>6, WholeStep

\* Steps that are about no document.
LEMMA DeleteRowsWhole ==
    ASSUME WholeInv, RagInv', NEW j \in Jobs, DeleteRows(j)
    PROVE  WholeInv'
<1> DEFINE rows == {d.id : d \in RowsIn(jobs[j].name)}
           table == Order[jobs[j].table]
<1>1. /\ chunks' = IF table = "chunks" THEN {x \in chunks : x.doc \notin rows} ELSE chunks
      /\ cleared' = IF table = "chunks" THEN cleared \cup rows ELSE cleared
      /\ docs' \subseteq docs
      /\ UNCHANGED <<ingests, done, failed, uncounted>>
  BY DEF DeleteRows
<1>2. jobs[j].at = "delete"
  BY DEF DeleteRows
<1>3. \E b : jobs' = [jobs EXCEPT ![j] = b] /\ b.kind # "ingest"
  <2>1. jobs' = [jobs EXCEPT ![j] = NoJob] \/ jobs' = [jobs EXCEPT ![j] = [jobs[j] EXCEPT !.table = @ + 1]]
    BY DEF DeleteRows, Goto
  <2>2. jobs[j] \in JobRecords /\ jobs[j].kind = "delete"
    BY <1>2, JobFacts DEF WholeInv, Staged, Ingestion, Reading
  <2>3. [jobs[j] EXCEPT !.table = @ + 1].kind = "delete" /\ NoJob.kind = "none"
    BY <2>2 DEF JobRecords, NoJob
  <2> QED
    BY <2>1, <2>3
<1> HIDE DEF rows, table
<1>4. Apart(0)
  BY <1>1 DEF Apart, Unharmed, Rows
<1>5. \A k \in Jobs : jobs'[k] = jobs[k] \/ jobs'[k].kind # "ingest"
  BY <1>3 DEF WholeInv, RagInv, JobsTyped
<1> QED
  BY <1>4, <1>5, WholeQuiet

\* What leaves the tables, and what is noted, alone.
LEMMA StillWhole ==
    ASSUME WholeInv, RagInv', UNCHANGED <<docs, chunks, ingests, done, failed, uncounted, cleared>>,
           \A k \in Jobs : jobs'[k] = jobs[k] \/ jobs'[k].kind # "ingest"
    PROVE  WholeInv'
<1>1. Apart(0)
  BY DEF Apart, Unharmed, Rows
<1> QED
  BY <1>1, WholeQuiet

LEMMA QueryWhole ==
    ASSUME WholeInv, RagInv', NEW j \in Jobs,
           Search(j) \/ Fail(j) \/ (\E n : DeleteCollection(j, n) \/ Query(j, n))
    PROVE  WholeInv'
<1>1. UNCHANGED <<docs, chunks, ingests, done, failed, uncounted, cleared>>
  BY DEF Search, ReadChunk, ReadHome, ReadName, ReadHit, ReadFilename, RankResults, AnswerQuery, Fail,
         DeleteCollection, Query, HistoryStays, tables
<1>2. jobs \in [Jobs -> JobRecords]
  BY DEF WholeInv, RagInv, JobsTyped
<1>3. \E b : jobs' = [jobs EXCEPT ![j] = b] /\ b.kind # "ingest"
  <2>1. CASE Fail(j) \/ AnswerQuery(j)
    <3>1. jobs' = [jobs EXCEPT ![j] = NoJob]
      BY <2>1 DEF Fail, AnswerQuery, Goto
    <3>2. NoJob.kind = "none"
      BY DEF NoJob
    <3> QED
      BY <3>1, <3>2
  <2>2. CASE \E n : DeleteCollection(j, n)
    <3>1. PICK n : jobs' = [jobs EXCEPT ![j] = [NoJob EXCEPT !.kind = "delete", !.at = "delete", !.name = n]]
      BY <2>2 DEF DeleteCollection, Ask
    <3>2. [NoJob EXCEPT !.kind = "delete", !.at = "delete", !.name = n].kind = "delete"
      BY DEF NoJob
    <3> QED
      BY <3>1, <3>2
  <2>4. CASE \E n : Query(j, n)
    <3>1. PICK n, hits : jobs' = [jobs EXCEPT ![j] = [NoJob EXCEPT !.kind = "query", !.at = "read", !.name = n,
                                                                  !.hits = hits, !.dead = erased]]
      BY <2>4 DEF Query, Ask
    <3>2. [NoJob EXCEPT !.kind = "query", !.at = "read", !.name = n, !.hits = hits, !.dead = erased].kind = "query"
      BY DEF NoJob
    <3> QED
      BY <3>1, <3>2
  <2>3. CASE Search(j) /\ ~AnswerQuery(j)
    <3>1. jobs[j].at \in Reading
      BY <2>3 DEF Search, ReadChunk, ReadHome, ReadName, ReadFilename, RankResults, Reading
    <3>2. jobs[j] \in JobRecords /\ jobs[j].kind = "query"
      BY <3>1, JobFacts DEF WholeInv, Staged, Ingestion, Reading
    <3>3. CASE \E hit \in jobs[j].hits : ReadChunk(j, hit)
      <4>1. PICK hit, at : jobs' = [jobs EXCEPT ![j] = [jobs[j] EXCEPT !.hits = @ \ {hit}, !.hit = hit, !.at = at]]
        BY <3>3 DEF ReadChunk, Goto
      <4>2. [jobs[j] EXCEPT !.hits = @ \ {hit}, !.hit = hit, !.at = at].kind = "query"
        BY <3>2 DEF JobRecords
      <4> QED
        BY <4>1, <4>2
    <3>4. CASE ReadHome(j) \/ ReadName(j)
      <4>1. PICK at : jobs' = [jobs EXCEPT ![j] = [jobs[j] EXCEPT !.at = at]]
        BY <3>4 DEF ReadHome, ReadName, ReadHit, Goto
      <4>2. [jobs[j] EXCEPT !.at = at].kind = "query"
        BY <3>2 DEF JobRecords
      <4> QED
        BY <4>1, <4>2
    <3>5. CASE ReadFilename(j) \/ RankResults(j)
      <4>1. PICK at, found : jobs' = [jobs EXCEPT ![j] = [jobs[j] EXCEPT !.at = at, !.found = found]]
        BY <3>5 DEF ReadFilename, RankResults, Goto
      <4>2. [jobs[j] EXCEPT !.at = at, !.found = found].kind = "query"
        BY <3>2 DEF JobRecords
      <4> QED
        BY <4>1, <4>2
    <3> QED
      BY <2>3, <3>3, <3>4, <3>5 DEF Search
  <2> QED
    BY <2>1, <2>2, <2>3, <2>4
<1>4. \A k \in Jobs : jobs'[k] = jobs[k] \/ jobs'[k].kind # "ingest"
  BY <1>2, <1>3
<1> QED
  BY <1>1, <1>4, StillWhole

LEMMA NextWholeInv == WholeInv /\ [NextRag]_ragVars => WholeInv'
<1> SUFFICES ASSUME WholeInv, [NextRag]_ragVars PROVE WholeInv'
  OBVIOUS
<1>1. RagInv'
  BY NextRagInv DEF WholeInv
<1>2. ASSUME NEW j \in Jobs, Ingest(j)
      PROVE  WholeInv'
  BY <1>1, <1>2, GetCollectionWhole, AutoCreateWhole, InsertDocumentWhole, InsertChunkWhole, ChunkFailsWhole,
     EmbedChunkWhole, CountChunksWhole, SaveIndexWhole DEF Ingest
<1>3. ASSUME NEW j \in Jobs, NEW n, NEW file, IngestFile(j, n, file)
      PROVE  WholeInv'
  BY <1>1, <1>3, IngestFileWhole
<1>4. ASSUME NEW j \in Jobs, DeleteRows(j)
      PROVE  WholeInv'
  BY <1>1, <1>4, DeleteRowsWhole
<1>5. ASSUME NEW j \in Jobs, Search(j) \/ Fail(j) \/ (\E n : DeleteCollection(j, n) \/ Query(j, n))
      PROVE  WholeInv'
  BY <1>1, <1>5, QueryWhole
<1>6. ASSUME NEW n, NEW size, CreateCollection(n, size)
      PROVE  WholeInv'
  <2>1. UNCHANGED <<docs, chunks, ingests, done, failed, uncounted, cleared, jobs>>
    BY <1>6 DEF CreateCollection, Create, HistoryStays
  <2> QED
    BY <1>1, <2>1, StillWhole
<1>7. ASSUME Restart
      PROVE  WholeInv'
  <2>1. UNCHANGED <<docs, chunks, ingests, done, failed, uncounted, cleared>> /\ jobs' = [j \in Jobs |-> NoJob]
    BY <1>7 DEF Restart, HistoryStays, tables
  <2>2. \A k \in Jobs : jobs'[k].kind # "ingest"
    BY <2>1 DEF NoJob
  <2> QED
    BY <1>1, <2>1, <2>2, StillWhole
<1>8. CASE UNCHANGED ragVars
  <2>1. UNCHANGED <<docs, chunks, ingests, done, failed, uncounted, cleared, jobs>>
    BY <1>8 DEF ragVars, tables
  <2> QED
    BY <1>1, <2>1, StillWhole
<1> QED
  BY <1>2, <1>3, <1>4, <1>5, <1>6, <1>7, <1>8 DEF NextRag

LEMMA SpecWholeInv == SpecRag => []WholeInv
<1>1. InitRag => WholeInv
  <2> SUFFICES ASSUME InitRag PROVE WholeInv
    OBVIOUS
  <2>1. \A j \in Jobs : jobs[j].kind = "none"
    BY DEF InitRag, NoJob
  <2> QED
    BY <2>1, InitRagInv DEF WholeInv, WholeJob, InitRag
<1> QED
  BY <1>1, NextWholeInv, PTL DEF SpecRag

\* A document that was answered for and still has its chunks is its file, piece by
\* piece, whatever its text, the chunk size, and what ran meanwhile, unless a chunk
\* was not written, and has counted them unless that failed (store.go:140-188,
\* 269-291).
THEOREM DocumentsWhole == SpecRag => []DocumentsAreWhole
<1>1. ASSUME WholeInv PROVE DocumentsAreWhole
  <2>1. ASSUME NEW d \in docs, d.id \in done \ (failed \cup cleared)
        PROVE  TextOf(d.id) = ingests[d.id].file /\ (d.id \notin uncounted => d.count = Cardinality(Rows(d.id)))
    <3>1. PICK size \in Nat \ {0} :
            /\ Rows(d.id) = Pieces(d.id, ChunksOf(d.id, size), Len(ChunksOf(d.id, size)))
            /\ d.id \notin uncounted => d.count = Len(ChunksOf(d.id, size))
      BY <1>1, <2>1 DEF WholeInv, WholeDoc, Unharmed
    <3> DEFINE file == ingests[d.id].file
               c == chunkText(file, size)
    <3>2. file \in Files
      BY <1>1, IngestFacts DEF WholeInv, RagInv, Histories, IngestRecords
    <3>3. c = ChunksOf(d.id, size)
      BY DEF ChunksOf
    <3> HIDE DEF file
    <3>4. PICK S : file \in Seq(S) /\ c \in Seq(Seq(S)) /\ Covers(c, file, 0)
      BY <3>2, FileChunks
    <3> HIDE DEF c
    <3>5. Cardinality(Rows(d.id)) = Len(c) /\ TextOf(d.id) = file
      BY <3>1, <3>3, <3>4, WholeRows
    <3> QED
      BY <3>1, <3>3, <3>5 DEF file
  <2> QED
    BY <2>1 DEF DocumentsAreWhole
<1> QED
  BY <1>1, SpecWholeInv, PTL
=============================================================================
