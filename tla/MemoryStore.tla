---------------------------- MODULE MemoryStore ----------------------------
(***************************************************************************)
(* The memories of one database and their vectors, as internal/store/      *)
(* sqlite.go, internal/dream/dream.go and the commands of cmd/nyawa write  *)
(* them.  Three stores must agree and no transaction spans them: the rows  *)
(* of SQLite with the keyword index its triggers maintain, shared by every *)
(* process; the HNSW index, of which each process has its own copy loaded  *)
(* when it opened the database; and the file <db>.hnsw, which Save         *)
(* overwrites with the whole copy of the process that saves, and           *)
(* MergeAndSave (nyawa reindex) with the union of its copy and the file.   *)
(*                                                                         *)
(* A thread is a request handler of the gateway, its Dream Cycle, or the   *)
(* one thread of a command.  One SQL statement, one call of the HNSW index *)
(* (under h.mu) and one file operation under the flock are steps; anything *)
(* may happen between them, the end of the process included.  An index is  *)
(* the set of ids it holds: its graph is the subject of HnswIndex.         *)
(*                                                                         *)
(* OpenEmpty, InsertRowUnchecked, MayRetryOnceMore, Retain, MergeLockFree  *)
(* and MergeWaits are slips of the definitions that follow them, which the *)
(* properties notice; the specification does not use them.                 *)
(***************************************************************************)
EXTENDS Integers, FiniteSets

CONSTANTS
    Procs,      \* processes that open the database
    Threads,
    Home,       \* Home[t]: the process of thread t
    Workload,   \* Workload[t]: the operations thread t is asked to perform
    Memories,        \* memory ids; they are fresh (UnixNano), so never used twice
    MaxTries,   \* attempts of persistHNSW (3)
    NoThread,
    NoMemory

Operations == {"store", "forget", "evict", "dedup", "archive", "reindex"}

ASSUME HomeAssumption == Home \in [Threads -> Procs]
ASSUME WorkloadAssumption == Workload \in [Threads -> SUBSET Operations]
ASSUME NameAssumption == NoThread \notin Threads /\ NoMemory \notin Memories
ASSUME TriesAssumption == MaxTries \in Nat \ {0}

VARIABLES
    row,       \* memories: not there yet, active, superseded or deleted
    keyword,   \* ids with an entry in memories_fts
    archived,  \* ids in the archive database
    up,        \* processes that are running
    mem,       \* mem[p]: ids in the in-memory index of p
    file,      \* ids in the index file
    lock,      \* thread that holds the flock of the index file
    thr,       \* what each thread is doing
    durable    \* history: ids whose store returned after a successful save

database == <<row, keyword, archived>>
storeVars == <<database, up, mem, file, lock, thr, durable>>

-----------------------------------------------------------------------------
RowStates == {"none", "active", "superseded", "deleted"}
Points == {"idle", "index", "unindex", "save", "write", "dedup", "deleteRows",
           "clearKeywords", "embed", "merge", "read", "replace"}

\* id: the memory an operation is about, NoMemory once it no longer matters; tries:
\* failed saves; set: the rows a reindex has listed, then the merged index that
\* it is about to write.
Task(point, id, listed) == [at |-> point, id |-> id, tries |-> 0, set |-> listed]
Rest == Task("idle", NoMemory, {})
ThreadStates == [at : Points, id : Memories \cup {NoMemory}, tries : 0 .. MaxTries - 1, set : SUBSET Memories]

Index(t) == mem[Home[t]]
IsAt(t, point) == thr[t].at = point
Goto(t, point) == thr' = [thr EXCEPT ![t].at = point]
Finish(t) == thr' = [thr EXCEPT ![t] = Rest]
Ready(t, operation) == up[Home[t]] /\ IsAt(t, "idle") /\ operation \in Workload[t]
Active == {i \in Memories : row[i] = "active"}
Superseded == {i \in Memories : row[i] = "superseded"}

InitStore ==
    /\ row = [i \in Memories |-> "none"]
    /\ keyword = {}
    /\ archived = {}
    /\ up = [p \in Procs |-> FALSE]
    /\ mem = [p \in Procs |-> {}]
    /\ file = {}
    /\ lock = NoThread
    /\ thr = [t \in Threads |-> Rest]
    /\ durable = {}

-----------------------------------------------------------------------------
(* Processes *)

OpenEmpty(p) ==
    /\ ~up[p]
    /\ up' = [up EXCEPT ![p] = TRUE]
    /\ UNCHANGED <<database, mem, file, lock, thr, durable>>

\* NewStore: Load reads the file under the flock.
Open(p) ==
    /\ ~up[p]
    /\ lock = NoThread
    /\ up' = [up EXCEPT ![p] = TRUE]
    /\ mem' = [mem EXCEPT ![p] = file]
    /\ UNCHANGED <<database, file, lock, thr, durable>>

\* The index of the process is gone, and the kernel releases the flock that one
\* of its threads may hold.
Exit(p) ==
    /\ up' = [up EXCEPT ![p] = FALSE]
    /\ mem' = [mem EXCEPT ![p] = {}]
    /\ thr' = [t \in Threads |-> IF Home[t] = p THEN Rest ELSE thr[t]]
    /\ lock' = IF lock # NoThread /\ Home[lock] = p THEN NoThread ELSE lock
    /\ UNCHANGED <<database, file, durable>>

\* It ends or is killed between any two steps of its threads.
Stop(p) == up[p] /\ Exit(p)

-----------------------------------------------------------------------------
(* InsertMemory *)

\* The row, and through the insert trigger its keyword entry.  The embedding
\* was computed before: without one (no embedder, or it failed) the memory is
\* keyword-only and the call ends here.  An INSERT that fails changes nothing.
InsertRowUnchecked(t, id) ==
    /\ Ready(t, "store")
    /\ row[id] = "none"
    /\ row' \in {row, [row EXCEPT ![id] = "active"]}
    /\ thr' = [thr EXCEPT ![t] = Task("index", id, {})]
    /\ UNCHANGED <<keyword, archived, up, mem, file, lock, durable>>

InsertRow(t, id) ==
    /\ Ready(t, "store")
    /\ row[id] = "none"
    /\ row' = [row EXCEPT ![id] = "active"]
    /\ keyword' = keyword \cup {id}
    /\ \/ thr' = [thr EXCEPT ![t] = Task("index", id, {})]
       \/ UNCHANGED thr
    /\ UNCHANGED <<archived, up, mem, file, lock, durable>>

InsertVector(t) ==
    /\ IsAt(t, "index")
    /\ mem' = [mem EXCEPT ![Home[t]] = @ \cup {thr[t].id}]
    /\ Goto(t, "save")
    /\ UNCHANGED <<database, up, file, lock, durable>>

(* DeleteMemory *)

\* UPDATE memories SET superseded_at: rows that are superseded already are
\* stamped again, and the update trigger writes each keyword entry anew.
Supersede(ids) ==
    /\ row' = [i \in Memories |-> IF i \in ids /\ row[i] = "active" THEN "superseded" ELSE row[i]]
    /\ keyword' = keyword \cup {i \in ids : row[i] \in {"active", "superseded"}}
    /\ UNCHANGED <<archived, up, mem, file, lock, durable>>

\* The client learnt the id from an earlier answer or a list; a row that has been
\* archived since matches nothing, and the call goes on all the same.
DeleteRow(t, id) ==
    /\ Ready(t, "forget")
    /\ row[id] # "none"
    /\ Supersede({id})
    /\ thr' = [thr EXCEPT ![t] = Task("unindex", id, {})]

DeleteVector(t) ==
    /\ IsAt(t, "unindex")
    /\ mem' = [mem EXCEPT ![Home[t]] = @ \ {thr[t].id}]
    /\ thr' = [thr EXCEPT ![t] = Task("save", NoMemory, {})]
    /\ UNCHANGED <<database, up, file, lock, durable>>

(* persistHNSW *)

LockFile(t) ==
    /\ IsAt(t, "save")
    /\ lock = NoThread
    /\ lock' = t
    /\ Goto(t, "write")
    /\ UNCHANGED <<database, up, mem, file, durable>>

\* The temporary file is renamed over the index file; nothing of the old file
\* is kept.  thr[t].id is the memory being stored, NoMemory after a delete.
SaveFile(t) ==
    /\ IsAt(t, "write")
    /\ file' = Index(t)
    /\ lock' = NoThread
    /\ durable' = durable \cup ({thr[t].id} \ {NoMemory})
    /\ Finish(t)
    /\ UNCHANGED <<database, up, mem>>

MayRetryOnceMore(t) == thr[t].tries < MaxTries
MayRetry(t) == thr[t].tries + 1 < MaxTries

Retain(t) == UNCHANGED lock
Release(t) == lock' = IF lock = t THEN NoThread ELSE lock

\* The flock times out or writing fails; the last failure is only logged.
SaveFails(t) ==
    /\ thr[t].at \in {"save", "write"}
    /\ Release(t)
    /\ IF MayRetry(t)
       THEN thr' = [thr EXCEPT ![t].at = "save", ![t].tries = @ + 1]
       ELSE Finish(t)
    /\ UNCHANGED <<database, up, mem, file, durable>>

-----------------------------------------------------------------------------
(* Dream Cycle: phaseEvict supersedes rows and leaves every index alone;   *)
(* phaseDedup also deletes the vector in memory, but never saves.          *)

Evict(t) ==
    /\ Ready(t, "evict")
    /\ \E stale \in SUBSET Active : Supersede(stale)
    /\ UNCHANGED thr

\* The id comes from a list read at the start of the phase, so that by now its
\* row may be superseded or gone.
DedupRow(t, id) ==
    /\ Ready(t, "dedup")
    /\ row[id] # "none"
    /\ Supersede({id})
    /\ thr' = [thr EXCEPT ![t] = Task("dedup", id, {})]

DedupVector(t) ==
    /\ IsAt(t, "dedup")
    /\ mem' = [mem EXCEPT ![Home[t]] = @ \ {thr[t].id}]
    /\ Finish(t)
    /\ UNCHANGED <<database, up, file, lock, durable>>

-----------------------------------------------------------------------------
(* ArchiveSuperseded *)

\* The rows are read and copied; errors of the archive database are ignored, so
\* that any of them may be missing from it.
CopyToArchive(t) ==
    /\ Ready(t, "archive")
    /\ \E copied \in SUBSET Superseded : archived' = archived \cup copied
    /\ Goto(t, "deleteRows")
    /\ UNCHANGED <<row, keyword, up, mem, file, lock, durable>>

\* DELETE FROM memories WHERE superseded_at IS NOT NULL, whatever was read; nobody
\* looks whether it failed.
DeleteArchived(t) ==
    /\ IsAt(t, "deleteRows")
    /\ \/ /\ row' = [i \in Memories |-> IF row[i] = "superseded" THEN "deleted" ELSE row[i]]
          /\ keyword' = keyword \ Superseded
       \/ UNCHANGED <<row, keyword>>
    /\ Goto(t, "clearKeywords")
    /\ UNCHANGED <<archived, up, mem, file, lock, durable>>

\* DELETE FROM memories_fts: no WHERE, and no look at its error.
ClearKeywordIndex(t) ==
    /\ IsAt(t, "clearKeywords")
    /\ keyword' \in {{}, keyword}
    /\ Finish(t)
    /\ UNCHANGED <<row, archived, up, mem, file, lock, durable>>
-----------------------------------------------------------------------------
(* nyawa reindex, a process of its own, and MergeAndSave *)

ListActive(t) ==
    /\ Ready(t, "reindex")
    /\ thr' = [thr EXCEPT ![t] = Task("embed", NoMemory, Active)]
    /\ UNCHANGED <<database, up, mem, file, lock, durable>>

\* Each listed memory that its own index lacks is embedded, which may fail, and
\* inserted; when none was, nothing is written.
EmbedMissing(t) ==
    /\ IsAt(t, "embed")
    /\ \E embedded \in SUBSET (thr[t].set \ Index(t)) :
         /\ mem' = [mem EXCEPT ![Home[t]] = @ \cup embedded]
         /\ thr' = [thr EXCEPT ![t] =
                      IF embedded = {} THEN Rest ELSE Task("merge", NoMemory, {})]
    /\ UNCHANGED <<database, up, file, lock, durable>>

MergeLockFree(t) ==
    /\ IsAt(t, "merge")
    /\ Goto(t, "read")
    /\ UNCHANGED <<database, up, mem, file, lock, durable>>
MergeLock(t) ==
    /\ IsAt(t, "merge")
    /\ lock = NoThread
    /\ lock' = t
    /\ Goto(t, "read")
    /\ UNCHANGED <<database, up, mem, file, durable>>

MergeRead(t) ==
    /\ IsAt(t, "read")
    /\ thr' = [thr EXCEPT ![t].at = "replace", ![t].set = file \cup Index(t)]
    /\ UNCHANGED <<database, up, mem, file, lock, durable>>

\* The copy in memory is not updated.
MergeWrite(t) ==
    /\ IsAt(t, "replace")
    /\ file' = thr[t].set
    /\ lock' = NoThread
    /\ Finish(t)
    /\ UNCHANGED <<database, up, mem, durable>>

\* The flock times out, or reading or writing fails: log.Fatalf.
MergeWaits(t) == FALSE
MergeFails(t) ==
    /\ thr[t].at \in {"merge", "read", "replace"}
    /\ Exit(Home[t])

-----------------------------------------------------------------------------
Begin(t) ==
    \/ \E id \in Memories : InsertRow(t, id) \/ DeleteRow(t, id) \/ DedupRow(t, id)
    \/ Evict(t)
    \/ CopyToArchive(t)
    \/ ListActive(t)

Continue(t) ==
    \/ InsertVector(t) \/ DeleteVector(t) \/ DedupVector(t)
    \/ LockFile(t) \/ SaveFile(t) \/ SaveFails(t)
    \/ DeleteArchived(t) \/ ClearKeywordIndex(t)
    \/ EmbedMissing(t) \/ MergeLock(t) \/ MergeRead(t) \/ MergeWrite(t) \/ MergeFails(t)

NextStore ==
    \/ \E p \in Procs : Open(p) \/ Stop(p)
    \/ \E t \in Threads : Begin(t) \/ Continue(t)

SpecStore == InitStore /\ [][NextStore]_storeVars

\* A thread that has begun is scheduled again and again; nobody has to issue a
\* request, open the database or end a process.
FairSpecStore == SpecStore /\ \A t \in Threads : WF_storeVars(Continue(t))

-----------------------------------------------------------------------------
(* Properties *)

\* Every variable has its type.
TypeOKStore ==
    /\ row \in [Memories -> RowStates]
    /\ keyword \subseteq Memories
    /\ archived \subseteq Memories
    /\ up \in [Procs -> BOOLEAN]
    /\ mem \in [Procs -> SUBSET Memories]
    /\ file \subseteq Memories
    /\ lock \in Threads \cup {NoThread}
    /\ thr \in [Threads -> ThreadStates]
    /\ durable \subseteq Memories

\* No vector, in any process's index or in the file, is there before the row of its
\* memory: InsertMemory writes the row first and the vector last, so that a crash in
\* between leaves a memory without a vector, never a vector that no row has ever
\* named.  What happens to vectors after their row is superseded or archived is
\* another matter: they linger.
VectorsHaveRows ==
    \A i \in Memories : i \in file \cup UNION {mem[p] : p \in Procs} => row[i] # "none"

\* A memory whose store returned after a successful save has its vector in the
\* file until it is superseded, through restarts, failed saves, archives and the
\* deletes of others.
DurableVectors == \A i \in durable : row[i] = "active" => i \in file

\* MergeAndSave writes no less than what the file held when it was written:
\* nothing that another process saved while the reindex ran is dropped by it.
MergeKeepsFile ==
    [][\A t \in Threads : IsAt(t, "replace") /\ IsAt(t, "idle")' => file \subseteq file']_storeVars

\* A thread does not keep the flock: it saves, gives up or dies.
LockIsReleased == \A t \in Threads : lock = t ~> lock # t

\* Every request ends, retries and contention for the flock included.
RequestsEnd == \A t \in Threads : thr[t].at # "idle" ~> thr[t].at = "idle"

-----------------------------------------------------------------------------
(* What the documentation says, and the code does not do. *)

\* hnsw.go:477-480 (MergeAndSave), README "a running gateway's concurrent writes
\* are not lost", docs/recall-pipeline.md "This makes reindex safe against a live
\* database": the vector of an active memory does not leave the file.
VectorsAreNotLost ==
    [][\A i \in file : row'[i] = "active" => i \in file']_storeVars
=============================================================================
