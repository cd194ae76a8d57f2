-------------------------- MODULE MemoryStoreProofs --------------------------
(***************************************************************************)
(* Proofs about MemoryStore, for any number of processes, threads and      *)
(* memories, and about the memories and the links of the index together.   *)
(*                                                                         *)
(* StoreInv makes VectorsHaveRows and MergeKeepsFile inductive: the flock  *)
(* is held across the two halves of a merge, so that the file cannot grow  *)
(* under it, and every id on its way into an index has its row.  SoleInv   *)
(* does the same for DurableVectors, which holds only while one process    *)
(* has the database open: what it promised is in its index, and nothing    *)
(* on its way out of the index is active.                                  *)
(***************************************************************************)
EXTENDS MCVectors, HnswIndexProofs, TLAPS

\* A thread that is about to change its index knows of which id.
IdsNamed ==
    \A t \in Threads :
        thr[t].at \in {"index", "unindex", "dedup"} => thr[t].id \in Memories

WritersHoldLock ==
    \A t \in Threads : thr[t].at \in {"write", "read", "replace"} => lock = t

MergesCoverFile == \A t \in Threads : IsAt(t, "replace") => file \subseteq thr[t].set

ThreadsHaveRows ==
    \A t \in Threads :
        /\ \A i \in thr[t].set : row[i] # "none"
        /\ IsAt(t, "index") => row[thr[t].id] # "none"

StoreInv ==
    TypeOKStore /\ IdsNamed /\ WritersHoldLock /\ MergesCoverFile /\ VectorsHaveRows /\ ThreadsHaveRows

-----------------------------------------------------------------------------
\* A thread at rest has the type of a thread, and every thread has a process.
LEMMA RestIsState == Rest \in ThreadStates /\ \A t \in Threads : Home[t] \in Procs
BY HomeAssumption, TriesAssumption DEF Task, Rest, ThreadStates, Points

\* A row that exists never becomes one that does not.
LEMMA SupersedeRows ==
    ASSUME TypeOKStore, NEW ids \in SUBSET Memories, Supersede(ids)
    PROVE  /\ row' \in [Memories -> RowStates]
           /\ keyword' \subseteq Memories
           /\ \A i \in Memories : row'[i] = "none" <=> row[i] = "none"
BY DEF TypeOKStore, Supersede, RowStates

\* The empty database satisfies the inductive invariant.
LEMMA StoreInvInit == InitStore => StoreInv
<1> SUFFICES ASSUME InitStore PROVE StoreInv
  OBVIOUS
<1>1. TypeOKStore
  BY RestIsState DEF InitStore, TypeOKStore, RowStates
<1>2. \A t \in Threads : thr[t] = Rest
  BY DEF InitStore
<1> QED
  BY <1>1, <1>2 DEF InitStore, StoreInv, IdsNamed, WritersHoldLock, MergesCoverFile,
     VectorsHaveRows, ThreadsHaveRows, Task, Rest, IsAt

\* Every step preserves the inductive invariant.
LEMMA StoreInvStep == StoreInv /\ [NextStore]_storeVars => StoreInv'
<1> SUFFICES ASSUME StoreInv, [NextStore]_storeVars PROVE StoreInv'
  OBVIOUS
<1> USE RestIsState DEF StoreInv, TypeOKStore, IdsNamed, WritersHoldLock, MergesCoverFile,
                  VectorsHaveRows, ThreadsHaveRows, IsAt, database
<1>1. ASSUME NEW p \in Procs, Open(p) PROVE StoreInv'
  BY <1>1 DEF Open
<1>2. ASSUME NEW p \in Procs, Exit(p) PROVE StoreInv'
  BY <1>2, NameAssumption DEF Exit, Task, Rest
<1>3. ASSUME NEW t \in Threads, NEW id \in Memories, InsertRow(t, id) PROVE StoreInv'
  <2>1. thr' \in [Threads -> ThreadStates]
    BY <1>3 DEF InsertRow, Task, Rest, ThreadStates, Points
  <2>2. TypeOKStore'
    BY <1>3, <2>1 DEF InsertRow, Ready, RowStates
  <2>3. IdsNamed' /\ WritersHoldLock' /\ MergesCoverFile'
    BY <1>3 DEF InsertRow, Ready, Task, Rest, ThreadStates
  <2>4. VectorsHaveRows'
    BY <1>3 DEF InsertRow, Ready
  <2>5. ThreadsHaveRows'
    BY <1>3 DEF InsertRow, Ready, Task, Rest, ThreadStates
  <2> QED
    BY <2>1, <2>2, <2>3, <2>4, <2>5
<1>4. ASSUME NEW t \in Threads, InsertVector(t) PROVE StoreInv'
  BY <1>4 DEF InsertVector, Goto, ThreadStates, Points, RowStates
<1>5. ASSUME NEW t \in Threads, NEW id \in Memories, NEW next \in {"unindex", "dedup"},
             Supersede({id}), thr' = [thr EXCEPT ![t] = Task(next, id, {})]
      PROVE  StoreInv'
  <2>1. thr' \in [Threads -> ThreadStates]
    BY <1>5 DEF Task, Rest, ThreadStates, Points
  <2>2. TypeOKStore'
    BY <1>5, <2>1, SupersedeRows DEF Supersede, RowStates
  <2>3. IdsNamed' /\ WritersHoldLock' /\ MergesCoverFile'
    BY <1>5, SupersedeRows DEF Supersede, Task, Rest, ThreadStates
  <2>4. VectorsHaveRows'
    BY <1>5, SupersedeRows DEF Supersede
  <2>5. ThreadsHaveRows'
    BY <1>5, SupersedeRows DEF Supersede, Task, Rest, ThreadStates
  <2> QED
    BY <2>1, <2>2, <2>3, <2>4, <2>5
<1>6. ASSUME NEW t \in Threads, Evict(t) PROVE StoreInv'
  <2>1. thr' \in [Threads -> ThreadStates]
    BY <1>6 DEF Evict, Task, Rest, ThreadStates, Points
  <2>2. TypeOKStore'
    BY <1>6, <2>1, SupersedeRows DEF Evict, Supersede, Ready, Active, RowStates
  <2>3. IdsNamed' /\ WritersHoldLock' /\ MergesCoverFile'
    BY <1>6, SupersedeRows DEF Evict, Supersede, Ready, Active, Task, Rest, ThreadStates
  <2>4. VectorsHaveRows'
    BY <1>6, SupersedeRows DEF Evict, Supersede, Ready, Active
  <2>5. ThreadsHaveRows'
    BY <1>6, SupersedeRows DEF Evict, Supersede, Ready, Active, Task, Rest, ThreadStates
  <2> QED
    BY <2>1, <2>2, <2>3, <2>4, <2>5
<1>7. ASSUME NEW t \in Threads, DeleteVector(t) \/ DedupVector(t) PROVE StoreInv'
  <2>1. thr' \in [Threads -> ThreadStates]
    BY <1>7 DEF DeleteVector, DedupVector, Finish, Task, Rest, ThreadStates, Points
  <2>2. TypeOKStore'
    BY <1>7, <2>1 DEF DeleteVector, DedupVector, Finish, RowStates
  <2>3. IdsNamed' /\ WritersHoldLock' /\ MergesCoverFile'
    <3>1. UNCHANGED <<file, lock>> /\ \A u \in Threads \ {t} : thr'[u] = thr[u]
      BY <1>7 DEF DeleteVector, DedupVector, Finish
    <3>2. thr'[t].at \in {"save", "idle"}
      BY <1>7 DEF DeleteVector, DedupVector, Finish, Task, Rest
    <3> QED
      BY <3>1, <3>2
  <2>4. VectorsHaveRows'
    BY <1>7 DEF DeleteVector, DedupVector, Finish
  <2>5. ThreadsHaveRows'
    BY <1>7 DEF DeleteVector, DedupVector, Finish, Task, Rest, ThreadStates
  <2> QED
    BY <2>1, <2>2, <2>3, <2>4, <2>5
<1>8. ASSUME NEW t \in Threads, LockFile(t) \/ MergeLock(t) PROVE StoreInv'
  BY <1>8, NameAssumption DEF LockFile, MergeLock, Goto, Task, Rest, ThreadStates, Points, RowStates
<1>9. ASSUME NEW t \in Threads, SaveFile(t) PROVE StoreInv'
  BY <1>9, NameAssumption DEF SaveFile, Index, Finish, Task, Rest, ThreadStates, Points, RowStates
<1>10. ASSUME NEW t \in Threads, SaveFails(t) PROVE StoreInv'
  <2>1. thr' \in [Threads -> ThreadStates]
    BY <1>10, TriesAssumption DEF SaveFails, MayRetry, Release, Finish, ThreadStates, Points
  <2>2. TypeOKStore'
    BY <1>10, <2>1, NameAssumption DEF SaveFails, Release
  <2>3. IdsNamed' /\ WritersHoldLock' /\ MergesCoverFile'
    BY <1>10, NameAssumption DEF SaveFails, MayRetry, Release, Finish, Task, Rest, ThreadStates
  <2>4. VectorsHaveRows' /\ ThreadsHaveRows'
    <3>1. UNCHANGED <<row, mem, file>> /\ \A u \in Threads \ {t} : thr'[u] = thr[u]
      BY <1>10 DEF SaveFails, Finish
    <3>2. thr'[t].at \in {"save", "idle"} /\ thr'[t].set \subseteq thr[t].set
      BY <1>10 DEF SaveFails, MayRetry, Finish, Task, Rest, ThreadStates
    <3> QED
      BY <3>1, <3>2
  <2> QED
    BY <2>2, <2>3, <2>4
<1>11. ASSUME NEW t \in Threads, CopyToArchive(t) \/ DeleteArchived(t) \/ ClearKeywordIndex(t)
      PROVE  StoreInv'
  <2>1. CASE CopyToArchive(t)
    BY <2>1 DEF CopyToArchive, Superseded, Ready, Goto, Task, Rest, ThreadStates, Points, RowStates
  <2>2. CASE DeleteArchived(t)
    <3>1. /\ IsAt(t, "deleteRows") /\ Goto(t, "clearKeywords")
          /\ UNCHANGED <<archived, up, mem, file, lock, durable>>
      BY <2>2 DEF DeleteArchived
    <3>2. CASE UNCHANGED <<row, keyword>>
      BY <3>1, <3>2 DEF Goto, Task, Rest, ThreadStates, Points, RowStates
    <3>3. CASE /\ row' = [i \in Memories |-> IF row[i] = "superseded" THEN "deleted" ELSE row[i]]
               /\ keyword' = keyword \ Superseded
      BY <3>1, <3>3 DEF Goto, Task, Rest, ThreadStates, Points, RowStates
    <3> QED
      BY <2>2, <3>2, <3>3 DEF DeleteArchived
  <2>3. CASE ClearKeywordIndex(t)
    BY <2>3 DEF ClearKeywordIndex, Finish, Task, Rest, ThreadStates, Points, RowStates
  <2> QED
    BY <1>11, <2>1, <2>2, <2>3
<1>12. ASSUME NEW t \in Threads, ListActive(t) PROVE StoreInv'
  <2>1. thr' \in [Threads -> ThreadStates]
    BY <1>12 DEF ListActive, Active, Task, Rest, ThreadStates, Points
  <2>2. TypeOKStore'
    BY <1>12, <2>1 DEF ListActive, Active, Ready, RowStates
  <2>3. IdsNamed' /\ WritersHoldLock' /\ MergesCoverFile'
    BY <1>12 DEF ListActive, Active, Ready, Task, Rest, ThreadStates
  <2>4. VectorsHaveRows'
    BY <1>12 DEF ListActive, Active, Ready
  <2>5. ThreadsHaveRows'
    BY <1>12 DEF ListActive, Active, Ready, Task, Rest, ThreadStates
  <2> QED
    BY <2>1, <2>2, <2>3, <2>4, <2>5
<1>13. ASSUME NEW t \in Threads, EmbedMissing(t) PROVE StoreInv'
  BY <1>13 DEF EmbedMissing, Index, Task, Rest, ThreadStates, Points, RowStates
<1>14. ASSUME NEW t \in Threads, MergeRead(t) PROVE StoreInv'
  <2>1. thr' \in [Threads -> ThreadStates]
    BY <1>14 DEF MergeRead, Index, Task, Rest, ThreadStates, Points
  <2>2. TypeOKStore'
    BY <1>14, <2>1 DEF MergeRead, Index, RowStates
  <2>3. IdsNamed' /\ WritersHoldLock' /\ MergesCoverFile'
    BY <1>14 DEF MergeRead, Index, Task, Rest, ThreadStates
  <2>4. VectorsHaveRows'
    BY <1>14 DEF MergeRead, Index
  <2>5. ThreadsHaveRows'
    BY <1>14 DEF MergeRead, Index, Task, Rest, ThreadStates
  <2> QED
    BY <2>1, <2>2, <2>3, <2>4, <2>5
<1>15. ASSUME NEW t \in Threads, MergeWrite(t) PROVE StoreInv'
  BY <1>15, NameAssumption DEF MergeWrite, Finish, Task, Rest, ThreadStates, Points, RowStates
<1>16. CASE UNCHANGED storeVars
  BY <1>16 DEF storeVars
<1> QED
  BY <1>1, <1>2, <1>3, <1>4, <1>5, <1>6, <1>7, <1>8, <1>9, <1>10, <1>11, <1>12, <1>13,
     <1>14, <1>15, <1>16 DEF NextStore, Begin, Continue, Stop, MergeFails,
     DeleteRow, DedupRow

\* Every variable keeps its type.
THEOREM StoreTypeCorrect == SpecStore => []TypeOKStore
<1> QED
  BY StoreInvInit, StoreInvStep, PTL DEF SpecStore, StoreInv

\* No index and no file holds a vector before the row of its memory was written,
\* however the processes interleave and wherever they die; the row may be gone since.
THEOREM RowsBeforeVectors == SpecStore => []VectorsHaveRows
<1> QED
  BY StoreInvInit, StoreInvStep, PTL DEF SpecStore, StoreInv

\* A merge never drops what the file holds when it is replaced.
THEOREM MergeLosesNothing == SpecStore => MergeKeepsFile
<1> DEFINE Merged == \A t \in Threads :
             IsAt(t, "replace") /\ IsAt(t, "idle")' => file \subseteq file'
<1>1. StoreInv /\ [NextStore]_storeVars => [Merged]_storeVars
  <2> SUFFICES ASSUME StoreInv, NextStore, NEW t \in Threads, IsAt(t, "replace"), IsAt(t, "idle")'
               PROVE  file \subseteq file'
    OBVIOUS
  <2> USE DEF StoreInv, IsAt
  <2>1. ASSUME NEW u \in Threads, SaveFile(u) PROVE file \subseteq file'
    BY <2>1, NameAssumption DEF SaveFile, WritersHoldLock, TypeOKStore, Finish
  <2>2. ASSUME NEW u \in Threads, MergeWrite(u) PROVE file \subseteq file'
    BY <2>2 DEF MergeWrite, MergesCoverFile
  <2>3. ASSUME NEW u \in Threads, Begin(u) PROVE file \subseteq file'
    BY <2>3 DEF Begin, InsertRow, DeleteRow, DedupRow, Evict, CopyToArchive, ListActive, Supersede
  <2>4. ASSUME NEW u \in Threads, Continue(u), ~SaveFile(u), ~MergeWrite(u)
        PROVE  file \subseteq file'
    BY <2>4 DEF Continue, InsertVector, DeleteVector, DedupVector, LockFile, SaveFails,
       DeleteArchived, ClearKeywordIndex, EmbedMissing, MergeLock, MergeRead, MergeFails, Exit
  <2>5. ASSUME NEW p \in Procs, Open(p) \/ Stop(p) PROVE file \subseteq file'
    BY <2>5 DEF Open, Stop, Exit
  <2> QED
    BY <2>1, <2>2, <2>3, <2>4, <2>5 DEF NextStore
<1>2. SpecStore => [][Merged]_storeVars
  BY <1>1, StoreInvInit, StoreInvStep, PTL DEF SpecStore
<1> QED
  BY <1>2 DEF MergeKeepsFile

-----------------------------------------------------------------------------
(* One process *)

SoleProcess == \A p, q \in Procs : p = q

\* What a store has promised is in the file and in the index that is saved next.
PromisesKept ==
    \A i \in durable :
        /\ row[i] # "none"
        /\ row[i] = "active" => i \in file /\ \A p \in Procs : up[p] => i \in mem[p]

WorkersAreUp == \A t \in Threads : thr[t].at # "idle" => up[Home[t]]

\* What is about to leave an index was superseded first.
LeaversInactive ==
    \A t \in Threads :
        thr[t].at \in {"unindex", "dedup"} => row[thr[t].id] \in {"superseded", "deleted"}

\* What is about to be promised is in the index that is about to be saved.
SavedAreIndexed ==
    \A t \in Threads :
        thr[t].at \in {"save", "write"} /\ thr[t].id # NoMemory =>
            /\ row[thr[t].id] # "none"
            /\ row[thr[t].id] = "active" => thr[t].id \in Index(t)

SoleInv == StoreInv /\ PromisesKept /\ WorkersAreUp /\ LeaversInactive /\ SavedAreIndexed

\* The empty database satisfies the invariant of a sole process.
LEMMA SoleInvInit == InitStore => SoleInv
BY StoreInvInit DEF InitStore, SoleInv, PromisesKept, WorkersAreUp, LeaversInactive,
   SavedAreIndexed, Task, Rest

\* With one process, every step preserves it: nobody else replaces the file.
LEMMA SoleInvStep == ASSUME SoleProcess PROVE SoleInv /\ [NextStore]_storeVars => SoleInv'
<1> SUFFICES ASSUME SoleInv, [NextStore]_storeVars
             PROVE  (PromisesKept /\ WorkersAreUp /\ LeaversInactive /\ SavedAreIndexed)'
  BY StoreInvStep DEF SoleInv
<1> USE RestIsState DEF SoleInv, StoreInv, TypeOKStore, PromisesKept, WorkersAreUp,
                        LeaversInactive, SavedAreIndexed, IsAt, Index, database
<1> DEFINE Goal == PromisesKept /\ WorkersAreUp /\ LeaversInactive /\ SavedAreIndexed
<1>1. ASSUME NEW p \in Procs, Open(p) PROVE Goal'
  BY <1>1 DEF Open, SoleProcess
<1>2. ASSUME NEW p \in Procs, Exit(p) PROVE Goal'
  BY <1>2 DEF Exit, Task, Rest, SoleProcess
<1>3. ASSUME NEW t \in Threads, NEW id \in Memories, InsertRow(t, id) PROVE Goal'
  <2>1. PromisesKept'
    BY <1>3 DEF InsertRow
  <2>2. WorkersAreUp'
    BY <1>3 DEF InsertRow, Ready, Task
  <2>3. LeaversInactive'
    BY <1>3 DEF InsertRow, Task, IdsNamed
  <2>4. SavedAreIndexed'
    <3>1. /\ UNCHANGED mem
          /\ \A i \in Memories : row[i] # "none" => row'[i] = row[i]
      BY <1>3 DEF InsertRow
    <3>2. \A u \in Threads : thr'[u].at \in {"save", "write"} => thr'[u] = thr[u]
      BY <1>3 DEF InsertRow, Task
    <3> QED
      BY <3>1, <3>2 DEF ThreadStates
  <2> QED
    BY <2>1, <2>2, <2>3, <2>4
<1>4. ASSUME NEW t \in Threads, InsertVector(t) PROVE Goal'
  BY <1>4 DEF InsertVector, Goto, ThreadStates, IdsNamed, ThreadsHaveRows
<1>5. ASSUME NEW t \in Threads, NEW id \in Memories, NEW next \in {"unindex", "dedup"}, up[Home[t]],
             row[id] # "none", Supersede({id}), thr' = [thr EXCEPT ![t] = Task(next, id, {})]
      PROVE  Goal'
  <2>1. PromisesKept'
    BY <1>5 DEF Supersede, RowStates
  <2>2. WorkersAreUp'
    BY <1>5 DEF Supersede, Task, ThreadStates
  <2>3. LeaversInactive'
    BY <1>5 DEF Supersede, Task, ThreadStates, RowStates, IdsNamed
  <2>4. SavedAreIndexed'
    BY <1>5 DEF Supersede, Task, ThreadStates, RowStates
  <2> QED
    BY <2>1, <2>2, <2>3, <2>4
<1>6. ASSUME NEW t \in Threads, Evict(t) PROVE Goal'
  <2>1. PromisesKept'
    BY <1>6 DEF Evict, Supersede, Active, RowStates
  <2>2. WorkersAreUp'
    BY <1>6 DEF Evict, Supersede, Active, ThreadStates
  <2>3. LeaversInactive'
    BY <1>6 DEF Evict, Supersede, Active, ThreadStates, RowStates, IdsNamed
  <2>4. SavedAreIndexed'
    BY <1>6 DEF Evict, Supersede, Active, ThreadStates, RowStates
  <2> QED
    BY <2>1, <2>2, <2>3, <2>4
<1>7. ASSUME NEW t \in Threads, DeleteVector(t) \/ DedupVector(t) PROVE Goal'
  BY <1>7 DEF DeleteVector, DedupVector, Finish, Task, Rest, IdsNamed
<1>8. ASSUME NEW t \in Threads, LockFile(t) \/ MergeLock(t) PROVE Goal'
  <2>1. PromisesKept'
    BY <1>8 DEF LockFile, MergeLock, Goto, RowStates
  <2>2. WorkersAreUp'
    BY <1>8 DEF LockFile, MergeLock, Goto, ThreadStates
  <2>3. LeaversInactive'
    BY <1>8 DEF LockFile, MergeLock, Goto, ThreadStates, RowStates, IdsNamed
  <2>4. SavedAreIndexed'
    <3>1. UNCHANGED <<row, mem>> /\ \A u \in Threads : thr'[u].id = thr[u].id
      BY <1>8 DEF LockFile, MergeLock, Goto, ThreadStates
    <3>2. \A u \in Threads : thr'[u].at \in {"save", "write"} => thr[u].at \in {"save", "write"}
      BY <1>8 DEF LockFile, MergeLock, Goto, ThreadStates
    <3> QED
      BY <3>1, <3>2 DEF ThreadStates
  <2> QED
    BY <2>1, <2>2, <2>3, <2>4
<1>9. ASSUME NEW t \in Threads, SaveFile(t) PROVE Goal'
  BY <1>9 DEF SaveFile, Finish, Task, Rest, SoleProcess
<1>10. ASSUME NEW t \in Threads, SaveFails(t) PROVE Goal'
  BY <1>10 DEF SaveFails, MayRetry, Release, Finish, Task, Rest, ThreadStates
<1>11. ASSUME NEW t \in Threads, CopyToArchive(t) \/ DeleteArchived(t) \/ ClearKeywordIndex(t)
       PROVE  Goal'
  <2>1. PromisesKept'
    BY <1>11 DEF CopyToArchive, DeleteArchived, ClearKeywordIndex, RowStates
  <2>2. WorkersAreUp'
    BY <1>11 DEF CopyToArchive, DeleteArchived, ClearKeywordIndex, Ready, Goto, Finish, Task, Rest, ThreadStates
  <2>3. LeaversInactive'
    <3>1. \A u \in Threads : thr'[u].at \in {"unindex", "dedup"} => thr'[u] = thr[u]
      BY <1>11 DEF CopyToArchive, DeleteArchived, ClearKeywordIndex, Goto, Finish, Task, Rest,
         ThreadStates
    <3>2. \A i \in Memories : row[i] \in {"superseded", "deleted"} => row'[i] \in {"superseded", "deleted"}
      BY <1>11 DEF CopyToArchive, DeleteArchived, ClearKeywordIndex
    <3> QED
      BY <3>1, <3>2 DEF IdsNamed
  <2>4. SavedAreIndexed'
    BY <1>11 DEF CopyToArchive, DeleteArchived, ClearKeywordIndex, Ready, Goto, Finish, Task, Rest, ThreadStates, RowStates
  <2> QED
    BY <2>1, <2>2, <2>3, <2>4
<1>12. ASSUME NEW t \in Threads, ListActive(t) PROVE Goal'
  BY <1>12 DEF ListActive, Ready, Task
<1>13. ASSUME NEW t \in Threads, EmbedMissing(t) PROVE Goal'
  BY <1>13 DEF EmbedMissing, Task, Rest
<1>14. ASSUME NEW t \in Threads, MergeRead(t) PROVE Goal'
  BY <1>14 DEF MergeRead, ThreadStates
<1>15. ASSUME NEW t \in Threads, MergeWrite(t) PROVE Goal'
  BY <1>15 DEF MergeWrite, MergesCoverFile, Finish, Task, Rest
<1>16. CASE UNCHANGED storeVars
  BY <1>16 DEF storeVars
<1> QED
  BY <1>1, <1>2, <1>3, <1>4, <1>5, <1>6, <1>7, <1>8, <1>9, <1>10, <1>11, <1>12, <1>13,
     <1>14, <1>15, <1>16 DEF NextStore, Begin, Continue, Stop, MergeFails, DeleteRow, DedupRow, Ready

\* With one process, a memory whose store was saved keeps its vector in the file
\* until it is superseded.
THEOREM SoleProcessIsDurable == ASSUME SoleProcess PROVE SpecStore => []DurableVectors
<1>1. SoleInv => DurableVectors
  BY DEF SoleInv, PromisesKept, DurableVectors
<1> QED
  BY <1>1, SoleInvInit, SoleInvStep, PTL DEF SpecStore

-----------------------------------------------------------------------------
(* The memories together with the links of the index. *)

\* A behaviour of both is one of each.
LEMMA VectorsParts == VectorsSpec => Spec /\ SpecStore
<1>1. VectorsInit => Init /\ InitStore
  BY DEF VectorsInit, MCInit
<1>2. [VectorsNext]_<<part, vars, appendOnly, storeVars>> => [Next]_vars
  BY DEF VectorsNext, MCNext, vars
<1>3. [VectorsNext]_<<part, vars, appendOnly, storeVars>> => [NextStore]_storeVars
  BY DEF VectorsNext, storeVars
<1> QED
  BY <1>1, <1>2, <1>3, PTL DEF VectorsSpec, Spec, SpecStore

\* Neither the links of the index (hnsw.go) nor the memories and the file of
\* their vectors (sqlite.go) leave their types.
THEOREM VectorsTypeCorrect == VectorsSpec => []TypeOKVectors
BY VectorsParts, TypeCorrect, StoreTypeCorrect, PTL DEF TypeOKVectors

\* A behaviour without deletes is one of an append-only index.
LEMMA AppendOnlyGrows == VectorsSpec /\ appendOnly => GrowSpec
<1>1. VectorsInit => Init
  BY DEF VectorsInit, MCInit
<1>2. appendOnly /\ [VectorsNext]_<<part, vars, appendOnly, storeVars>> => [InsertOrSearch \/ Load]_vars
  <2> SUFFICES ASSUME appendOnly, [VectorsNext]_<<part, vars, appendOnly, storeVars>>
               PROVE  [InsertOrSearch \/ Load]_vars
    OBVIOUS
  <2>1. (Next /\ nodes \subseteq nodes') \/ UNCHANGED vars
    BY DEF VectorsNext, MCNext
  <2>2. ASSUME NEW id \in Ids, Delete(id), nodes \subseteq nodes'
        PROVE  FALSE
    BY <2>2 DEF Delete
  <2> QED
    BY <2>1, <2>2, Zenon DEF Next
<1>3. appendOnly /\ [VectorsNext]_<<part, vars, appendOnly, storeVars>> => appendOnly'
  BY Zenon DEF VectorsNext, MCNext
<1> QED
  BY <1>1, <1>2, <1>3, PTL DEF VectorsSpec, GrowSpec

\* A search of an index from which nothing was ever deleted, and which has at most
\* Mmax + 1 nodes, answers exactly (hnsw.go:174-243, 269-318).
THEOREM AppendOnlyExact == VectorsSpec => AppendOnlyIsExact
<1>1. ~appendOnly /\ [VectorsNext]_<<part, vars, appendOnly, storeVars>>
        => ~appendOnly' /\ [appendOnly => ExactWhenSmall]_vars
  <2>1. ~appendOnly /\ [VectorsNext]_<<part, vars, appendOnly, storeVars>> => ~appendOnly'
    BY Zenon DEF VectorsNext, MCNext
  <2>2. ~appendOnly => [appendOnly => ExactWhenSmall]_vars
    BY Zenon
  <2> QED
    BY <2>1, <2>2, Zenon
<1>2. [ExactWhenSmall]_vars => [appendOnly => ExactWhenSmall]_vars
  OBVIOUS
<1>3. VectorsSpec /\ appendOnly => AppendOnlyIsExact
  <2>1. GrowSpec => [][ExactWhenSmall]_vars
    BY SmallIndexExact DEF SmallIndexIsExact
  <2> QED
    BY <1>2, <2>1, AppendOnlyGrows, PTL DEF AppendOnlyIsExact
<1>4. VectorsSpec /\ ~appendOnly => AppendOnlyIsExact
  BY <1>1, PTL DEF VectorsSpec, AppendOnlyIsExact
<1> QED
  BY <1>3, <1>4
=============================================================================
