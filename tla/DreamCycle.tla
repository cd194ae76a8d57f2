----------------------------- MODULE DreamCycle -----------------------------
(***************************************************************************)
(* The phases of internal/dream/dream.go that decide which memories stay   *)
(* active: evict, contradiction, dedup and snapshot.  A cycle of the       *)
(* gateway and one of `nyawa dream`, in a process of its own, work on the  *)
(* same rows while handlers store and forget.  A phase reads a list and    *)
(* then writes row by row, without a transaction: rows change in between,  *)
(* a statement may fail (the database is locked), the process may die.     *)
(*                                                                         *)
(* A text is the set of words it tells, split into what its first 120      *)
(* bytes tell (head) and the rest, because a snapshot keeps 120 bytes of   *)
(* each memory; the first entry of a snapshot fits its first 120 bytes.  A *)
(* text of fewer than three words, which dedup skips, tells none.          *)
(*                                                                         *)
(* Two texts overlap when the younger one has more than DedupThreshold of  *)
(* the older one's words.  That is not transitive: of 13 words a memory    *)
(* may change one, the next memory another one, and the third still goes   *)
(* as a duplicate of the second, which went as a duplicate of the first.   *)
(*                                                                         *)
(* phasePriority calls LEAST and GREATEST, which SQLite lacks: both        *)
(* statements always fail, and importances change by contradictions only.  *)
(* phaseLink counts accesses of entities; phaseGraphBuild is module        *)
(* EntityGraph.                                                            *)
(*                                                                         *)
(* DuplicatesBothWays, CountTwice, SnapshotOfRest and MoreThanTwo are slips *)
(* of the definitions that follow them, which the properties notice; the   *)
(* specification does not use them.                                        *)
(***************************************************************************)
EXTENDS Integers, FiniteSets, Sequences

CONSTANTS
    Arrivals,      \* ids of the memories that handlers store, in the order of their
                   \* times (mem_<UnixNano>)
    Snapshots,     \* ids of snapshots (snap_<UnixNano>)
    Words,
    Says,          \* Says[m]: the text of m
    Accessed,      \* memories recalled at least StaleMinAccess times
    Pinned,
    Contradictory, \* pairs of memories with words of a contradictPair
    Forgettable,   \* bound: memories that handlers forget
    MaxAge,        \* bound: MaxAge[x] is the age x gets to
    Dreamers,      \* processes that run the Dream Cycle
    Manual,        \* those that are `nyawa dream`: one cycle, and the process ends
    SnapshotLimit, \* memories a snapshot takes at most (5)
    DedupThreshold, \* percentage of the older one's words (92)
    ContradictLimit, \* contradictions a cycle acts on at most (20)
    DedupLimit,    \* duplicates a cycle drops at most (10)
    MaxFaults,     \* bound: failing statements and deaths
    None

Texts == [head : SUBSET Words, rest : SUBSET Words]
Memories == {Arrivals[k] : k \in DOMAIN Arrivals}
Ids == Memories \cup Snapshots

ASSUME TextAssumption == Says \in [Memories -> Texts]
ASSUME IdAssumption == Memories \cap Snapshots = {} /\ None \notin Ids
ASSUME ArrivalAssumption ==
    /\ Arrivals \in Seq(Memories)
    /\ \A j, k \in DOMAIN Arrivals : Arrivals[j] = Arrivals[k] => j = k
ASSUME PinAssumption == Pinned \subseteq Memories /\ Accessed \subseteq Memories
ASSUME ManualAssumption == Manual \subseteq Dreamers
ASSUME AgingAssumption == MaxAge \in [Ids -> 0..2]
ASSUME PairAssumption == Contradictory \subseteq (Memories \X Memories)
ASSUME LimitAssumption ==
    /\ SnapshotLimit \in Nat /\ DedupLimit \in Nat /\ ContradictLimit \in Nat \ {0} /\ MaxFaults \in Nat
    /\ DedupThreshold \in 0..99

VARIABLES
    created,  \* ids in the order of their rows (created_at)
    active,   \* rows with superseded_at IS NULL
    text,     \* content of every row
    age,      \* 0; 1: older than 30 days; 2: older than 90 days (StaleDays)
    raised,   \* memories whose importance is 0.3; the others are stored with 0
    dream,    \* what each Dream Cycle is doing
    ran,      \* processes that ran their only cycle
    faults,   \* faults so far
    why,      \* history: what superseded an id, and for what
    botched   \* history: snapshots whose row was never written

rows == <<created, active, text, age, raised>>
vars == <<rows, dream, ran, faults, why, botched>>

-----------------------------------------------------------------------------
Stored == {created[k] : k \in DOMAIN created}
At(x) == CHOOSE k \in DOMAIN created : created[k] = x
Older(x, y) == At(x) < At(y)

\* A row for x behind the first k.
Inserted(x, k) ==
    [j \in 1..(Len(created) + 1) |-> IF j <= k THEN created[j] ELSE IF j = k + 1 THEN x ELSE created[j - 1]]
Whole(t) == t.head \cup t.rest
NoText == [head |-> {}, rest |-> {}]

Reasons == {"", "forget", "evict", "dedup", "snapshot"}
NoReason == [by |-> "", into |-> None]

Phases == {"asleep", "contradiction", "dedup", "snapshot"}

\* todo: pairs of contradictions or of duplicates still to act on; left: how many
\* of them at most; list: rows a snapshot still has to supersede; snap and draft: the
\* snapshot's id and text.
Cycles == [phase : Phases, todo : SUBSET (Ids \X Ids), left : Nat,
           list : SUBSET Ids, snap : Snapshots \cup {None}, draft : Texts]
Asleep == [phase |-> "asleep", todo |-> {}, left |-> 0, list |-> {}, snap |-> None, draft |-> NoText]
InPhase(ph) == [Asleep EXCEPT !.phase = ph]

Init ==
    /\ created = <<>>
    /\ active = {}
    /\ text = [x \in Ids |-> NoText]
    /\ age = [x \in Ids |-> 0]
    /\ raised = {}
    /\ dream = [p \in Dreamers |-> Asleep]
    /\ ran = {}
    /\ faults = 0
    /\ why = [x \in Ids |-> NoReason]
    /\ botched = {}

Fault == faults < MaxFaults /\ faults' = faults + 1

\* superseded_at is set on S; the history notes what did it first.
Dropped(S, by, into) ==
    /\ active' = active \ S
    /\ why' = [x \in Ids |-> IF x \in S \cap active THEN [by |-> by, into |-> into] ELSE why[x]]

-----------------------------------------------------------------------------
(* Handlers and time *)

Store(k) ==
  LET m == Arrivals[k] IN
    /\ m \notin Stored
    /\ \A j \in 1..(k - 1) : Arrivals[j] \in Stored
    /\ created' = Inserted(m, Len(created))
    /\ active' = active \cup {m}
    /\ text' = [text EXCEPT ![m] = Says[m]]
    /\ UNCHANGED <<age, raised, dream, ran, faults, why, botched>>

Forget(x) ==
    /\ x \in active \cap Forgettable
    /\ Dropped({x}, "forget", None)
    /\ UNCHANGED <<created, text, age, raised, dream, ran, faults, botched>>

\* Time passes; an older row is never behind a younger one.
GrowOld(x) ==
    /\ x \in Stored
    /\ age[x] < MaxAge[x]
    /\ \A y \in Stored : Older(y, x) => age[y] > age[x] \/ age[y] = MaxAge[y]
    /\ age' = [age EXCEPT ![x] = @ + 1]
    /\ UNCHANGED <<created, active, text, raised, dream, ran, faults, why, botched>>

-----------------------------------------------------------------------------
(* Evict and contradiction *)

\* Importance 0 (below 0.3) is that of a stored memory; a snapshot has 0.5.
Stale == {m \in active \cap Memories : age[m] = 2 /\ m \notin Accessed \cup raised \cup Pinned}

Wakes(p) == dream[p].phase = "asleep" /\ p \notin ran /\ ran' = ran \cup ({p} \cap Manual)

Evict(p) ==
    /\ Wakes(p)
    /\ Dropped(Stale, "evict", None)
    /\ dream' = [dream EXCEPT ![p] = InPhase("contradiction")]
    /\ UNCHANGED <<created, text, age, raised, faults, botched>>

\* Memories with the words of a contradictPair are read into two lists.
Contradictions == {c \in Contradictory : {c[1], c[2]} \subseteq active /\ c[1] # c[2]}

ListContradictions(p) ==
    /\ dream[p].phase = "contradiction" /\ dream[p].left = 0
    /\ dream' = [dream EXCEPT ![p] =
            IF Contradictions = {} THEN InPhase("dedup")
            ELSE [@ EXCEPT !.todo = Contradictions, !.left = ContradictLimit]]
    /\ UNCHANGED <<rows, ran, faults, why, botched>>

CountTwice(next, c, todo, left) ==
    IF todo = {} THEN InPhase(next) ELSE [c EXCEPT !.todo = todo, !.left = left - 1]

\* What is left to do in a phase that goes on to the phase `next'.
After(next, c, todo, left) ==
    IF todo = {} \/ left = 0 THEN InPhase(next)
    ELSE [c EXCEPT !.todo = todo, !.left = left]

\* One UPDATE for each pair, whatever has become of it: MAX(0.3, importance*0.9)
\* raises an importance below 0.3 to it.
Contradiction(p) ==
    /\ dream[p].phase = "contradiction" /\ dream[p].left > 0
    /\ \E c \in dream[p].todo :
       \/ /\ raised' = raised \cup {c[1], c[2]}
          /\ dream' = [dream EXCEPT ![p] = After("dedup", @, @.todo \ {c}, @.left - 1)]
          /\ UNCHANGED faults
       \/ /\ Fault
          /\ dream' = [dream EXCEPT ![p] = After("dedup", @, @.todo \ {c}, @.left)]
          /\ UNCHANGED raised
    /\ UNCHANGED <<created, active, text, age, ran, why, botched>>

\* A statement of a phase fails and the cycle goes on with the next one.
EvictFails(p) ==
    /\ Wakes(p)
    /\ Fault
    /\ dream' = [dream EXCEPT ![p] = InPhase("contradiction")]
    /\ UNCHANGED <<rows, why, botched>>

ContradictionFails(p) ==
    /\ dream[p].phase = "contradiction" /\ dream[p].left = 0
    /\ Fault
    /\ dream' = [dream EXCEPT ![p] = InPhase("dedup")]
    /\ UNCHANGED <<rows, ran, why, botched>>

-----------------------------------------------------------------------------
(* Dedup *)

\* Nearly all words of the older memory are in the younger one.
Overlaps(i, j) ==
    100 * Cardinality(Whole(text[i]) \cap Whole(text[j])) > DedupThreshold * Cardinality(Whole(text[i]))

DuplicatesBothWays ==
    {d \in active \X active : d[1] # d[2] /\ Overlaps(d[1], d[2])}

Duplicates ==
    {d \in active \X active : Older(d[1], d[2]) /\ Overlaps(d[1], d[2])}

\* The list is read and compared in memory; the phase is skipped when the index
\* holds fewer than two vectors.
ListForDedup(p) ==
    /\ dream[p].phase = "dedup" /\ dream[p].left = 0
    /\ \/ /\ Duplicates # {}
          /\ DedupLimit > 0
          /\ dream' = [dream EXCEPT ![p] = [InPhase("dedup") EXCEPT !.todo = Duplicates, !.left = DedupLimit]]
       \/ dream' = [dream EXCEPT ![p] = InPhase("snapshot")]
    /\ UNCHANGED <<rows, ran, faults, why, botched>>

\* The pairs come in the order of the two loops.
IsFirst(d, todo) == \A e \in todo :
    Older(d[1], e[1]) \/ (d[1] = e[1] /\ (d[2] = e[2] \/ Older(d[2], e[2])))

Dedup(p) ==
    /\ dream[p].phase = "dedup" /\ dream[p].left > 0
    /\ \E d \in dream[p].todo :
       /\ IsFirst(d, dream[p].todo)
       /\ \/ /\ Dropped({d[2]}, "dedup", d[1])
             /\ dream' = [dream EXCEPT ![p] = After("snapshot", @, @.todo \ {d}, @.left - 1)]
             /\ UNCHANGED faults
          \/ /\ Fault
             /\ dream' = [dream EXCEPT ![p] = After("snapshot", @, @.todo \ {d}, @.left)]
             /\ UNCHANGED <<active, why>>
    /\ UNCHANGED <<created, text, age, raised, ran, botched>>

-----------------------------------------------------------------------------
(* Snapshot *)

Importance(x) == IF x \in Snapshots THEN 2 ELSE IF x \in raised THEN 1 ELSE 0
Old == {x \in active : age[x] >= 1 /\ x \notin Pinned}

\* ORDER BY importance ASC LIMIT n
Selected ==
    {S \in SUBSET Old :
        /\ \/ Cardinality(S) = SnapshotLimit
           \/ S = Old /\ Cardinality(S) < SnapshotLimit
        /\ \A x \in S, y \in Old \ S : Importance(x) <= Importance(y)}

SnapshotOfRest(S, first) ==
    [head |-> text[first].rest, rest |-> UNION {text[x].head : x \in S \ {first}}]

\* Of each memory its first 120 bytes are kept.
SnapshotOf(S, first) ==
    [head |-> text[first].head, rest |-> UNION {text[x].head : x \in S \ {first}}]

\* UnixNano is new every time.
Unused == Snapshots \ (Stored \cup botched \cup {dream[p].snap : p \in Dreamers})
NewSnapshot == CHOOSE s \in Unused : TRUE

MoreThanTwo(S) == Cardinality(S) > 2
AtLeastTwo(S) == Cardinality(S) >= 2

ListForSnapshot(p) ==
    /\ dream[p].phase = "snapshot" /\ dream[p].snap = None
    /\ \E S \in Selected :
        IF ~AtLeastTwo(S) THEN dream' = [dream EXCEPT ![p] = Asleep]
        ELSE \E first \in S :
            /\ \A x \in S : Importance(first) <= Importance(x)
            /\ Unused # {}
            /\ dream' = [dream EXCEPT ![p] = [@ EXCEPT !.list = S, !.snap = NewSnapshot, !.draft = SnapshotOf(S, first)]]
    /\ UNCHANGED <<rows, ran, faults, why, botched>>

SnapshotFails(p) ==
    /\ dream[p].phase = "snapshot" /\ dream[p].snap = None
    /\ Fault
    /\ dream' = [dream EXCEPT ![p] = Asleep]
    /\ UNCHANGED <<rows, ran, why, botched>>

\* Superseded one by one; an error is ignored.
DropOld(p, x) ==
    /\ x \in dream[p].list
    /\ \/ Dropped({x}, "snapshot", dream[p].snap) /\ UNCHANGED faults
       \/ Fault /\ UNCHANGED <<active, why>>
    /\ dream' = [dream EXCEPT ![p].list = @ \ {x}]
    /\ UNCHANGED <<created, text, age, raised, ran, botched>>

\* The rows behind the first k may be memories of today.
StoredToday(k) == \A j \in (k + 1)..Len(created) : created[j] \in Memories /\ age[created[j]] = 0

\* datetime('now') sorts before the RFC 3339 times of the memories of the same day.
InsertSnapshot(p) ==
    LET c == dream[p] IN
    /\ c.snap # None /\ c.list = {}
    /\ \/ /\ \E k \in 0..Len(created) : StoredToday(k) /\ created' = Inserted(c.snap, k)
          /\ active' = active \cup {c.snap}
          /\ text' = [text EXCEPT ![c.snap] = c.draft]
          /\ UNCHANGED <<faults, botched>>
       \/ /\ Fault
          /\ botched' = botched \cup {c.snap}
          /\ UNCHANGED <<created, active, text>>
    /\ dream' = [dream EXCEPT ![p] = Asleep]
    /\ UNCHANGED <<age, raised, ran, why>>

Die(p) ==
    /\ dream[p].phase # "asleep"
    /\ Fault
    /\ dream' = [dream EXCEPT ![p] = Asleep]
    /\ botched' = botched \cup ({dream[p].snap} \ {None})
    /\ UNCHANGED <<rows, ran, why>>

-----------------------------------------------------------------------------
Step(p) ==
    \/ Evict(p) \/ EvictFails(p)
    \/ ListContradictions(p) \/ Contradiction(p) \/ ContradictionFails(p)
    \/ ListForDedup(p) \/ Dedup(p)
    \/ ListForSnapshot(p) \/ SnapshotFails(p) \/ InsertSnapshot(p)
    \/ \E x \in Ids : DropOld(p, x)

Next ==
    \/ \E k \in DOMAIN Arrivals : Store(k)
    \/ \E x \in Ids : Forget(x) \/ GrowOld(x)
    \/ \E p \in Dreamers : Step(p) \/ Die(p)

Spec == Init /\ [][Next]_vars

\* The gateway's loop wakes up again and again and its cycle goes on; nobody has
\* to store, to forget or to run a cycle by hand.
FairSpec == Spec /\ \A p \in Dreamers \ Manual : WF_vars(Step(p))

-----------------------------------------------------------------------------
(* Properties *)

\* Every variable has its type.
TypeOK ==
    /\ created \in Seq(Ids)
    /\ active \subseteq Ids
    /\ text \in [Ids -> Texts]
    /\ age \in [Ids -> 0..2]
    /\ raised \subseteq Memories
    /\ dream \in [Dreamers -> Cycles]
    /\ ran \subseteq Manual
    /\ faults \in 0..MaxFaults
    /\ why \in [Ids -> [by : Reasons, into : Ids \cup {None}]]
    /\ botched \subseteq Snapshots

\* Whoever goes from a duplicate to the memory it was dropped for comes from y
\* to x: x is in every set that has y and is closed under that.
ChainLeads(y, x) ==
    \A S \in SUBSET Ids :
        (y \in S /\ \A z \in S : why[z].by = "dedup" => why[z].into \in S) => x \in S

\* What dedup drops repeats the older memory it was dropped for, and the chain of
\* such memories ends in one that dedup has not dropped, however long it is and
\* whichever of two Dream Cycles with lists of their own made its links:
\* dream.go:164-215 goes on comparing with memories it has just superseded.
\* Nothing more holds: the end of the chain need not overlap its beginning.
RepresentativeRemains ==
    \A y \in Stored : why[y].by = "dedup" =>
        /\ Older(why[y].into, y) /\ Overlaps(why[y].into, y)
        /\ \E x \in Stored : why[x].by # "dedup" /\ Older(x, y) /\ ChainLeads(y, x)

\* A memory superseded for a snapshot has its first 120 bytes in that snapshot,
\* in the row or in the cycle that is about to insert it, unless the INSERT
\* failed or the process died before it (dream.go:260-279).
SnapshotKeepsHeads ==
    \A x \in Stored : why[x].by = "snapshot" =>
        LET s == why[x].into IN
        \/ s \in botched
        \/ s \in Stored /\ text[x].head \subseteq Whole(text[s])
        \/ \E p \in Dreamers : dream[p].snap = s /\ text[x].head \subseteq Whole(dream[p].draft)

\* Old memories are condensed in the end: again and again fewer than two
\* unpinned memories older than 30 days are active, whatever fails on the way.
OldAreCondensed == []<>(Cardinality(Old) < 2)
=============================================================================
