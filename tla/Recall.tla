------------------------------- MODULE Recall -------------------------------
(***************************************************************************)
(* The recall path: internal/search/pipeline.go with its rank fusion,      *)
(* post-processing, graph merge, filters, result cache and result pool,    *)
(* the two search legs of the store, and the recall handlers of the HTTP   *)
(* and MCP servers.  A query reads the keyword index, the vector index,    *)
(* the rows and the entity graph one after the other, without a            *)
(* transaction, while memories are stored and superseded.                  *)
(*                                                                         *)
(* Results are pointers: those the pool hands out, the copies the cache    *)
(* owns, and the copies made of those.  A pooled object that nothing       *)
(* refers to any more is not told apart from a new one, which is what      *)
(* sync.Pool allows; `pool` holds the others.                              *)
(*                                                                         *)
(* Scores are whole numbers: fractions of Unit for the fused rank, and the *)
(* sum of a memory's boosts (recency, importance, type, access, length,    *)
(* pin and edges) is one number, taken to be the same throughout.          *)
(*                                                                         *)
(* The key of the cache is one string, its fields joined with a NUL and     *)
(* types with a comma.  A field is the sequence of what stands between its *)
(* commas; a NUL inside a text, a namespace or a type is left out.          *)
(*                                                                         *)
(* ServedStale, Shared, EntriesPastCap and CutEarly are slips of the       *)
(* definitions that follow them, which the properties notice; the          *)
(* specification does not use them.                                        *)
(***************************************************************************)
EXTENDS Integers, Sequences, FiniteSets

CONSTANTS
    Memories,
    Initial,         \* those that are stored when the gateway starts
    Chunks,          \* vectors of RAG chunks, which share the vector index
    Namespace,       \* Namespace[m]
    Kinds,           \* types that a memory has or a query names
    Kind,            \* Kind[m]: its type
    Created,         \* Created[m]: a time
    Boost,           \* Boost[m]
    Texts,           \* query texts
    Matches,         \* Matches[t]: memories that match t's keywords, best first (BM25)
    Nearest,         \* Nearest[t]: memories and chunks by distance from t's vector
    Linked,          \* Linked[t][m]: score of m in the graph traversal from t's
                     \* entities, 0 when they do not reach it
    Queries,         \* records [text, ns, limit, floor, without, at]
    Parts,           \* Parts[k]: what stands between the commas of k's name
    Digits,          \* Digits[n]: how the lowest score n is written
    Stamp,           \* Stamp[n]: how the time n is written
    AnyNs, NoTime,
    Handlers,        \* goroutines that serve recalls
    Counters,        \* bound: goroutines that count accesses at a time
    Makers,          \* who makes result objects: the handlers, and for the cache
    CacheMaker,      \* this one
    MaxObjects,      \* bound: objects of one maker at a time
    CacheCap,        \* entries of the cache (256)
    Candidates,      \* the least that a leg is asked for (50)
    Widening,        \* a leg is asked for Widening * limit, the index for
                     \* Widening times more (3)
    K, VectorWeight, FTSWeight, OverlapPercent, InjectPercent, Unit,
    Loads,           \* bound: records of the queries each handler is given, and
                     \* how many statements and embeddings fail
    Forgettable,     \* bound: memories that are superseded
    None

Objects == Makers \X (1..MaxObjects)
QueryRecords == [text : Texts, ns : {Namespace[m] : m \in Memories} \cup {AnyNs}, limit : Nat \ {0},
                 floor : Nat, without : Seq(Kinds), at : Nat \cup {NoTime}]

ASSUME QueryAssumption == \A q \in Queries : q \in QueryRecords
ASSUME KindAssumption == \A m \in Memories : Kind[m] \in Kinds
ASSUME MakerAssumption == Handlers \subseteq Makers /\ CacheMaker \in Makers \ Handlers
ASSUME BoundAssumption == Forgettable \subseteq Memories /\ Loads \subseteq [asks : [Handlers -> SUBSET Queries], faults : Nat]
ASSUME InitialAssumption == Initial \subseteq Memories
ASSUME FiniteAssumption == IsFiniteSet(Memories)
ASSUME NoneAssumption == None \notin Memories \cup Chunks \cup Queries \cup Seq(Memories)
ASSUME RankAssumption ==
    /\ \A t \in Texts : Matches[t] \in Seq(Memories) /\ Nearest[t] \in Seq(Memories \cup Chunks)
    /\ \A t \in Texts : \A s \in {Matches[t], Nearest[t]} : \A i, j \in DOMAIN s : s[i] = s[j] => i = j
    /\ \A t \in Texts, m \in Memories : Linked[t][m] \in Nat
    /\ \A m \in Memories : Boost[m] \in Nat /\ Created[m] \in Nat
ASSUME WeightAssumption ==
    /\ {K, OverlapPercent, InjectPercent, Unit} \subseteq Nat
    /\ {VectorWeight, FTSWeight} \subseteq Nat \ {0}
    /\ {CacheCap, Candidates, Widening, MaxObjects} \subseteq Nat

VARIABLES
    status,    \* of every memory: "unknown", "active", "superseded"
    call,      \* what every handler is doing
    obj,       \* content of every result object
    pool,      \* released objects that something still refers to
    cache,     \* key -> entry
    counting,  \* results whose accesses a goroutine is counting
    load       \* of Loads, what is left of it

vars == <<status, call, obj, pool, cache, counting, load>>

-----------------------------------------------------------------------------
(* Sequences and scores *)

Seqs == INSTANCE SequencesExt

Elements(s) == {s[i] : i \in DOMAIN s}
FirstOf(s, n) == SubSeq(s, 1, IF Len(s) < n THEN Len(s) ELSE n)
Orders(S) == {s \in [1..Cardinality(S) -> S] : \A i, j \in DOMAIN s : s[i] = s[j] => i = j}
RankIn(s, x) == IF x \in Elements(s) THEN CHOOSE i \in DOMAIN s : s[i] = x ELSE 0

\* What is in S of a sequence without repetitions.
Selections(s, S) == {r \in Orders(S) : \A i, j \in DOMAIN r : i < j => RankIn(s, r[i]) < RankIn(s, r[j])}

\* sort.Slice is not stable and starts from the order of a map.
Ranked(S, score) == {s \in Orders(S) : \A i, j \in DOMAIN s : i < j => score[s[i]] >= score[s[j]]}

\* FuseWeighted, normalised so that Unit is rank 1 in both lists.
LegShare(weight, rank) == IF rank = 0 THEN 0 ELSE (weight * Unit * (K + 1)) \div (K + rank)
Fused(vector, keyword, m) ==
    (LegShare(VectorWeight, RankIn(vector, m)) + LegShare(FTSWeight, RankIn(keyword, m)))
        \div (VectorWeight + FTSWeight)

Boosted(score) == score + (score * OverlapPercent) \div 100
Injected(t, m, best) == (Linked[t][m] * Unit * InjectPercent) \div (100 * best) + Boost[m]

-----------------------------------------------------------------------------
(* Memories, queries, results *)

Active == {m \in Memories : status[m] = "active"}
Superseded == {m \in Memories : status[m] = "superseded"}

LegLimit(q) == IF q.limit * Widening < Candidates THEN Candidates ELSE q.limit * Widening
InNamespace(q) == {m \in Memories : q.ns \in {Namespace[m], AnyNs}}
AnswerLimit(q) == q.limit
Passes(q, m) == Kind[m] \notin Elements(q.without) /\ (q.at = NoTime \/ Created[m] <= q.at)

Blank == [id |-> None, score |-> 0]
Ids(results) == [i \in DOMAIN results |-> obj[results[i]].id]

Held == (UNION {Elements(call[h].results) : h \in Handlers})
          \cup (UNION {Elements(cache[q].results) : q \in DOMAIN cache})
          \cup (UNION {Elements(counting[c]) : c \in Counters})

\* n new objects that p makes: the least that nothing refers to.
New(p, n) ==
  LET free == {i \in 1..MaxObjects : <<p, i>> \notin Held \cup pool}
      least == {i \in free : Cardinality({j \in free : j < i}) < n}
  IN  {s \in [1..n -> {p} \X least] : \A i, j \in 1..n : i < j => s[i][2] < s[j][2]}

\* resultPool.Get, n times: released objects or new ones.
Got(p, n) ==
    UNION {{s \in [1..n -> pool \cup Elements(new)] :
              \A i, j \in 1..n : i < j => s[i] # s[j] /\ ({s[i], s[j]} \cap pool = {} => s[i][2] < s[j][2])} :
           new \in New(p, n)}

\* The pool loses the objects taken and gets the released ones; what nothing
\* refers to any more is forgotten.
Contents(content, taken, released) ==
    /\ obj' = [o \in Objects |-> IF o \in Held' \ released THEN content[o] ELSE Blank]
    /\ pool' = ((pool \ taken) \cup released) \cap Held'
-----------------------------------------------------------------------------
Pending == <<None>>
Stages == {"idle", "legs", "fetched", "linked", "merged", "reply"}

\* due: what was active when the search began, {} when the answer is the cache's
\* or the keyword leg failed; gone: what was superseded then; near: what the
\* vector index returned; vector, keyword: the ranked ids of the two legs;
\* linked: what the graph reaches; results: objects.
Idle == [stage |-> "idle", query |-> None, due |-> {}, gone |-> {}, near |-> <<>>, vector |-> <<>>,
         keyword |-> <<>>, linked |-> {}, results |-> <<>>]

Init ==
    /\ status = [m \in Memories |-> IF m \in Initial THEN "active" ELSE "unknown"]
    /\ call = [h \in Handlers |-> Idle]
    /\ obj = [o \in Objects |-> Blank]
    /\ pool = {}
    /\ cache = <<>>
    /\ counting = [c \in Counters |-> <<>>]
    /\ load \in Loads

Fault == load.faults > 0 /\ load' = [load EXCEPT !.faults = @ - 1]

Store(m) ==
    /\ status[m] = "unknown"
    /\ status' = [status EXCEPT ![m] = "active"]
    /\ UNCHANGED <<call, obj, pool, cache, counting, load>>

Supersede(m) ==
    /\ m \in Forgettable
    /\ status[m] = "active"
    /\ status' = [status EXCEPT ![m] = "superseded"]
    /\ UNCHANGED <<call, obj, pool, cache, counting, load>>

-----------------------------------------------------------------------------
(* The cache *)

\* strings.Join(types, ",")
Joined(types) == Seqs!FlattenSeq([i \in DOMAIN types |-> Parts[types[i]]])

\* Nothing in the key says which of the optional fields it has.
Field(present, parts) == IF present THEN <<parts>> ELSE <<>>
CacheKey(q) ==
    <<q.text, q.ns, q.limit>>
        \o Field(q.floor > 0, <<Digits[q.floor]>>)
        \o Field(q.without # <<>>, Joined(q.without))
        \o Field(q.at # NoTime, <<Stamp[q.at]>>)

ServedStale(q) == CacheKey(q) \in DOMAIN cache
Served(q) == CacheKey(q) \in DOMAIN cache /\ cache[CacheKey(q)].fresh
Without(keys) == [k \in DOMAIN cache \ keys |-> cache[k]]

Expire(k) ==
    /\ cache[k].fresh
    /\ cache' = [cache EXCEPT ![k].fresh = FALSE]
    /\ UNCHANGED <<status, call, obj, pool, counting, load>>

\* cloneResults: copies of n objects, new ones.
Shared(p, results) == {results}
Cloned(p, results) == New(p, Len(results))

\* What Set makes of the cache; at its capacity it drops any entry first.
With(rest, k, results) ==
    [x \in DOMAIN rest \cup {k} |-> IF x = k THEN [results |-> results, fresh |-> TRUE] ELSE rest[x]]
EntriesPastCap(k, results) ==
    {With(rest, k, results) :
        rest \in IF Cardinality(DOMAIN cache) <= CacheCap THEN {cache}
                 ELSE {Without({x}) : x \in DOMAIN cache}}
Entries(k, results) ==
    {With(rest, k, results) :
        rest \in IF Cardinality(DOMAIN cache) < CacheCap THEN {cache}
                 ELSE {Without({x}) : x \in DOMAIN cache}}

\* The copies hold what the originals hold.  Nothing reads a score after this,
\* and the model drops it.
Copied(to, from) ==
    [o \in Objects |-> CASE o \in Elements(to) -> [id |-> obj[from[RankIn(to, o)]].id, score |-> 0]
                         [] o \in Elements(from) -> [obj[o] EXCEPT !.score = 0]
                         [] OTHER -> obj[o]]

Hit(h, q) ==
    /\ call[h].stage = "idle"
    /\ Served(q)
    /\ \E copies \in Cloned(h, cache[CacheKey(q)].results) :
        /\ call' = [call EXCEPT ![h] = [Idle EXCEPT !.stage = "reply", !.query = q, !.gone = Superseded,
                                                    !.results = copies]]
        /\ UNCHANGED <<cache, counting>>
        /\ Contents(Copied(copies, cache[CacheKey(q)].results), {}, {})
    /\ UNCHANGED <<status, load>>

-----------------------------------------------------------------------------
(* A search *)

Miss(h, q) ==
    /\ call[h].stage = "idle"
    /\ ~Served(q)
    /\ cache' = Without({CacheKey(q)})
    /\ \E near \in {Pending, <<>>} :
        /\ (near = Pending /\ UNCHANGED load) \/ (near = <<>> /\ Fault)    \* no embedding
        /\ call' = [call EXCEPT ![h] = [Idle EXCEPT !.stage = "legs", !.query = q, !.due = Active,
                                                    !.gone = Superseded, !.near = near, !.vector = near, !.keyword = Pending]]
    /\ UNCHANGED counting
    /\ Contents(obj, {}, {})
    /\ UNCHANGED status

KeywordLeg(h) ==
  LET q == call[h].query IN
    /\ call[h].stage = "legs" /\ call[h].keyword = Pending
    /\ \E found \in Selections(Matches[q.text], Elements(Matches[q.text]) \cap Active \cap InNamespace(q)) :
        call' = [call EXCEPT ![h].keyword = FirstOf(found, LegLimit(q))]
    /\ UNCHANGED <<status, obj, pool, cache, counting, load>>

\* A keyword search that fails is taken for one that found nothing.
KeywordFails(h) ==
    /\ call[h].stage = "legs" /\ call[h].keyword = Pending
    /\ Fault
    /\ call' = [call EXCEPT ![h].keyword = <<>>, ![h].due = {}]
    /\ UNCHANGED <<status, obj, pool, cache, counting>>

\* Vectors of superseded memories may linger in the index.
VectorLeg(h) ==
  LET q == call[h].query IN
    /\ call[h].stage = "legs" /\ call[h].near = Pending
    /\ \E lingering \in SUBSET Superseded :
        \E found \in Selections(Nearest[q.text], Elements(Nearest[q.text]) \cap (Active \cup lingering \cup Chunks)) :
            LET near == FirstOf(found, Widening * LegLimit(q))
            IN call' = [call EXCEPT ![h].near = near,
                                    ![h].vector = IF q.ns = AnyNs THEN near ELSE Pending]
    /\ UNCHANGED <<status, obj, pool, cache, counting, load>>

\* The rows of a namespace come back in no particular order.
filterActiveIDs(h) ==
    /\ call[h].stage = "legs" /\ call[h].near # Pending /\ call[h].vector = Pending
    /\ \E ids \in Orders(Elements(call[h].near) \cap Active \cap InNamespace(call[h].query)) :
        call' = [call EXCEPT ![h].vector = ids]
    /\ UNCHANGED <<status, obj, pool, cache, counting, load>>

\* The vector leg or the SELECT of the rows fails.
SearchFails(h) ==
    /\ call[h].stage = "legs" /\ call[h].keyword # Pending
    /\ Fault
    /\ call' = [call EXCEPT ![h] = Idle]
    /\ UNCHANGED <<status, obj, pool, cache, counting>>

Process(h) ==
  LET c == call[h]
      rows == (Elements(c.vector) \cup Elements(c.keyword)) \cap Active
      score == [m \in rows |-> Fused(c.vector, c.keyword, m) + Boost[m]]
  IN
    /\ c.stage = "legs" /\ c.vector # Pending /\ c.keyword # Pending
    /\ \E s \in Ranked(rows, score), results \in Got(h, Cardinality(rows)) :
        /\ call' = [call EXCEPT ![h] = [Idle EXCEPT !.stage = "fetched", !.query = c.query, !.due = c.due,
                                                    !.gone = c.gone, !.results = results]]
        /\ UNCHANGED <<cache, counting>>
        /\ Contents([o \in Objects |-> IF o \in Elements(results)
                                       THEN [id |-> s[RankIn(results, o)], score |-> score[s[RankIn(results, o)]]]
                                       ELSE obj[o]], Elements(results), {})
    /\ UNCHANGED <<status, load>>

-----------------------------------------------------------------------------
(* The graph *)

\* The best 2 * limit that the traversal reaches, superseded ones included.
Reached(q) ==
  LET linked == {m \in Memories : status[m] # "unknown" /\ Linked[q.text][m] > 0}
  IN {S \in SUBSET linked :
        /\ Cardinality(S) = 2 * q.limit \/ (S = linked /\ Cardinality(S) < 2 * q.limit)
        /\ \A m \in S, n \in linked \ S : Linked[q.text][m] >= Linked[q.text][n]}

\* No entity in the query, nothing reached, or an error: the ranking stays.
NoGraph(h) ==
    /\ call[h].stage = "fetched"
    /\ \/ {} \in Reached(call[h].query) /\ UNCHANGED load
       \/ Fault
    /\ call' = [call EXCEPT ![h].stage = "merged"]
    /\ UNCHANGED <<status, obj, pool, cache, counting>>

Traverse(h) ==
    /\ call[h].stage = "fetched"
    /\ \E S \in Reached(call[h].query) \ {{}} :
        /\ call' = [call EXCEPT ![h].stage = "linked", ![h].linked = S]
        /\ obj' = [o \in Objects |-> IF o \in Elements(call[h].results) /\ obj[o].id \in S
                                     THEN [obj[o] EXCEPT !.score = Boosted(@)] ELSE obj[o]]
    /\ UNCHANGED <<status, pool, cache, counting, load>>

\* The others it reached are fetched, from any namespace, and all are sorted anew.
Merge(h, new) ==
  LET c == call[h] IN
    \E best \in {Linked[c.query.text][m] : m \in c.linked}, s \in Orders(new), more \in Got(h, Cardinality(new)) :
      LET content == [o \in Objects |->
                        IF o \in Elements(more)
                        THEN [id |-> s[RankIn(more, o)], score |-> Injected(c.query.text, s[RankIn(more, o)], best)]
                        ELSE obj[o]]
          all == Elements(c.results) \cup Elements(more)
      IN /\ \A m \in c.linked : Linked[c.query.text][m] <= best
         /\ \E results \in Ranked(all, [o \in all |-> content[o].score]) :
                call' = [call EXCEPT ![h].stage = "merged", ![h].linked = {}, ![h].results = results]
         /\ UNCHANGED <<cache, counting>>
         /\ Contents(content, Elements(more), {})

Inject(h) ==
    /\ call[h].stage = "linked"
    /\ Merge(h, (call[h].linked \ Elements(Ids(call[h].results))) \cap Active)
    /\ UNCHANGED <<status, load>>

InjectFails(h) ==
    /\ call[h].stage = "linked"
    /\ Fault
    /\ Merge(h, {})
    /\ UNCHANGED status

-----------------------------------------------------------------------------
(* Filters, cache, answer *)

Passing(q, results) ==
    {o \in Elements(results) : (q.floor = 0 \/ obj[o].score >= q.floor) /\ Passes(q, obj[o].id)}
CutEarly(q, results) == Selections(FirstOf(results, q.limit), Passing(q, FirstOf(results, q.limit)))

\* filterByTime and applyFilters, then the limit.
Filtered(q, results) == {FirstOf(s, q.limit) : s \in Selections(results, Passing(q, results))}

Finish(h) ==
  LET q == call[h].query IN
    /\ call[h].stage = "merged"
    /\ \E results \in Filtered(q, call[h].results) :
        /\ call' = [call EXCEPT ![h].stage = "reply", ![h].results = results]
        /\ \E c \in Counters : counting[c] = <<>> /\ counting' = [counting EXCEPT ![c] = results]
        /\ \E copies \in Cloned(CacheMaker, results) :
            /\ cache' \in Entries(CacheKey(q), copies)
            /\ Contents(Copied(copies, results), {}, {})
    /\ UNCHANGED <<status, load>>

\* The answer is encoded and its objects are reset and given back.
Respond(h) ==
    /\ call[h].stage = "reply"
    /\ call' = [call EXCEPT ![h] = Idle]
    /\ UNCHANGED <<cache, counting>>
    /\ Contents(obj, {}, Elements(call[h].results))
    /\ UNCHANGED <<status, load>>

\* An access is counted for whatever the object holds by now.
IncrementAccessCount(c) ==
    /\ counting[c] # <<>>
    /\ counting' = [counting EXCEPT ![c] = Tail(@)]
    /\ UNCHANGED <<call, cache>>
    /\ Contents(obj, {}, {})
    /\ UNCHANGED <<status, load>>

-----------------------------------------------------------------------------
Work(h) ==
    \/ KeywordLeg(h) \/ KeywordFails(h) \/ VectorLeg(h) \/ filterActiveIDs(h) \/ SearchFails(h)
    \/ Process(h) \/ NoGraph(h) \/ Traverse(h) \/ Inject(h) \/ InjectFails(h)
    \/ Finish(h) \/ Respond(h)

Next ==
    \/ \E m \in Memories : Store(m) \/ Supersede(m)
    \/ \E k \in DOMAIN cache : Expire(k)
    \/ \E h \in Handlers, q \in Queries : q \in load.asks[h] /\ (Hit(h, q) \/ Miss(h, q))
    \/ \E h \in Handlers : Work(h)
    \/ \E c \in Counters : IncrementAccessCount(c)

Spec == Init /\ [][Next]_vars

-----------------------------------------------------------------------------
(* Properties *)

\* Every variable has its type, and the cache never outgrows its capacity.
TypeOK ==
    /\ status \in [Memories -> {"unknown", "active", "superseded"}]
    /\ obj \in [Objects -> [id : Memories \cup {None}, score : Nat]]
    /\ pool \subseteq Objects
    /\ DOMAIN cache \subseteq {CacheKey(q) : q \in Queries}
    /\ \A k \in DOMAIN cache : cache[k] \in [results : Seq(Objects), fresh : BOOLEAN]
    /\ Cardinality(DOMAIN cache) <= CacheCap
    /\ counting \in [Counters -> Seq(Objects)]
    /\ load \in [asks : [Handlers -> SUBSET Queries], faults : Nat]
    /\ \A h \in Handlers :
        LET c == call[h] IN
        /\ DOMAIN c = DOMAIN Idle
        /\ c.stage \in Stages
        /\ c.query \in Queries \cup {None}
        /\ c.due \cup c.gone \subseteq Memories /\ c.linked \subseteq Memories
        /\ c.near \in Seq(Memories \cup Chunks \cup {None})
        /\ c.vector \in Seq(Memories \cup Chunks \cup {None})
        /\ c.keyword \in Seq(Memories \cup {None})
        /\ c.results \in Seq(Objects)

\* An object has one owner: the results of two handlers share none, the cache's
\* are its own, and a released object is nobody's, whatever is asked, answered
\* from the cache and released in between (pipeline.go:58-62, 181).
ResultsAreOwned ==
    /\ \A h \in Handlers : \A g \in Handlers \ {h} :
          Elements(call[h].results) \cap Elements(call[g].results) = {}
    /\ \A k \in DOMAIN cache :
          /\ Elements(cache[k].results) \cap pool = {}
          /\ \A h \in Handlers : Elements(cache[k].results) \cap Elements(call[h].results) = {}
          /\ \A p \in DOMAIN cache \ {k} : Elements(cache[k].results) \cap Elements(cache[p].results) = {}
    /\ \A h \in Handlers : Elements(call[h].results) \cap pool = {}

\* An answer that is shorter than the limit leaves out no memory that matches the
\* query's keywords: those of its namespace that it does not rule out, and that
\* stayed active, are all there, however the reads interleave with changes, as
\* long as the keyword leg did not fail and was not cut (pipeline.go:116-121).
KeywordMatchesAreAnswered ==
    \A h \in Handlers :
      LET c == call[h]
          matching == {m \in InNamespace(c.query) : m \in Elements(Matches[c.query.text])}
      IN c.stage = "reply" /\ Len(c.results) < c.query.limit
           /\ c.query.floor = 0 /\ Cardinality(matching) <= LegLimit(c.query)
         => \A m \in matching \cap Active \cap c.due :
                Passes(c.query, m) => m \in Elements(Ids(c.results))

\* Recall implements RecallService: however its reads interleave with changes,
\* an answer is one that a single step could have given, to the query or to one
\* whose key is the same (types/memory.go:149-169) and whose entry has not expired,
\* and it stays what it is while its handler encodes it.
Service == INSTANCE RecallService WITH
    Nothing <- None,
    Wanted <- Passes,
    Most <- AnswerLimit,
    Key <- CacheKey,
    asked <- [h \in Handlers |-> call[h].query],
    gone <- [h \in Handlers |-> call[h].gone],
    reply <- [h \in Handlers |-> IF call[h].stage = "reply" THEN Ids(call[h].results) ELSE None],
    kept <- {<<k, Ids(cache[k].results)>> : k \in {k \in DOMAIN cache : cache[k].fresh}}

AnswersAtOnce == Service!Spec

\* README.md:48: "Namespaces | Isolate memories by context".
NamespacesAreIsolated ==
    \A h \in Handlers : call[h].stage = "reply" =>
        Elements(Ids(call[h].results)) \subseteq InNamespace(call[h].query)
=============================================================================
