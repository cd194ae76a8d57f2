---------------------------- MODULE RecallProofs ----------------------------
(***************************************************************************)
(* Proofs about Recall, for any memories, rankings, queries, handlers and  *)
(* bounds.                                                                 *)
(*                                                                         *)
(* Every step of a handler takes objects that are released or that nothing *)
(* refers to, and touches no others (HandlerStep): hence what the others   *)
(* have, and what the cache holds, stays as it is.  That is why an answer  *)
(* is an answer of RecallService.                                          *)
(***************************************************************************)
EXTENDS Recall, FiniteSetTheorems, TLAPS

Fields == {"stage", "query", "due", "gone", "near", "vector", "keyword", "linked", "results"}

CallTyped(c) ==
    /\ DOMAIN c = Fields
    /\ c.stage \in Stages
    /\ c.results \in Seq(Objects)
    /\ c.stage # "idle" => c.query \in Queries
    /\ c.stage = "idle" => c.query = None /\ c.gone = {}
    /\ c.stage \in {"idle", "legs"} => c.results = <<>>
    /\ c.due \cup c.gone \subseteq Memories
    /\ c.linked \subseteq {m \in Memories : c.stage = "linked" /\ Linked[c.query.text][m] > 0}
    /\ c.near \in Seq(Memories \cup Chunks \cup {None}) /\ c.vector \in Seq(Memories \cup Chunks \cup {None})
    /\ c.keyword \in Seq(Memories \cup {None})

CallsTyped == DOMAIN call = Handlers /\ \A h \in Handlers : CallTyped(call[h])

ObjectRecords == [id : Memories \cup {None}, score : Nat]
ObjectsTyped == pool \subseteq Objects /\ obj \in [Objects -> ObjectRecords]

Keys == {CacheKey(q) : q \in Queries}

CacheTyped ==
    /\ DOMAIN cache \subseteq Keys
    /\ \A k \in DOMAIN cache : cache[k] \in [results : Seq(Objects), fresh : BOOLEAN]
    /\ IsFiniteSet(DOMAIN cache) /\ Cardinality(DOMAIN cache) <= CacheCap

StatusTyped == status \in [Memories -> {"unknown", "active", "superseded"}]

\* What was superseded stays so.
GoneStays(c) == \A m \in c.gone : m \in Memories /\ status[m] = "superseded"

\* What a search has found is no memory twice, and none that was gone.
FoundSound(c) ==
    c.stage \in {"fetched", "linked", "merged"} =>
        /\ \A i \in DOMAIN c.results :
             LET m == obj[c.results[i]].id IN m \in Memories /\ status[m] # "unknown" /\ m \notin c.gone
        /\ \A i, j \in DOMAIN c.results : obj[c.results[i]].id = obj[c.results[j]].id => i = j

\* What matches a query's keywords; what of it has been active since the search began.
Matching(q) == {m \in InNamespace(q) : m \in Elements(Matches[q.text])}
Due(c) == {m \in Matching(c.query) : status[m] = "active" /\ m \in c.due}
Whole(q) == q.floor = 0 /\ Cardinality(Matching(q)) <= LegLimit(q)

\* A search whose keyword leg was not cut still has all that is due to it.
DueSound(c) ==
    /\ \A m \in c.due : m \in Memories /\ status[m] # "unknown"
    /\ Whole(c.query) =>
        /\ c.stage = "legs" /\ c.keyword # Pending => Due(c) \subseteq Elements(c.keyword)
        /\ c.stage \in {"fetched", "linked", "merged"} => Due(c) \subseteq Elements(Ids(c.results))
        /\ c.stage = "reply" /\ Len(c.results) < c.query.limit =>
              \A m \in Due(c) : Passes(c.query, m) => m \in Elements(Ids(c.results))

RecallInv ==
    /\ StatusTyped /\ CallsTyped /\ ObjectsTyped /\ CacheTyped
    /\ ResultsAreOwned
    /\ \A h \in Handlers : GoneStays(call[h]) /\ FoundSound(call[h]) /\ DueSound(call[h])

\* What a handler answers, and what the cache answers with.
AnswerOf(h) == IF call[h].stage = "reply" THEN Ids(call[h].results) ELSE None
Kept == {<<q, Ids(cache[q].results)>> : q \in {q \in DOMAIN cache : cache[q].fresh}}

-----------------------------------------------------------------------------
(* Objects *)

\* What is in a sequence.
LEMMA ElementsFacts ==
    ASSUME NEW S, NEW s \in Seq(S)
    PROVE  /\ Elements(s) \subseteq S /\ \A i \in DOMAIN s : s[i] \in Elements(s)
           /\ \A x \in Elements(s) : \E i \in DOMAIN s : s[i] = x
           /\ IsFiniteSet(Elements(s)) /\ Cardinality(Elements(s)) \in Nat
<1>1. DOMAIN s = 1..Len(s) /\ Len(s) \in Nat
  OBVIOUS
<1>2. s \in Surjection(1..Len(s), Elements(s))
  BY <1>1 DEF Surjection, Elements
<1>3. IsFiniteSet(1..Len(s))
  BY <1>1, FS_Interval
<1>4. IsFiniteSet(Elements(s))
  BY <1>2, <1>3, FS_Surjection
<1> QED
  BY <1>1, <1>4, FS_CardinalityType DEF Elements

\* In a sequence without repetitions, the place of its i-th element is i.
LEMMA RankFacts ==
    ASSUME NEW S, NEW s \in Seq(S), \A i, j \in DOMAIN s : s[i] = s[j] => i = j
    PROVE  /\ \A i \in DOMAIN s : RankIn(s, s[i]) = i
           /\ \A x \in Elements(s) : RankIn(s, x) \in DOMAIN s /\ s[RankIn(s, x)] = x
BY DEF RankIn, Elements

\* An order of a finite set is a sequence without repetitions.
LEMMA OrderFacts ==
    ASSUME NEW S, IsFiniteSet(S), NEW s \in Orders(S)
    PROVE  /\ s \in Seq(S) /\ \A i, j \in DOMAIN s : s[i] = s[j] => i = j
           /\ Elements(s) = S /\ Len(s) = Cardinality(S)
<1>1. Cardinality(S) \in Nat
  BY FS_CardinalityType
<1>2. s \in [1..Cardinality(S) -> S] /\ \A i, j \in DOMAIN s : s[i] = s[j] => i = j
  BY DEF Orders
<1>3. s \in Seq(S) /\ Len(s) = Cardinality(S) /\ DOMAIN s = 1..Cardinality(S)
  BY <1>1, <1>2
<1>4. s \in Injection(1..Cardinality(S), S)
  BY <1>2 DEF Injection, IsInjective
<1>5. Cardinality(1..Cardinality(S)) = Cardinality(S)
  BY <1>1, FS_Interval
<1>6. s \in Surjection(1..Cardinality(S), S)
  BY <1>4, <1>5, FS_Injection
<1>7. Elements(s) = S
  BY <1>2, <1>3, <1>6 DEF Surjection, Elements
<1> QED
  BY <1>2, <1>3, <1>7

\* A shorter interval.
LEMMA IntervalFacts ==
    ASSUME NEW n \in Nat, NEW k \in 0..n
    PROVE  1..k \subseteq 1..n
OBVIOUS

\* The first n of a sequence.
LEMMA FirstOfFacts ==
    ASSUME NEW S, NEW s \in Seq(S), NEW n \in Nat
    PROVE  /\ FirstOf(s, n) \in Seq(S) /\ Len(FirstOf(s, n)) <= n
           /\ DOMAIN FirstOf(s, n) \subseteq DOMAIN s /\ \A i \in DOMAIN FirstOf(s, n) : FirstOf(s, n)[i] = s[i]
           /\ Len(FirstOf(s, n)) = n \/ Len(FirstOf(s, n)) = Len(s)
           /\ Len(FirstOf(s, n)) = Len(s) => Elements(FirstOf(s, n)) = Elements(s)
<1> DEFINE k == IF Len(s) < n THEN Len(s) ELSE n
<1>1. k \in 0..Len(s) /\ k <= n
  OBVIOUS
<1>0. (k = n \/ k = Len(s)) /\ Len(s) \in Nat /\ DOMAIN s = 1..Len(s)
  OBVIOUS
<1> HIDE DEF k
<1>2. PICK f : f = FirstOf(s, n) /\ f = SubSeq(s, 1, k)
  BY DEF FirstOf, k
<1>3. f \in Seq(S) /\ Len(f) = k /\ DOMAIN f = 1..k /\ \A i \in 1..k : f[i] = s[i]
  <2>1. SubSeq(s, 1, k) \in Seq(S) /\ Len(SubSeq(s, 1, k)) = k /\ \A i \in 1..k : SubSeq(s, 1, k)[i] = s[i]
    BY <1>1
  <2> QED
    BY <1>2, <2>1
<1>4. Len(f) <= n /\ (Len(f) = n \/ Len(f) = Len(s)) /\ DOMAIN f \subseteq DOMAIN s
  <2>1. Len(f) = k /\ DOMAIN f = 1..k
    BY <1>3
  <2>2. 1..k \subseteq 1..Len(s)
    BY <1>0, <1>1, IntervalFacts, Zenon
  <2>3. DOMAIN f \subseteq DOMAIN s
    BY <1>0, <2>1, <2>2, Zenon
  <2>4. Len(f) <= n
    BY <1>1, <2>1
  <2>5. Len(f) = n \/ Len(f) = Len(s)
    BY <1>0, <2>1, Zenon
  <2> QED
    BY <2>3, <2>4, <2>5
<1>5. Len(f) = Len(s) => Elements(f) = Elements(s)
  BY <1>0, <1>3 DEF Elements
<1> QED
  BY <1>2, <1>3, <1>4, <1>5

\* The first n of a selection are of what is selected, and all of it unless it is cut.
LEMMA SelectionFacts ==
    ASSUME NEW T, NEW s \in Seq(T), NEW S, S \subseteq Elements(s), NEW r \in Selections(s, S), NEW n \in Nat
    PROVE  /\ FirstOf(r, n) \in Seq(S) /\ Len(FirstOf(r, n)) <= n
           /\ \A i, j \in DOMAIN FirstOf(r, n) : FirstOf(r, n)[i] = FirstOf(r, n)[j] => i = j
           /\ Cardinality(S) <= n \/ Len(FirstOf(r, n)) < n => Elements(FirstOf(r, n)) = S
           /\ IsFiniteSet(S)
<1>1. IsFiniteSet(S) /\ Cardinality(S) \in Nat
  BY ElementsFacts, FS_Subset, FS_CardinalityType
<1>2. /\ r \in Seq(S) /\ \A i, j \in DOMAIN r : r[i] = r[j] => i = j
      /\ Elements(r) = S /\ Len(r) = Cardinality(S)
  BY <1>1, OrderFacts DEF Selections
<1> DEFINE f == FirstOf(r, n)
<1>3. /\ f \in Seq(S) /\ Len(f) <= n /\ DOMAIN f \subseteq DOMAIN r /\ \A i \in DOMAIN f : f[i] = r[i]
      /\ Len(f) = n \/ Len(f) = Len(r)
      /\ Len(f) = Len(r) => Elements(f) = Elements(r)
  BY <1>2, FirstOfFacts
<1> HIDE DEF f
<1>4. Len(f) \in Nat /\ Len(f) <= Len(r)
  BY <1>2, <1>3
<1> QED
  BY <1>1, <1>2, <1>3, <1>4 DEF f

\* What handlers and the cache have is held.
HeldHolds ==
    /\ \A h \in Handlers : Elements(call[h].results) \subseteq Held
    /\ \A q \in DOMAIN cache : Elements(cache[q].results) \subseteq Held

LEMMA HeldFacts == HeldHolds
<1>1. ASSUME NEW h \in Handlers PROVE Elements(call[h].results) \subseteq Held
  <2>1. Elements(call[h].results) \in {Elements(call[g].results) : g \in Handlers}
    OBVIOUS
  <2> QED
    BY <2>1, Zenon DEF Held
<1>2. ASSUME NEW q \in DOMAIN cache PROVE Elements(cache[q].results) \subseteq Held
  <2>1. Elements(cache[q].results) \subseteq UNION {Elements(cache[k].results) : k \in DOMAIN cache}
    OBVIOUS
  <2>2. UNION {Elements(cache[k].results) : k \in DOMAIN cache} \subseteq Held
    BY Zenon DEF Held
  <2> QED
    BY <2>1, <2>2, Zenon
<1> QED
  BY <1>1, <1>2 DEF HeldHolds

\* An element of {p} \X S.
LEMMA ProductFacts ==
    ASSUME NEW p, NEW S, NEW x \in {p} \X S
    PROVE  x = <<p, x[2]>> /\ x[2] \in S
OBVIOUS

\* New objects are new, and no two the same.
LEMMA NewFacts ==
    ASSUME NEW p \in Makers, NEW n \in Nat, NEW s \in New(p, n)
    PROVE  /\ s \in Seq(Objects) /\ Len(s) = n /\ \A i, j \in DOMAIN s : s[i] = s[j] => i = j
           /\ \A o \in Elements(s) : o \in Objects /\ o \notin Held \cup pool
<1> DEFINE free == {i \in 1..MaxObjects : <<p, i>> \notin Held \cup pool}
           least == {i \in free : Cardinality({j \in free : j < i}) < n}
<1>1. s \in [1..n -> {p} \X least] /\ \A i, j \in 1..n : i < j => s[i][2] < s[j][2]
  BY DEF New
<1>2. \A i \in 1..n : s[i] \in Objects /\ s[i] \notin Held \cup pool /\ s[i][2] \in Nat
  <2>1. ASSUME NEW i \in 1..n PROVE s[i] \in Objects /\ s[i] \notin Held \cup pool /\ s[i][2] \in Nat
    <3>1. s[i] \in {p} \X least
      BY <1>1
    <3>2. s[i] = <<p, s[i][2]>> /\ s[i][2] \in least
      BY <3>1, ProductFacts, Zenon
    <3> QED
      BY <3>2 DEF Objects
  <2> QED
    BY <2>1
<1> HIDE DEF least
<1>3. s \in Seq(Objects) /\ DOMAIN s = 1..n /\ Len(s) = n
  BY <1>1, <1>2
<1>4. \A i, j \in 1..n : s[i] = s[j] => i = j
  BY <1>1, <1>2
<1> QED
  BY <1>2, <1>3, <1>4 DEF Elements

\* Objects from the pool are released ones or new, and no two the same.
LEMMA GotFacts ==
    ASSUME NEW p \in Makers, NEW n \in Nat, NEW s \in Got(p, n), pool \subseteq Objects
    PROVE  /\ s \in Seq(Objects) /\ Len(s) = n /\ \A i, j \in DOMAIN s : s[i] = s[j] => i = j
           /\ \A o \in Elements(s) : o \in pool \/ o \notin Held
<1>1. PICK new \in New(p, n) : s \in [1..n -> pool \cup Elements(new)] /\ \A i, j \in 1..n : i < j => s[i] # s[j]
  BY DEF Got
<1>2. \A o \in Elements(new) : o \in Objects /\ o \notin Held
  BY <1>1, NewFacts
<1>3. s \in Seq(Objects) /\ DOMAIN s = 1..n /\ Len(s) = n
  BY <1>1, <1>2
<1>4. \A i, j \in 1..n : s[i] = s[j] => i = j
  BY <1>1
<1> QED
  BY <1>1, <1>2, <1>3, <1>4 DEF Elements

-----------------------------------------------------------------------------
(* Steps *)

\* A handler h takes the objects T, gives back some that it had, and stores an
\* answer in the cache under k.
Moves(h, T, k) ==
    /\ UNCHANGED status /\ ObjectsTyped' /\ CacheTyped'
    /\ DOMAIN call' = Handlers /\ \A g \in Handlers \ {h} : call'[g] = call[g]
    /\ CallTyped(call[h])' /\ GoneStays(call[h])' /\ FoundSound(call[h])' /\ DueSound(call[h])'
    /\ \A o \in T : o \in pool \/ o \notin Held
    /\ Elements(call'[h].results) \subseteq Elements(call[h].results) \cup T
    /\ pool' \subseteq pool \cup Elements(call[h].results)
    /\ pool' \cap Elements(call'[h].results) = {}
    /\ \A o \in Objects \cap Held \cap Held' : o \in Elements(call[h].results) \cup T \/ obj'[o].id = obj[o].id
    /\ \A q \in DOMAIN cache' :
         \/ q \in DOMAIN cache /\ cache'[q].results = cache[q].results
         \/ q = k /\ \A o \in Elements(cache'[q].results) : o \notin Held \cup pool \cup T

\* What the others have, and what the cache holds, stays as it is.
OthersAnswer(h) == \A g \in Handlers \ {h} : AnswerOf(g)' = AnswerOf(g)
IdsStay == \A q \in DOMAIN cache' : q \in DOMAIN cache /\ cache'[q].results = cache[q].results
                                      => Ids(cache[q].results)' = Ids(cache[q].results)

LEMMA HandlerStep ==
    ASSUME RecallInv, NEW h \in Handlers, NEW T, NEW k, Moves(h, T, k)
    PROVE  RecallInv' /\ OthersAnswer(h) /\ IdsStay
<1> USE DEF Moves
<1> DEFINE R(g) == Elements(call[g].results)
           C(q) == Elements(cache[q].results)
<1>1. HeldHolds /\ HeldHolds'
  BY HeldFacts, PTL
<1>2. /\ \A g \in Handlers : R(g) \subseteq Held /\ R(g)' \subseteq Held'
      /\ \A q \in DOMAIN cache : C(q) \subseteq Held
      /\ \A q \in DOMAIN cache' : C(q)' \subseteq Held'
  BY <1>1 DEF HeldHolds
<1>3. /\ \A g \in Handlers, f \in Handlers : g # f => R(g) \cap R(f) = {}
      /\ \A q \in DOMAIN cache : C(q) \cap pool = {} /\ \A g \in Handlers : C(q) \cap R(g) = {}
      /\ \A q, p \in DOMAIN cache : q # p => C(q) \cap C(p) = {}
      /\ \A g \in Handlers : R(g) \cap pool = {}
  BY DEF RecallInv, ResultsAreOwned
<1>4. \A g \in Handlers \ {h} : R(g)' = R(g)
  OBVIOUS
<1>5. \A q \in DOMAIN cache' : \/ q \in DOMAIN cache /\ C(q)' = C(q)
                               \/ q = k /\ \A o \in C(q)' : o \notin Held \cup pool \cup T
  OBVIOUS
<1>0. /\ \A g \in Handlers : R(g) \subseteq Objects
      /\ \A q \in DOMAIN cache : C(q) \subseteq Objects
  BY DEF RecallInv, CallsTyped, CallTyped, CacheTyped, Elements
<1>6. \A g \in Handlers \ {h} : \A o \in R(g) : o \notin T /\ o \notin R(h) /\ obj'[o].id = obj[o].id
  BY <1>0, <1>2, <1>3, <1>4
<1>7. \A q \in DOMAIN cache' : q \in DOMAIN cache /\ C(q)' = C(q) =>
         \A o \in C(q) : o \notin T /\ o \notin R(h) /\ obj'[o].id = obj[o].id
  BY <1>0, <1>2, <1>3
<1>8. R(h)' \subseteq R(h) \cup T /\ pool' \subseteq pool \cup R(h) /\ pool' \cap R(h)' = {}
  OBVIOUS
<1>9. /\ \A g \in Handlers \ {h} : /\ \A i \in DOMAIN call[g].results : obj'[call[g].results[i]].id = obj[call[g].results[i]].id
                                   /\ Ids(call[g].results)' = Ids(call[g].results)
  BY <1>6 DEF Ids, Elements
<1>10. \A q \in DOMAIN cache' : q \in DOMAIN cache /\ cache'[q].results = cache[q].results
                                  => Ids(cache[q].results)' = Ids(cache[q].results)
  BY <1>7 DEF Ids, Elements
<1> HIDE DEF R, C
<1>11. ResultsAreOwned'
  <2>1. \A g \in Handlers, f \in Handlers : g # f => R(g)' \cap R(f)' = {}
    BY <1>3, <1>4, <1>6, <1>8
  <2>2. \A q \in DOMAIN cache' : C(q)' \cap pool' = {}
    BY <1>2, <1>3, <1>5, <1>8
  <2>3. \A q \in DOMAIN cache', g \in Handlers : C(q)' \cap R(g)' = {}
    BY <1>2, <1>3, <1>4, <1>5, <1>7, <1>8
  <2>4. \A q, p \in DOMAIN cache' : q # p => C(q)' \cap C(p)' = {}
    BY <1>2, <1>3, <1>5
  <2>5. \A g \in Handlers : R(g)' \cap pool' = {}
    BY <1>3, <1>4, <1>8
  <2> QED
    BY <2>1, <2>2, <2>3, <2>4, <2>5 DEF ResultsAreOwned, R, C
<1>12. ASSUME NEW g \in Handlers
       PROVE  CallTyped(call[g])' /\ GoneStays(call[g])' /\ FoundSound(call[g])' /\ DueSound(call[g])'
  <2>1. CASE g = h
    BY <2>1
  <2>2. CASE g # h
    <3>1. CallTyped(call[g]) /\ GoneStays(call[g]) /\ FoundSound(call[g]) /\ DueSound(call[g]) /\ call'[g] = call[g]
      BY <2>2 DEF RecallInv, CallsTyped
    <3>2. CallTyped(call[g])'
      BY <3>1 DEF CallTyped
    <3>3. GoneStays(call[g])' /\ FoundSound(call[g])'
      BY <1>9, <2>2, <3>1 DEF GoneStays, FoundSound
    <3>4. DueSound(call[g])'
      BY <1>9, <2>2, <3>1 DEF DueSound, Due
    <3> QED
      BY <3>2, <3>3, <3>4
  <2> QED
    BY <2>1, <2>2
<1>13. StatusTyped'
  BY DEF RecallInv, StatusTyped
<1>14. \A g \in Handlers \ {h} : AnswerOf(g)' = AnswerOf(g)
  BY <1>9 DEF AnswerOf
<1> QED
  BY <1>10, <1>11, <1>12, <1>13, <1>14 DEF RecallInv, CallsTyped, OthersAnswer, IdsStay

-----------------------------------------------------------------------------
(* Steps of the service *)

ServiceStep == [Service!Next]_(Service!service)

\* Handler h alone is asked something else, or answered.
OthersStay(h) ==
    \A g \in Handlers \ {h} : /\ call'[g].query = call[g].query /\ call'[g].gone = call[g].gone
                              /\ AnswerOf(g)' = AnswerOf(g)

\* A step that the service does not see.
LEMMA UnseenStep ==
    ASSUME UNCHANGED status, Kept' = Kept, NEW h \in Handlers, OthersStay(h),
           call'[h].query = call[h].query, call'[h].gone = call[h].gone, AnswerOf(h)' = AnswerOf(h)
    PROVE  ServiceStep
<1>1. \A g \in Handlers : /\ call'[g].query = call[g].query /\ call'[g].gone = call[g].gone
                          /\ AnswerOf(g)' = AnswerOf(g)
  BY DEF OthersStay
<1> QED
  BY <1>1 DEF ServiceStep, Service!service, AnswerOf, Kept, Ids

\* What is kept becomes less.
LEMMA DropStep ==
    ASSUME UNCHANGED status, Kept' \subseteq Kept,
           \A g \in Handlers : /\ call'[g].query = call[g].query /\ call'[g].gone = call[g].gone
                               /\ AnswerOf(g)' = AnswerOf(g)
    PROVE  ServiceStep
<1>1. Service!Drop
  BY DEF Service!Drop, AnswerOf, Kept, Ids
<1> QED
  BY <1>1 DEF ServiceStep, Service!Next

\* A handler is asked, and may have an answer that was kept.
LEMMA AskStep ==
    ASSUME UNCHANGED status, Kept' \subseteq Kept, NEW h \in Handlers, OthersStay(h), NEW q \in Queries,
           call[h].query = None, call'[h].query = q, call'[h].gone = Superseded,
           AnswerOf(h)' = AnswerOf(h) \/ \E k \in Kept : k[1] = CacheKey(q) /\ AnswerOf(h)' = k[2]
    PROVE  ServiceStep
<1> DEFINE asked == [g \in Handlers |-> call[g].query]
           gone == [g \in Handlers |-> call[g].gone]
           reply == [g \in Handlers |-> AnswerOf(g)]
<1>1. asked[h] = None /\ asked' = [asked EXCEPT ![h] = q]
  BY DEF OthersStay
<1>2. gone' = [gone EXCEPT ![h] = {m \in Memories : status[m] = "superseded"}]
  BY DEF OthersStay, Superseded
<1>3. reply' = reply \/ \E k \in Kept : k[1] = CacheKey(q) /\ reply' = [reply EXCEPT ![h] = k[2]]
  <2> DEFINE r(g) == AnswerOf(g)
  <2>1. \A g \in Handlers \ {h} : r(g)' = r(g)
    BY DEF OthersStay
  <2> HIDE DEF r
  <2> QED
    BY <2>1 DEF r
<1>4. Service!Ask(h, q)
  BY <1>1, <1>2, <1>3 DEF Service!Ask, AnswerOf, Kept, Ids
<1> QED
  BY <1>4 DEF ServiceStep, Service!Next

\* A handler is done.
LEMMA LeaveStep ==
    ASSUME UNCHANGED status, Kept' = Kept, NEW h \in Handlers, OthersStay(h),
           call[h].query # None, call'[h].query = None, call'[h].gone = {}, AnswerOf(h)' = None
    PROVE  ServiceStep
<1>1. Service!Leave(h)
  BY DEF Service!Leave, AnswerOf, Kept, Ids, OthersStay
<1> QED
  BY <1>1 DEF ServiceStep, Service!Next

\* A handler has its answer.
LEMMA ReplyStep ==
    ASSUME UNCHANGED status, NEW h \in Handlers, OthersStay(h),
           call[h].query # None, call'[h].query = call[h].query, call'[h].gone = call[h].gone,
           AnswerOf(h) = None, AnswerOf(h)' # None, Kept' \subseteq Kept \cup {<<CacheKey(call[h].query), AnswerOf(h)'>>},
           Service!IsAnswer(call[h].query, call[h].gone, AnswerOf(h)')
    PROVE  ServiceStep
<1>1. Service!Reply(h)
  BY DEF Service!Reply, AnswerOf, Kept, Ids, OthersStay
<1> QED
  BY <1>1 DEF ServiceStep, Service!Next

-----------------------------------------------------------------------------
(* Handlers *)

\* What the invariant says of one handler.
LEMMA HandlerFacts ==
    ASSUME RecallInv, NEW h \in Handlers
    PROVE  /\ CallTyped(call[h]) /\ GoneStays(call[h]) /\ FoundSound(call[h]) /\ DueSound(call[h])
           /\ DOMAIN call = Handlers /\ ObjectsTyped /\ CacheTyped /\ StatusTyped /\ h \in Makers
           /\ (call[h].query = None) = (call[h].stage = "idle")
BY MakerAssumption, NoneAssumption DEF RecallInv, CallsTyped, CallTyped

\* What the cache answers stays as it is if its entries do.
LEMMA KeptStays ==
    ASSUME IdsStay, cache' = cache
    PROVE  Kept' = Kept
BY DEF IdsStay, Kept

\* A handler goes on to another stage with the results that it had.
LEMMA StageStep ==
    ASSUME RecallInv, UNCHANGED <<status, pool, cache>>, ObjectsTyped', \A o \in Objects : obj'[o].id = obj[o].id,
           NEW h \in Handlers, NEW c, call' = [call EXCEPT ![h] = c], CallTyped(c),
           c.results = call[h].results, c.query = call[h].query, c.gone = call[h].gone,
           call[h].stage # "reply", c.stage # "reply",
           c.stage \in {"fetched", "linked", "merged"} => call[h].stage \in {"fetched", "linked", "merged"},
           c.due = call[h].due \/ c.due = {},
           c.stage = "legs" /\ c.keyword # Pending /\ Whole(c.query) => Due(c) \subseteq Elements(c.keyword)
    PROVE  RecallInv' /\ ServiceStep
<1>1. /\ CallTyped(call[h]) /\ GoneStays(call[h]) /\ FoundSound(call[h]) /\ DueSound(call[h])
      /\ DOMAIN call = Handlers /\ CacheTyped
      /\ \A g \in Handlers : call[g].results \in Seq(Objects)
      /\ \A q \in DOMAIN cache : cache[q].results \in Seq(Objects)
  BY HandlerFacts DEF RecallInv, CallsTyped, CallTyped, CacheTyped
<1>2. DOMAIN call' = Handlers /\ call'[h] = c /\ \A g \in Handlers \ {h} : call'[g] = call[g]
  BY <1>1
<1>3. CallTyped(call[h])' /\ GoneStays(call[h])' /\ CacheTyped'
  BY <1>1, <1>2 DEF CallTyped, GoneStays, CacheTyped
<1>4. \A i \in DOMAIN c.results : obj'[c.results[i]].id = obj[c.results[i]].id
  BY <1>1
<1>5. FoundSound(call[h])' /\ DueSound(call[h])'
  <2>1. FoundSound(call[h])'
    BY <1>1, <1>2, <1>4 DEF FoundSound
  <2>2. Ids(call[h].results)' = Ids(call[h].results)
    BY <1>2, <1>4 DEF Ids
  <2>3. Due(call[h])' = Due(c) /\ Due(c) \subseteq Due(call[h])
    BY <1>2 DEF Due
  <2>4. DueSound(call[h])'
    BY <1>1, <1>2, <2>2, <2>3 DEF DueSound
  <2> QED
    BY <2>1, <2>4
<1>6. pool' \cap Elements(call'[h].results) = {}
  BY <1>2 DEF RecallInv, ResultsAreOwned
<1>7. RecallInv' /\ OthersAnswer(h) /\ IdsStay
  <2>1. PICK T : T = {}
    OBVIOUS
  <2>2. Moves(h, T, h)
    BY <1>2, <1>3, <1>5, <1>6, <2>1 DEF Moves
  <2> QED
    BY <2>2, HandlerStep
<1>8. Kept' = Kept
  BY <1>7, KeptStays
<1>9. OthersStay(h) /\ AnswerOf(h)' = AnswerOf(h)
  BY <1>2, <1>7 DEF OthersStay, OthersAnswer, AnswerOf
<1> QED
  BY <1>2, <1>7, <1>8, <1>9, UnseenStep

\* A leg fills in what it found.
LEMMA LegStep ==
    ASSUME RecallInv, NEW h \in Handlers, call[h].stage = "legs", UNCHANGED <<status, obj, pool, cache>>,
           NEW due, due = call[h].due \/ due = {},
           NEW near \in Seq(Memories \cup Chunks \cup {None}), NEW vector \in Seq(Memories \cup Chunks \cup {None}),
           NEW keyword \in Seq(Memories \cup {None}),
           keyword = call[h].keyword \/ due = {} \/ (Whole(call[h].query) => Due(call[h]) \subseteq Elements(keyword)),
           call' = [call EXCEPT ![h] = [call[h] EXCEPT !.due = due, !.near = near, !.vector = vector, !.keyword = keyword]]
    PROVE  RecallInv' /\ ServiceStep
<1> DEFINE c == [call[h] EXCEPT !.due = due, !.near = near, !.vector = vector, !.keyword = keyword]
<1>1. CallTyped(call[h]) /\ DueSound(call[h]) /\ DOMAIN call = Handlers /\ ObjectsTyped
  BY HandlerFacts
<1>2. /\ DOMAIN c = Fields /\ c.stage = "legs" /\ c.query = call[h].query /\ c.due = due /\ c.gone = call[h].gone
      /\ c.near = near /\ c.vector = vector /\ c.keyword = keyword /\ c.linked = call[h].linked
      /\ c.results = call[h].results /\ call' = [call EXCEPT ![h] = c]
  BY <1>1 DEF CallTyped, Fields
<1> HIDE DEF c
<1>3. CallTyped(c)
  BY <1>1, <1>2 DEF CallTyped
<1>4. Due(c) \subseteq Due(call[h]) /\ (due = {} => Due(c) = {})
  BY <1>2 DEF Due
<1>5. c.stage = "legs" /\ c.keyword # Pending /\ Whole(c.query) => Due(c) \subseteq Elements(c.keyword)
  BY <1>1, <1>2, <1>4 DEF DueSound
<1>6. ObjectsTyped'
  BY <1>1 DEF ObjectsTyped
<1> QED
  BY <1>1, <1>2, <1>3, <1>5, <1>6, StageStep

\* What the namespace, the keywords and the state leave of a ranking is found, in
\* its order, unless it is cut.
LEMMA LegSteps ==
    ASSUME RecallInv, NEW h \in Handlers, KeywordLeg(h) \/ KeywordFails(h) \/ VectorLeg(h) \/ filterActiveIDs(h)
    PROVE  RecallInv' /\ ServiceStep
<1> DEFINE c == call[h]
           q == call[h].query
<1>1. CallTyped(c) /\ DueSound(c) /\ DOMAIN call = Handlers
  BY HandlerFacts
<1>2. c.stage = "legs" /\ UNCHANGED <<status, obj, pool, cache>>
  BY DEF KeywordLeg, KeywordFails, VectorLeg, filterActiveIDs
<1>3. /\ DOMAIN c = Fields /\ c.near \in Seq(Memories \cup Chunks \cup {None})
      /\ c.vector \in Seq(Memories \cup Chunks \cup {None}) /\ c.keyword \in Seq(Memories \cup {None})
      /\ q \in Queries /\ q.text \in Texts /\ LegLimit(q) \in Nat /\ Widening * LegLimit(q) \in Nat
  <2>1. q \in Queries
    BY <1>1, <1>2 DEF CallTyped
  <2>2. q.text \in Texts /\ q.limit \in Nat
    BY <2>1, QueryAssumption DEF QueryRecords
  <2>3. Widening \in Nat /\ Candidates \in Nat
    BY WeightAssumption
  <2>4. LegLimit(q) \in Nat
    BY <2>2, <2>3 DEF LegLimit
  <2>5. Widening * LegLimit(q) \in Nat
    BY <2>3, <2>4
  <2> QED
    BY <1>1, <2>1, <2>2, <2>4, <2>5 DEF CallTyped
<1>4. CASE KeywordLeg(h)
  <2> DEFINE S == Elements(Matches[q.text]) \cap Active \cap InNamespace(q)
  <2>1. PICK found \in Selections(Matches[q.text], S) : call' = [call EXCEPT ![h].keyword = FirstOf(found, LegLimit(q))]
    BY <1>4 DEF KeywordLeg
  <2>2. Matches[q.text] \in Seq(Memories)
    BY <1>3, RankAssumption
  <2>3. PICK keyword : keyword = FirstOf(found, LegLimit(q))
    OBVIOUS
  <2>4. keyword \in Seq(S) /\ (Cardinality(S) <= LegLimit(q) => Elements(keyword) = S)
    BY <1>3, <2>2, <2>3, SelectionFacts
  <2>5. Due(c) \subseteq S
    BY DEF Due, Matching, Active, InNamespace
  <2>6. Whole(q) => Cardinality(S) <= LegLimit(q)
    <3>1. S \subseteq Matching(q) /\ Matching(q) \subseteq Memories
      BY DEF Matching, InNamespace
    <3>2. IsFiniteSet(Matching(q))
      BY <3>1, FiniteAssumption, FS_Subset
    <3>3. /\ IsFiniteSet(S) /\ Cardinality(S) <= Cardinality(Matching(q))
          /\ Cardinality(S) \in Nat /\ Cardinality(Matching(q)) \in Nat
      BY <3>1, <3>2, FS_Subset, FS_CardinalityType
    <3> QED
      BY <1>3, <3>3 DEF Whole
  <2>7. S \subseteq Memories
    BY DEF Active
  <2> HIDE DEF S
  <2>8. keyword \in Seq(Memories \cup {None}) /\ (Whole(q) => Due(c) \subseteq Elements(keyword))
    BY <2>4, <2>5, <2>6, <2>7
  <2>9. call' = [call EXCEPT ![h] = [c EXCEPT !.due = c.due, !.near = c.near, !.vector = c.vector, !.keyword = keyword]]
    BY <1>1, <1>3, <2>1, <2>3 DEF Fields
  <2> QED
    BY <1>2, <1>3, <2>8, <2>9, LegStep
<1>5. CASE KeywordFails(h)
  <2>1. PICK due, keyword : due = {} /\ keyword = <<>>
    OBVIOUS
  <2>2. call' = [call EXCEPT ![h] = [c EXCEPT !.due = due, !.near = c.near, !.vector = c.vector, !.keyword = keyword]]
    BY <1>1, <1>3, <1>5, <2>1 DEF Fields, KeywordFails
  <2>3. keyword \in Seq(Memories \cup {None})
    BY <2>1
  <2> QED
    BY <1>2, <1>3, <2>1, <2>2, <2>3, LegStep
<1>6. CASE VectorLeg(h)
  <2>1. PICK lingering \in SUBSET Superseded : \E found \in Selections(Nearest[q.text], Elements(Nearest[q.text]) \cap (Active \cup lingering \cup Chunks)) :
           LET near == FirstOf(found, Widening * LegLimit(q))
           IN  call' = [call EXCEPT ![h].near = near, ![h].vector = IF q.ns = AnyNs THEN near ELSE Pending]
    BY <1>6 DEF VectorLeg
  <2> DEFINE S == Elements(Nearest[q.text]) \cap (Active \cup lingering \cup Chunks)
  <2>2. PICK found \in Selections(Nearest[q.text], S) :
           LET near == FirstOf(found, Widening * LegLimit(q))
           IN  call' = [call EXCEPT ![h].near = near, ![h].vector = IF q.ns = AnyNs THEN near ELSE Pending]
    BY <2>1
  <2>3. Nearest[q.text] \in Seq(Memories \cup Chunks) /\ S \subseteq Memories \cup Chunks /\ S \subseteq Elements(Nearest[q.text])
    BY <1>3, RankAssumption DEF Active, Superseded
  <2> HIDE DEF S
  <2>8. PICK near : near = FirstOf(found, Widening * LegLimit(q))
    OBVIOUS
  <2>4. near \in Seq(S)
    BY <1>3, <2>3, <2>8, SelectionFacts
  <2>5. PICK vector : vector = IF q.ns = AnyNs THEN near ELSE Pending
    OBVIOUS
  <2>6. near \in Seq(Memories \cup Chunks \cup {None}) /\ Pending \in Seq(Memories \cup Chunks \cup {None})
    BY <2>3, <2>4 DEF Pending
  <2>7. call' = [call EXCEPT ![h] = [c EXCEPT !.due = c.due, !.near = near, !.vector = vector, !.keyword = c.keyword]]
    BY <1>1, <1>3, <2>2, <2>5, <2>8 DEF Fields
  <2> QED
    BY <1>2, <1>3, <2>5, <2>6, <2>7, LegStep
<1>7. CASE filterActiveIDs(h)
  <2> DEFINE S == Elements(c.near) \cap Active \cap InNamespace(q)
  <2>1. PICK ids \in Orders(S) : call' = [call EXCEPT ![h].vector = ids]
    BY <1>7 DEF filterActiveIDs
  <2>2. S \subseteq Memories /\ IsFiniteSet(S)
    BY FiniteAssumption, FS_Subset DEF Active
  <2>3. ids \in Seq(S)
    BY <2>2, OrderFacts
  <2> HIDE DEF S
  <2>4. ids \in Seq(Memories \cup Chunks \cup {None})
    BY <2>2, <2>3
  <2>5. call' = [call EXCEPT ![h] = [c EXCEPT !.due = c.due, !.near = c.near, !.vector = ids, !.keyword = c.keyword]]
    BY <1>1, <1>3, <2>1 DEF Fields
  <2> QED
    BY <1>2, <1>3, <2>4, <2>5, LegStep
<1> QED
  BY <1>4, <1>5, <1>6, <1>7

\* Scores are natural numbers.
LEMMA DivisionFacts ==
    ASSUME NEW a \in Nat, NEW b \in Nat \ {0}
    PROVE  a \div b \in Nat
OBVIOUS

LEMMA BoostedFacts ==
    ASSUME NEW score \in Nat
    PROVE  Boosted(score) \in Nat
<1>1. OverlapPercent \in Nat /\ 100 \in Nat \ {0}
  BY WeightAssumption
<1>2. score * OverlapPercent \in Nat
  BY <1>1
<1>3. (score * OverlapPercent) \div 100 \in Nat
  BY <1>1, <1>2, DivisionFacts
<1> QED
  BY <1>3 DEF Boosted

LEMMA LegShareFacts ==
    ASSUME NEW weight \in Nat, NEW rank \in Nat
    PROVE  LegShare(weight, rank) \in Nat
<1>1. K \in Nat /\ Unit \in Nat
  BY WeightAssumption
<1>2. CASE rank # 0
  <2>1. weight * Unit \in Nat /\ K + 1 \in Nat /\ K + rank \in Nat \ {0}
    BY <1>1, <1>2
  <2>2. (weight * Unit) * (K + 1) \in Nat
    BY <2>1
  <2>3. (weight * Unit * (K + 1)) \div (K + rank) \in Nat
    BY <2>1, <2>2, DivisionFacts
  <2> QED
    BY <1>2, <2>3 DEF LegShare
<1> QED
  BY <1>2 DEF LegShare

LEMMA FusedFacts ==
    ASSUME NEW S, NEW vector \in Seq(S), NEW T, NEW keyword \in Seq(T), NEW m
    PROVE  Fused(vector, keyword, m) \in Nat
<1>1. RankIn(vector, m) \in Nat /\ RankIn(keyword, m) \in Nat
  BY DEF RankIn, Elements
<1>2. VectorWeight \in Nat \ {0} /\ FTSWeight \in Nat \ {0}
  BY WeightAssumption
<1>3. LegShare(VectorWeight, RankIn(vector, m)) \in Nat /\ LegShare(FTSWeight, RankIn(keyword, m)) \in Nat
  BY <1>1, <1>2, LegShareFacts
<1>4. /\ LegShare(VectorWeight, RankIn(vector, m)) + LegShare(FTSWeight, RankIn(keyword, m)) \in Nat
      /\ VectorWeight + FTSWeight \in Nat \ {0}
  BY <1>2, <1>3
<1> QED
  BY <1>4, DivisionFacts DEF Fused

LEMMA InjectedFacts ==
    ASSUME NEW t \in Texts, NEW m \in Memories, NEW best \in Nat \ {0}
    PROVE  Injected(t, m, best) \in Nat
<1>1. Linked[t][m] \in Nat /\ Unit \in Nat /\ InjectPercent \in Nat /\ Boost[m] \in Nat
  BY WeightAssumption, RankAssumption
<1>2. Linked[t][m] * Unit \in Nat
  BY <1>1
<1>3. (Linked[t][m] * Unit) * InjectPercent \in Nat
  BY <1>1, <1>2
<1>4. 100 * best \in Nat \ {0}
  OBVIOUS
<1>5. (Linked[t][m] * Unit * InjectPercent) \div (100 * best) \in Nat
  BY <1>3, <1>4, DivisionFacts
<1> QED
  BY <1>1, <1>5 DEF Injected

\* The graph adds nothing, or scores what it reaches.
LEMMA GraphSteps ==
    ASSUME RecallInv, NEW h \in Handlers, NoGraph(h) \/ Traverse(h)
    PROVE  RecallInv' /\ ServiceStep
<1>1. CallTyped(call[h]) /\ DOMAIN call = Handlers /\ ObjectsTyped
  BY HandlerFacts
<1>2. call[h].stage = "fetched" /\ UNCHANGED <<status, pool, cache>>
  BY DEF NoGraph, Traverse
<1> DEFINE onward(stage) == {m \in Memories : stage = "linked" /\ Linked[call[h].query.text][m] > 0}
<1>3. \E stage \in {"linked", "merged"} : \E linked \in SUBSET onward(stage) :
         call' = [call EXCEPT ![h] = [call[h] EXCEPT !.stage = stage, !.linked = linked]]
  <2>1. CASE NoGraph(h)
    <3>1. call' = [call EXCEPT ![h] = [call[h] EXCEPT !.stage = "merged"]]
      BY <2>1 DEF NoGraph
    <3>2. [call[h] EXCEPT !.stage = "merged"] = [call[h] EXCEPT !.stage = "merged", !.linked = {}]
      BY <1>1, <1>2 DEF CallTyped, Fields
    <3> QED
      BY <3>1, <3>2
  <2>2. CASE Traverse(h)
    <3>1. PICK S \in Reached(call[h].query) : call' = [call EXCEPT ![h].stage = "linked", ![h].linked = S]
      BY <2>2 DEF Traverse
    <3>2. S \in SUBSET onward("linked")
      BY <3>1 DEF Reached
    <3> QED
      BY <1>1, <3>1, <3>2
  <2> QED
    BY <2>1, <2>2
<1>4. PICK stage \in {"linked", "merged"} : \E linked \in SUBSET onward(stage) :
         call' = [call EXCEPT ![h] = [call[h] EXCEPT !.stage = stage, !.linked = linked]]
  BY <1>3
<1>5. PICK linked \in SUBSET onward(stage) : call' = [call EXCEPT ![h] = [call[h] EXCEPT !.stage = stage, !.linked = linked]]
  BY <1>4
<1> DEFINE c == [call[h] EXCEPT !.stage = stage, !.linked = linked]
<1>6. /\ DOMAIN c = Fields /\ c.stage = stage /\ c.query = call[h].query /\ c.gone = call[h].gone
      /\ c.results = call[h].results /\ c.linked = linked /\ c.due = call[h].due
      /\ c.near = call[h].near /\ c.vector = call[h].vector /\ c.keyword = call[h].keyword
  BY <1>1 DEF CallTyped, Fields
<1> HIDE DEF c
<1>7. CallTyped(c)
  BY <1>1, <1>2, <1>6 DEF CallTyped, Stages
<1>8. call' = [call EXCEPT ![h] = c]
  BY <1>5 DEF c
<1>9. ObjectsTyped' /\ \A o \in Objects : obj'[o].id = obj[o].id
  <2>1. CASE NoGraph(h)
    BY <1>1, <1>2, <2>1 DEF ObjectsTyped, NoGraph
  <2>2. CASE Traverse(h)
    <3>1. PICK S : obj' = [o \in Objects |-> IF o \in Elements(call[h].results) /\ obj[o].id \in S
                                             THEN [obj[o] EXCEPT !.score = Boosted(@)] ELSE obj[o]]
      BY <2>2 DEF Traverse
    <3>2. ASSUME NEW o \in Objects
          PROVE  obj'[o] \in ObjectRecords /\ obj'[o].id = obj[o].id
      <4>1. obj[o] \in ObjectRecords
        BY <1>1 DEF ObjectsTyped
      <4>2. Boosted(obj[o].score) \in Nat
        BY <4>1, BoostedFacts DEF ObjectRecords
      <4> QED
        BY <3>1, <4>1, <4>2 DEF ObjectRecords
    <3>3. obj' \in [Objects -> ObjectRecords]
      BY <3>1, <3>2
    <3> QED
      BY <1>1, <1>2, <3>2, <3>3 DEF ObjectsTyped
  <2> QED
    BY <2>1, <2>2
<1> QED
  BY <1>2, <1>6, <1>7, <1>8, <1>9, StageStep

\* Objects after a step.
LEMMA ContentsFacts ==
    ASSUME ObjectsTyped, NEW content, NEW taken, NEW released, Contents(content, taken, released),
           released \subseteq Objects, \A o \in Objects : content[o] \in ObjectRecords
    PROVE  /\ ObjectsTyped' /\ pool' \subseteq (pool \ taken) \cup released
           /\ \A o \in Objects \cap Held' : o \in released \/ obj'[o] = content[o]
<1>1. /\ obj' = [o \in Objects |-> IF o \in Held' \ released THEN content[o] ELSE Blank]
      /\ pool' = ((pool \ taken) \cup released) \cap Held'
  BY DEF Contents
<1>2. Blank \in ObjectRecords
  BY DEF Blank, ObjectRecords
<1> QED
  BY <1>1, <1>2 DEF ObjectsTyped

\* A handler ends, and gives its objects back.
LEMMA EndStep ==
    ASSUME RecallInv, NEW h \in Handlers, call[h].stage # "idle", UNCHANGED <<status, cache>>,
           call' = [call EXCEPT ![h] = Idle], ObjectsTyped', pool' \subseteq pool \cup Elements(call[h].results),
           \A o \in Objects \cap Held' : o \in Elements(call[h].results) \/ obj'[o].id = obj[o].id
    PROVE  RecallInv' /\ ServiceStep
<1>1. /\ CallTyped(call[h]) /\ DOMAIN call = Handlers /\ CacheTyped
      /\ (call[h].query = None) = (call[h].stage = "idle")
  BY HandlerFacts
<1>2. DOMAIN call' = Handlers /\ call'[h] = Idle /\ \A g \in Handlers \ {h} : call'[g] = call[g]
  BY <1>1
<1>3. /\ CallTyped(Idle) /\ Idle.query = None /\ Idle.gone = {} /\ Idle.due = {}
      /\ Idle.stage = "idle" /\ Elements(Idle.results) = {}
  <2>1. /\ DOMAIN Idle = Fields /\ Idle.query = None /\ Idle.gone = {} /\ Idle.due = {} /\ Idle.linked = {}
        /\ Idle.stage = "idle" /\ Idle.results = <<>> /\ Idle.near = <<>> /\ Idle.vector = <<>> /\ Idle.keyword = <<>>
    BY DEF Idle, Fields
  <2> QED
    BY <2>1 DEF CallTyped, Stages, Elements
<1>4. CallTyped(call[h])' /\ GoneStays(call[h])' /\ FoundSound(call[h])' /\ DueSound(call[h])' /\ CacheTyped'
  <2>1. CallTyped(call[h])' /\ CacheTyped'
    BY <1>1, <1>2, <1>3 DEF CallTyped, CacheTyped
  <2>2. GoneStays(call[h])' /\ FoundSound(call[h])' /\ DueSound(call[h])'
    BY <1>2, <1>3 DEF GoneStays, FoundSound, DueSound
  <2> QED
    BY <2>1, <2>2
<1>5. RecallInv' /\ OthersAnswer(h) /\ IdsStay
  <2>1. PICK T : T = {}
    OBVIOUS
  <2>2. Moves(h, T, h)
    BY <1>2, <1>3, <1>4, <2>1 DEF Moves
  <2> QED
    BY <2>2, HandlerStep
<1>6. Kept' = Kept
  BY <1>5, KeptStays
<1>7. OthersStay(h) /\ AnswerOf(h)' = None
  BY <1>2, <1>3, <1>5 DEF OthersStay, OthersAnswer, AnswerOf
<1> QED
  BY <1>1, <1>2, <1>3, <1>5, <1>6, <1>7, LeaveStep

\* The search fails, or the answer is sent.
LEMMA EndSteps ==
    ASSUME RecallInv, NEW h \in Handlers, SearchFails(h) \/ Respond(h)
    PROVE  RecallInv' /\ ServiceStep
<1>1. CallTyped(call[h]) /\ DOMAIN call = Handlers /\ ObjectsTyped
  BY HandlerFacts
<1>2. CASE SearchFails(h)
  <2>1. call[h].stage = "legs" /\ call' = [call EXCEPT ![h] = Idle] /\ UNCHANGED <<status, obj, pool, cache>>
    BY <1>2 DEF SearchFails
  <2>2. ObjectsTyped' /\ pool' \subseteq pool \cup Elements(call[h].results)
    BY <1>1, <2>1 DEF ObjectsTyped
  <2> QED
    BY <2>1, <2>2, EndStep
<1>3. CASE Respond(h)
  <2>1. /\ call[h].stage = "reply" /\ call' = [call EXCEPT ![h] = Idle] /\ UNCHANGED <<status, cache>>
        /\ Contents(obj, {}, Elements(call[h].results))
    BY <1>3 DEF Respond
  <2>2. Elements(call[h].results) \subseteq Objects
    BY <1>1 DEF CallTyped, Elements
  <2>3. /\ ObjectsTyped' /\ pool' \subseteq (pool \ {}) \cup Elements(call[h].results)
        /\ \A o \in Objects \cap Held' : o \in Elements(call[h].results) \/ obj'[o] = obj[o]
    BY <1>1, <2>1, <2>2, ContentsFacts DEF ObjectsTyped
  <2> QED
    BY <2>1, <2>3, EndStep
<1> QED
  BY <1>2, <1>3

\* The mark of a leg that is not done, and what it may be replaced by.
LEMMA PendingFacts == \A S : Pending \in Seq(S \cup {None}) /\ <<>> \in Seq(S \cup {None})
BY DEF Pending

\* A question that the cache has no fresh answer to.
LEMMA MissStep ==
    ASSUME RecallInv, NEW h \in Handlers, NEW q \in Queries, Miss(h, q)
    PROVE  RecallInv' /\ ServiceStep
<1>1. PICK near \in {Pending, <<>>} : call' = [call EXCEPT ![h] = [Idle EXCEPT !.stage = "legs", !.query = q, !.due = Active,
                                  !.gone = Superseded, !.near = near, !.vector = near, !.keyword = Pending]]
  BY DEF Miss
<1>2. /\ call[h].stage = "idle" /\ cache' = Without({CacheKey(q)}) /\ Contents(obj, {}, {}) /\ UNCHANGED status
  BY DEF Miss
<1>3. /\ CallTyped(call[h]) /\ DOMAIN call = Handlers /\ ObjectsTyped /\ CacheTyped /\ StatusTyped
      /\ (call[h].query = None) = (call[h].stage = "idle")
  BY HandlerFacts
<1>4. /\ DOMAIN call'[h] = Fields /\ call'[h].stage = "legs" /\ call'[h].query = q /\ call'[h].gone = Superseded
      /\ call'[h].results = <<>> /\ call'[h].due = Active /\ call'[h].linked = {}
      /\ call'[h].near = near /\ call'[h].vector = near /\ call'[h].keyword = Pending
      /\ DOMAIN call' = Handlers /\ \A g \in Handlers \ {h} : call'[g] = call[g]
  BY <1>1, <1>3 DEF Idle, Fields
<1>5. CallTyped(call[h])' /\ GoneStays(call[h])' /\ FoundSound(call[h])' /\ DueSound(call[h])'
  <2>1. near \in Seq(Memories \cup Chunks \cup {None}) /\ Pending \in Seq(Memories \cup {None})
    BY PendingFacts
  <2>2. CallTyped(call[h])'
    BY <1>4, <2>1 DEF CallTyped, Superseded, Active, Stages
  <2>3. GoneStays(call[h])' /\ FoundSound(call[h])' /\ DueSound(call[h])'
    BY <1>2, <1>4 DEF GoneStays, FoundSound, DueSound, Superseded, Active
  <2> QED
    BY <2>2, <2>3
<1>6. /\ ObjectsTyped' /\ pool' \subseteq (pool \ {}) \cup {}
      /\ \A o \in Objects \cap Held' : o \in {} \/ obj'[o] = obj[o]
  BY <1>2, <1>3, ContentsFacts DEF ObjectsTyped
<1>7. /\ DOMAIN cache' \subseteq DOMAIN cache /\ \A k \in DOMAIN cache' : cache'[k] = cache[k]
  BY <1>2 DEF Without
<1>8. CacheTyped'
  <2>1. IsFiniteSet(DOMAIN cache) /\ Cardinality(DOMAIN cache) <= CacheCap /\ CacheCap \in Nat
    BY <1>3, WeightAssumption DEF CacheTyped
  <2>2. /\ IsFiniteSet(DOMAIN cache') /\ Cardinality(DOMAIN cache') <= Cardinality(DOMAIN cache)
        /\ Cardinality(DOMAIN cache) \in Nat /\ Cardinality(DOMAIN cache') \in Nat
    BY <1>7, <2>1, FS_Subset, FS_CardinalityType
  <2>3. Cardinality(DOMAIN cache') <= CacheCap
    BY <2>1, <2>2
  <2> QED
    BY <1>3, <1>7, <2>2, <2>3 DEF CacheTyped
<1>9. Elements(call'[h].results) = {}
  BY <1>4 DEF Elements
<1>10. RecallInv' /\ OthersAnswer(h) /\ IdsStay
  <2>1. PICK T : T = {}
    OBVIOUS
  <2>2. Moves(h, T, q)
    BY <1>2, <1>4, <1>5, <1>6, <1>7, <1>8, <1>9, <2>1 DEF Moves
  <2> QED
    BY <2>2, HandlerStep
<1>11. Kept' \subseteq Kept
  BY <1>7, <1>10 DEF IdsStay, Kept
<1>12. OthersStay(h) /\ AnswerOf(h)' = AnswerOf(h)
  BY <1>2, <1>4, <1>10 DEF OthersStay, OthersAnswer, AnswerOf
<1> QED
  BY <1>2, <1>3, <1>4, <1>10, <1>11, <1>12, AskStep

\* Copies hold the memories of the originals, which keep theirs.
LEMMA CopiedFacts ==
    ASSUME ObjectsTyped, NEW from \in Seq(Objects), NEW to \in Seq(Objects), Len(to) = Len(from),
           \A i, j \in DOMAIN to : to[i] = to[j] => i = j, Elements(to) \cap Elements(from) = {},
           NEW content, content = Copied(to, from)
    PROVE  /\ \A o \in Objects : content[o] \in ObjectRecords
           /\ \A o \in Objects : o \in Elements(to) \/ content[o].id = obj[o].id
           /\ \A i \in DOMAIN to : content[to[i]].id = obj[from[i]].id
<1>1. ASSUME NEW o \in Objects, o \in Elements(to)
      PROVE  content[o] = [id |-> obj[from[RankIn(to, o)]].id, score |-> 0]
  BY <1>1 DEF Copied
<1>2. ASSUME NEW o \in Objects, o \in Elements(from)
      PROVE  content[o] = [obj[o] EXCEPT !.score = 0]
  <2>1. o \notin Elements(to)
    BY <1>2
  <2> QED
    BY <1>2, <2>1 DEF Copied
<1>3. ASSUME NEW o \in Objects, o \notin Elements(to), o \notin Elements(from)
      PROVE  content[o] = obj[o]
  BY <1>3 DEF Copied
<1>4. ASSUME NEW o \in Objects
      PROVE  content[o] \in ObjectRecords /\ (o \in Elements(to) \/ content[o].id = obj[o].id)
  <2>1. obj[o] \in ObjectRecords
    BY DEF ObjectsTyped
  <2>2. CASE o \in Elements(to)
    <3>1. RankIn(to, o) \in DOMAIN to
      BY <2>2, RankFacts
    <3>2. from[RankIn(to, o)] \in Objects
      BY <3>1
    <3>3. PICK id \in Memories \cup {None} : id = obj[from[RankIn(to, o)]].id
      <4>1. obj[from[RankIn(to, o)]] \in ObjectRecords
        BY <3>2 DEF ObjectsTyped
      <4> QED
        BY <4>1 DEF ObjectRecords
    <3>4. content[o] = [id |-> id, score |-> 0]
      BY <1>1, <2>2, <3>3
    <3> QED
      BY <2>2, <3>4 DEF ObjectRecords
  <2>3. CASE o \in Elements(from)
    <3>1. PICK id \in Memories \cup {None}, score \in Nat : obj[o] = [id |-> id, score |-> score]
      BY <2>1 DEF ObjectRecords
    <3>2. content[o] = [obj[o] EXCEPT !.score = 0]
      BY <1>2, <2>3
    <3>3. content[o] = [id |-> id, score |-> 0]
      BY <3>1, <3>2
    <3>4. content[o] \in ObjectRecords
      BY <3>1, <3>3 DEF ObjectRecords
    <3> QED
      BY <3>1, <3>3, <3>4
  <2>4. CASE o \notin Elements(to) /\ o \notin Elements(from)
    BY <1>3, <2>1, <2>4
  <2> QED
    BY <2>2, <2>3, <2>4
<1>5. ASSUME NEW i \in DOMAIN to
      PROVE  content[to[i]].id = obj[from[i]].id
  <2>1. to[i] \in Objects /\ to[i] \in Elements(to) /\ RankIn(to, to[i]) = i
    BY RankFacts DEF Elements
  <2>2. PICK o : o = to[i]
    OBVIOUS
  <2>3. content[o] = [id |-> obj[from[RankIn(to, o)]].id, score |-> 0]
    BY <1>1, <2>1, <2>2
  <2> QED
    BY <2>1, <2>2, <2>3
<1> QED
  BY <1>4, <1>5

\* A question that the cache has a fresh answer to: the answer was kept, and is
\* copied into new objects.
LEMMA HitStep ==
    ASSUME RecallInv, NEW h \in Handlers, NEW q \in Queries, Hit(h, q)
    PROVE  RecallInv' /\ ServiceStep
<1> DEFINE key == CacheKey(q)
           from == cache[key].results
<1>1. /\ call[h].stage = "idle" /\ key \in DOMAIN cache /\ cache[key].fresh /\ UNCHANGED <<status, cache>>
  BY DEF Hit, Served
<1>2. PICK to \in New(h, Len(from)) :
        /\ call' = [call EXCEPT ![h] = [Idle EXCEPT !.stage = "reply", !.query = q, !.gone = Superseded, !.results = to]]
        /\ Contents(Copied(to, from), {}, {})
  BY DEF Hit, Cloned
<1>3. /\ DOMAIN call = Handlers /\ ObjectsTyped /\ CacheTyped /\ StatusTyped /\ h \in Makers
      /\ (call[h].query = None) = (call[h].stage = "idle")
  BY HandlerFacts
<1>4. from \in Seq(Objects) /\ Len(from) \in Nat /\ Elements(from) \subseteq Held
  BY <1>1, <1>3, HeldFacts DEF HeldHolds, CacheTyped
<1> HIDE DEF from
<1>5. /\ to \in Seq(Objects) /\ Len(to) = Len(from) /\ \A i, j \in DOMAIN to : to[i] = to[j] => i = j
      /\ \A o \in Elements(to) : o \in Objects /\ o \notin Held \cup pool
  BY <1>3, <1>4, NewFacts
<1>6. PICK content : content = Copied(to, from)
  OBVIOUS
<1>7. /\ \A o \in Objects : content[o] \in ObjectRecords
      /\ \A o \in Objects : o \in Elements(to) \/ content[o].id = obj[o].id
      /\ \A i \in DOMAIN to : content[to[i]].id = obj[from[i]].id
  <2>1. Elements(to) \cap Elements(from) = {}
    BY <1>4, <1>5
  <2> QED
    BY <1>3, <1>4, <1>5, <1>6, <2>1, CopiedFacts
<1>8. /\ ObjectsTyped' /\ pool' \subseteq (pool \ {}) \cup {}
      /\ \A o \in Objects \cap Held' : o \in {} \/ obj'[o] = content[o]
  <2>1. Contents(content, {}, {}) /\ {} \subseteq Objects
    BY <1>2, <1>6
  <2> QED
    BY <1>3, <1>7, <2>1, ContentsFacts
<1>9. /\ DOMAIN call'[h] = Fields /\ call'[h].stage = "reply" /\ call'[h].query = q /\ call'[h].gone = Superseded
      /\ call'[h].results = to /\ call'[h].due = {} /\ call'[h].linked = {}
      /\ call'[h].near = <<>> /\ call'[h].vector = <<>> /\ call'[h].keyword = <<>>
      /\ DOMAIN call' = Handlers /\ \A g \in Handlers \ {h} : call'[g] = call[g]
  BY <1>2, <1>3 DEF Idle, Fields
<1>10. CallTyped(call[h])' /\ GoneStays(call[h])' /\ FoundSound(call[h])' /\ DueSound(call[h])' /\ CacheTyped'
  <2>1. CallTyped(call[h])'
    BY <1>5, <1>9 DEF CallTyped, Superseded, Stages
  <2>2. GoneStays(call[h])' /\ FoundSound(call[h])' /\ CacheTyped'
    BY <1>1, <1>3, <1>9 DEF GoneStays, FoundSound, Superseded, CacheTyped
  <2>3. DueSound(call[h])'
    BY <1>9 DEF DueSound, Due
  <2> QED
    BY <2>1, <2>2, <2>3
<1>11. RecallInv' /\ OthersAnswer(h) /\ IdsStay
  <2>1. PICK T : T = Elements(to)
    OBVIOUS
  <2>2. Moves(h, T, q)
    BY <1>1, <1>5, <1>7, <1>8, <1>9, <1>10, <2>1 DEF Moves
  <2> QED
    BY <2>2, HandlerStep
<1>12. Kept' = Kept
  BY <1>1, <1>11, KeptStays
<1>13. AnswerOf(h)' = Ids(from)
  <2>1. HeldHolds'
    BY HeldFacts, PTL
  <2>2. \A o \in Elements(to) : o \in Objects \cap Held'
    BY <1>5, <1>9, <2>1 DEF HeldHolds
  <2>3. \A i \in DOMAIN to : obj'[to[i]].id = obj[from[i]].id
    BY <1>7, <1>8, <2>2 DEF Elements
  <2>4. DOMAIN to = DOMAIN from
    BY <1>4, <1>5
  <2> QED
    BY <1>9, <2>3, <2>4 DEF AnswerOf, Ids
<1>14. \E k \in Kept : k[1] = CacheKey(q) /\ AnswerOf(h)' = k[2]
  <2>1. PICK k : k = <<key, Ids(from)>>
    OBVIOUS
  <2>2. k \in Kept
    BY <1>1, <2>1 DEF Kept, from
  <2> QED
    BY <1>13, <2>1, <2>2
<1>15. OthersStay(h)
  BY <1>9, <1>11 DEF OthersStay, OthersAnswer
<1> QED
  BY <1>1, <1>3, <1>9, <1>11, <1>12, <1>14, <1>15, AskStep

\* The rows of what the legs found are put into objects.
LEMMA ProcessStep ==
    ASSUME RecallInv, NEW h \in Handlers, Process(h)
    PROVE  RecallInv' /\ ServiceStep
<1> DEFINE rows == (Elements(call[h].vector) \cup Elements(call[h].keyword)) \cap Active
           score == [m \in rows |-> Fused(call[h].vector, call[h].keyword, m) + Boost[m]]
<1>1. call[h].stage = "legs" /\ call[h].keyword # Pending /\ UNCHANGED <<status, cache>>
  BY DEF Process
<1>2. PICK s \in Ranked(rows, score), results \in Got(h, Cardinality(rows)) :
        /\ call' = [call EXCEPT ![h] = [Idle EXCEPT !.stage = "fetched", !.query = call[h].query, !.due = call[h].due,
                                                    !.gone = call[h].gone, !.results = results]]
        /\ Contents([o \in Objects |-> IF o \in Elements(results)
                                       THEN [id |-> s[RankIn(results, o)], score |-> score[s[RankIn(results, o)]]]
                                       ELSE obj[o]], Elements(results), {})
  BY DEF Process
<1>3. /\ CallTyped(call[h]) /\ GoneStays(call[h]) /\ DueSound(call[h]) /\ DOMAIN call = Handlers /\ ObjectsTyped /\ CacheTyped /\ h \in Makers
  BY HandlerFacts
<1>4. rows \subseteq Active /\ rows \subseteq Memories /\ IsFiniteSet(rows) /\ Cardinality(rows) \in Nat
  BY FiniteAssumption, FS_Subset, FS_CardinalityType DEF Active
<1>5. Whole(call[h].query) => Due(call[h]) \subseteq rows
  BY <1>1, <1>3 DEF DueSound, Due, Active, Matching, InNamespace
<1> HIDE DEF rows
<1>6. /\ s \in Seq(rows) /\ DOMAIN s = 1..Cardinality(rows) /\ \A i, j \in DOMAIN s : s[i] = s[j] => i = j
      /\ Elements(s) = rows
  BY <1>4, OrderFacts DEF Ranked, Orders
<1>7. \A m \in rows : score[m] \in Nat
  <2>1. ASSUME NEW m \in rows PROVE score[m] \in Nat
    <3>1. Fused(call[h].vector, call[h].keyword, m) \in Nat
      BY <1>3, FusedFacts DEF CallTyped
    <3>2. Boost[m] \in Nat
      BY <1>4, RankAssumption
    <3> QED
      BY <3>1, <3>2
  <2> QED
    BY <2>1
<1>8. /\ results \in Seq(Objects) /\ Len(results) = Cardinality(rows)
      /\ \A i, j \in DOMAIN results : results[i] = results[j] => i = j
      /\ \A o \in Elements(results) : o \in pool \/ o \notin Held
  BY <1>3, <1>4, GotFacts DEF ObjectsTyped
<1>9. PICK content : content = [o \in Objects |-> IF o \in Elements(results)
                                  THEN [id |-> s[RankIn(results, o)], score |-> score[s[RankIn(results, o)]]]
                                  ELSE obj[o]]
  OBVIOUS
<1> HIDE DEF score
<1>10. /\ \A o \in Objects : content[o] \in ObjectRecords
       /\ \A o \in Objects : o \in Elements(results) \/ content[o] = obj[o]
       /\ \A o \in Elements(results) : content[o].id = s[RankIn(results, o)]
  <2>1. Elements(results) \subseteq Objects
    BY <1>8, ElementsFacts
  <2>2. ASSUME NEW o \in Elements(results)
        PROVE  content[o] \in ObjectRecords /\ content[o].id = s[RankIn(results, o)]
    <3>1. RankIn(results, o) \in DOMAIN results
      BY <1>8, RankFacts
    <3>2. PICK m \in rows : m = s[RankIn(results, o)]
      BY <1>6, <1>8, <3>1
    <3>3. content[o] = [id |-> m, score |-> score[m]]
      BY <1>9, <2>1, <3>2
    <3>4. m \in Memories /\ score[m] \in Nat
      BY <1>4, <1>7
    <3> QED
      BY <3>2, <3>3, <3>4 DEF ObjectRecords
  <2>3. ASSUME NEW o \in Objects, o \notin Elements(results)
        PROVE  content[o] = obj[o]
    BY <1>9, <2>3
  <2>4. \A o \in Objects : obj[o] \in ObjectRecords
    BY <1>3 DEF ObjectsTyped
  <2> QED
    BY <2>1, <2>2, <2>3, <2>4
<1>11. /\ ObjectsTyped' /\ pool' \subseteq (pool \ Elements(results)) \cup {}
       /\ \A o \in Objects \cap Held' : o \in {} \/ obj'[o] = content[o]
  <2>1. Contents(content, Elements(results), {}) /\ {} \subseteq Objects
    BY <1>2, <1>9
  <2> QED
    BY <1>3, <1>10, <2>1, ContentsFacts
<1>12. /\ DOMAIN call'[h] = Fields /\ call'[h].stage = "fetched" /\ call'[h].query = call[h].query
       /\ call'[h].gone = call[h].gone /\ call'[h].results = results /\ call'[h].due = call[h].due
       /\ call'[h].linked = {} /\ call'[h].near = <<>> /\ call'[h].vector = <<>> /\ call'[h].keyword = <<>>
       /\ DOMAIN call' = Handlers /\ \A g \in Handlers \ {h} : call'[g] = call[g]
  BY <1>2, <1>3 DEF Idle, Fields
<1>13. CallTyped(call[h])' /\ GoneStays(call[h])' /\ CacheTyped'
  BY <1>1, <1>3, <1>8, <1>12 DEF CallTyped, GoneStays, Stages, CacheTyped
<1>14. \A i \in DOMAIN results : obj'[results[i]].id = s[i] /\ s[i] \in rows
  <2>1. HeldHolds'
    BY HeldFacts, PTL
  <2>2. \A o \in Elements(results) : o \in Objects \cap Held'
    BY <1>8, <1>12, <2>1, ElementsFacts DEF HeldHolds
  <2>3. ASSUME NEW i \in DOMAIN results
        PROVE  obj'[results[i]].id = s[i] /\ s[i] \in rows
    <3>1. results[i] \in Elements(results) /\ RankIn(results, results[i]) = i
      BY <1>8, RankFacts DEF Elements
    <3>2. s[i] \in rows
      BY <1>6, <1>8
    <3> QED
      BY <1>10, <1>11, <2>2, <3>1, <3>2
  <2> QED
    BY <2>3
<1>15. FoundSound(call[h])'
  <2>1. \A m \in rows : m \in Memories /\ status'[m] # "unknown" /\ m \notin call[h].gone
    BY <1>1, <1>3, <1>4 DEF Active, GoneStays
  <2>2. \A i, j \in DOMAIN results : s[i] = s[j] => i = j
    BY <1>6, <1>8
  <2> QED
    BY <1>12, <1>14, <2>1, <2>2 DEF FoundSound
<1>16. DueSound(call[h])'
  <2>1. Due(call[h])' = Due(call[h])
    BY <1>1, <1>12 DEF Due
  <2>2. rows \subseteq Elements(Ids(call[h].results))'
    <3>1. ASSUME NEW m \in rows
          PROVE  m \in Elements(Ids(call[h].results))'
      <4>1. PICK i \in DOMAIN s : s[i] = m
        BY <1>6 DEF Elements
      <4>2. i \in DOMAIN results /\ obj'[results[i]].id = m
        BY <1>6, <1>8, <1>14, <4>1
      <4> QED
        BY <1>12, <4>2 DEF Elements, Ids
    <3> QED
      BY <3>1
  <2> QED
    BY <1>5, <1>1, <1>3, <1>12, <2>1, <2>2 DEF DueSound
<1>17. RecallInv' /\ OthersAnswer(h) /\ IdsStay
  <2>1. PICK T : T = Elements(results)
    OBVIOUS
  <2>2. Moves(h, T, h)
    BY <1>1, <1>8, <1>10, <1>11, <1>12, <1>13, <1>15, <1>16, <2>1 DEF Moves
  <2> QED
    BY <2>2, HandlerStep
<1>18. Kept' = Kept
  BY <1>1, <1>17, KeptStays
<1>19. OthersStay(h) /\ AnswerOf(h)' = AnswerOf(h)
  BY <1>1, <1>12, <1>17 DEF OthersStay, OthersAnswer, AnswerOf
<1> QED
  BY <1>1, <1>12, <1>17, <1>18, <1>19, UnseenStep

\* What the graph reaches is put into further objects, and all are ranked.
LEMMA MergeStep ==
    ASSUME RecallInv, NEW h \in Handlers, call[h].stage = "linked", UNCHANGED status,
           NEW new, new \subseteq Active, new \cap Elements(Ids(call[h].results)) = {}, Merge(h, new)
    PROVE  RecallInv' /\ ServiceStep
<1> DEFINE old == call[h].results
           q == call[h].query
           all(more) == Elements(old) \cup Elements(more)
           fetched(best, s, more) ==
              [o \in Objects |-> IF o \in Elements(more)
                                 THEN [id |-> s[RankIn(more, o)], score |-> Injected(q.text, s[RankIn(more, o)], best)]
                                 ELSE obj[o]]
           merged(best, s, more) ==
              /\ \E results \in Ranked(all(more), [o \in all(more) |-> fetched(best, s, more)[o].score]) :
                    call' = [call EXCEPT ![h].stage = "merged", ![h].linked = {}, ![h].results = results]
              /\ UNCHANGED <<cache, counting>>
              /\ Contents(fetched(best, s, more), Elements(more), {})
<1>1. PICK best \in {Linked[q.text][m] : m \in call[h].linked}, s \in Orders(new), more \in Got(h, Cardinality(new)) :
        merged(best, s, more)
  BY DEF Merge
<1>2. PICK results \in Orders(all(more)) :
        /\ call' = [call EXCEPT ![h].stage = "merged", ![h].linked = {}, ![h].results = results]
        /\ UNCHANGED cache
        /\ Contents(fetched(best, s, more), Elements(more), {})
  BY <1>1 DEF Ranked
<1> HIDE DEF merged
<1>3. PICK content : content = fetched(best, s, more)
  OBVIOUS
<1>4. /\ CallTyped(call[h]) /\ GoneStays(call[h]) /\ FoundSound(call[h]) /\ DueSound(call[h]) /\ DOMAIN call = Handlers
      /\ ObjectsTyped /\ CacheTyped /\ h \in Makers
  BY HandlerFacts
<1>5. new \subseteq Memories /\ IsFiniteSet(new) /\ Cardinality(new) \in Nat
  BY FiniteAssumption, FS_Subset, FS_CardinalityType DEF Active
<1>6. s \in Seq(new) /\ DOMAIN s = 1..Cardinality(new) /\ \A i, j \in DOMAIN s : s[i] = s[j] => i = j
  BY <1>5, OrderFacts DEF Orders
<1>7. /\ more \in Seq(Objects) /\ Len(more) = Cardinality(new)
      /\ \A i, j \in DOMAIN more : more[i] = more[j] => i = j
      /\ \A o \in Elements(more) : o \in pool \/ o \notin Held
  BY <1>4, <1>5, GotFacts DEF ObjectsTyped
<1>8. /\ old \in Seq(Objects) /\ Elements(old) \subseteq Objects /\ Elements(more) \subseteq Objects
      /\ IsFiniteSet(Elements(old)) /\ IsFiniteSet(Elements(more))
  BY <1>4, <1>7, ElementsFacts DEF CallTyped
<1>9. Elements(old) \subseteq Held /\ Elements(old) \cap pool = {} /\ Elements(old) \cap Elements(more) = {}
  BY <1>7, HeldFacts DEF HeldHolds, RecallInv, ResultsAreOwned
<1>10. best \in Nat \ {0} /\ q.text \in Texts
  <2>1. PICK m \in call[h].linked : best = Linked[q.text][m]
    BY <1>1
  <2>2. m \in Memories /\ Linked[q.text][m] > 0 /\ q \in Queries
    BY <1>4, <2>1 DEF CallTyped
  <2>3. q.text \in Texts
    BY <2>2, QueryAssumption DEF QueryRecords
  <2>4. Linked[q.text][m] \in Nat
    BY <2>2, <2>3, RankAssumption
  <2> QED
    BY <2>1, <2>2, <2>3, <2>4
<1> HIDE DEF old
<1>11. /\ results \in Seq(Objects) /\ Elements(results) = all(more)
       /\ \A i, j \in DOMAIN results : results[i] = results[j] => i = j
  <2>1. IsFiniteSet(all(more)) /\ all(more) \subseteq Objects
    BY <1>8, FS_Union
  <2> HIDE DEF all
  <2>2. /\ results \in Seq(all(more)) /\ Elements(results) = all(more)
        /\ \A i, j \in DOMAIN results : results[i] = results[j] => i = j
    BY <2>1, OrderFacts
  <2> QED
    BY <2>1, <2>2
<1>12. /\ \A o \in Objects : content[o] \in ObjectRecords
       /\ \A o \in Objects : o \in Elements(more) \/ content[o] = obj[o]
       /\ \A o \in Elements(more) : content[o].id = s[RankIn(more, o)]
  <2>1. Elements(more) \subseteq Objects
    BY <1>8
  <2>2. ASSUME NEW o \in Elements(more)
        PROVE  content[o] \in ObjectRecords /\ content[o].id = s[RankIn(more, o)]
    <3>1. RankIn(more, o) \in DOMAIN more
      BY <1>7, RankFacts
    <3>2. PICK m \in new : m = s[RankIn(more, o)]
      BY <1>6, <1>7, <3>1
    <3>3. content[o] = [id |-> m, score |-> Injected(q.text, m, best)]
      BY <1>3, <2>1, <3>2
    <3>4. m \in Memories /\ Injected(q.text, m, best) \in Nat
      BY <1>5, <1>10, InjectedFacts
    <3> QED
      BY <3>2, <3>3, <3>4 DEF ObjectRecords
  <2>3. ASSUME NEW o \in Objects, o \notin Elements(more)
        PROVE  content[o] = obj[o]
    BY <1>3, <2>3
  <2>4. \A o \in Objects : obj[o] \in ObjectRecords
    BY <1>4 DEF ObjectsTyped
  <2> QED
    BY <2>1, <2>2, <2>3, <2>4
<1>13. /\ ObjectsTyped' /\ pool' \subseteq (pool \ Elements(more)) \cup {}
       /\ \A o \in Objects \cap Held' : o \in {} \/ obj'[o] = content[o]
  <2>1. Contents(content, Elements(more), {}) /\ {} \subseteq Objects
    BY <1>2, <1>3
  <2> QED
    BY <1>4, <1>12, <2>1, ContentsFacts
<1> HIDE DEF fetched, all
<1>14. /\ DOMAIN call'[h] = Fields /\ call'[h].stage = "merged" /\ call'[h].query = call[h].query
       /\ call'[h].gone = call[h].gone /\ call'[h].due = call[h].due /\ call'[h].results = results
       /\ call'[h].linked = {} /\ call'[h].near = call[h].near /\ call'[h].vector = call[h].vector
       /\ call'[h].keyword = call[h].keyword
       /\ DOMAIN call' = Handlers /\ \A g \in Handlers \ {h} : call'[g] = call[g]
  BY <1>2, <1>4 DEF CallTyped, Fields
<1>15. CallTyped(call[h])' /\ GoneStays(call[h])' /\ CacheTyped'
  <2>1. CallTyped(call[h])'
    BY <1>4, <1>11, <1>14 DEF CallTyped, Stages
  <2>2. GoneStays(call[h])' /\ CacheTyped'
    BY <1>2, <1>4, <1>14 DEF GoneStays, CacheTyped
  <2> QED
    BY <2>1, <2>2
<1>16. \A i \in DOMAIN results : results[i] \in Elements(results) /\ results[i] \in Objects \cap Held'
  <2>1. HeldHolds'
    BY HeldFacts, PTL
  <2> QED
    BY <1>11, <1>14, <2>1, ElementsFacts DEF HeldHolds
<1>17. \A o \in Elements(more) : content[o].id \in new /\ RankIn(more, o) \in DOMAIN s /\ more[RankIn(more, o)] = o
  BY <1>6, <1>7, <1>12, RankFacts
<1>18. \A o \in Elements(old) : /\ content[o].id = obj[o].id /\ obj[o].id \notin new
                                /\ obj[o].id \in Memories /\ status[obj[o].id] # "unknown" /\ obj[o].id \notin call[h].gone
  <2>1. ASSUME NEW o \in Elements(old)
        PROVE  /\ content[o].id = obj[o].id /\ obj[o].id \notin new
               /\ obj[o].id \in Memories /\ status[obj[o].id] # "unknown" /\ obj[o].id \notin call[h].gone
    <3>1. PICK i \in DOMAIN old : old[i] = o
      BY DEF Elements
    <3>2. obj[o].id \in Elements(Ids(old))
      BY <3>1 DEF Elements, Ids
    <3> QED
      BY <1>4, <1>8, <1>9, <1>12, <3>1, <3>2 DEF FoundSound, old
  <2> QED
    BY <2>1
<1>19. \A o, p \in Elements(old) : obj[o].id = obj[p].id => o = p
  BY <1>4 DEF FoundSound, old, Elements
<1>20. \A o \in all(more) : /\ content[o].id \in Memories /\ status[content[o].id] # "unknown" /\ content[o].id \notin call[h].gone
                            /\ \A p \in all(more) : content[o].id = content[p].id => o = p
  <2>1. \A m \in new : m \in Memories /\ status[m] # "unknown" /\ m \notin call[h].gone
    BY <1>4, <1>5 DEF Active, GoneStays
  <2>2. \A o, p \in Elements(more) : content[o].id = content[p].id => o = p
    BY <1>6, <1>12, <1>17
  <2> QED
    BY <1>17, <1>18, <1>19, <2>1, <2>2 DEF all
<1>21. \A i \in DOMAIN results : results[i] \in all(more) /\ obj'[results[i]].id = content[results[i]].id
  BY <1>11, <1>13, <1>16
<1>22. FoundSound(call[h])'
  BY <1>11, <1>14, <1>20, <1>21 DEF FoundSound
<1>23. DueSound(call[h])'
  <2>1. Due(call[h])' = Due(call[h])
    BY <1>14 DEF Due
  <2>2. Elements(Ids(call[h].results)) \subseteq Elements(Ids(call[h].results))'
    <3>1. ASSUME NEW m \in Elements(Ids(call[h].results))
          PROVE  m \in Elements(Ids(call[h].results))'
      <4>1. PICK o \in Elements(old) : obj[o].id = m
        BY DEF Elements, Ids, old
      <4>2. PICK i \in DOMAIN results : results[i] = o
        BY <1>11, <4>1 DEF Elements, all
      <4>3. obj'[results[i]].id = m
        BY <1>18, <1>21, <4>1, <4>2
      <4> QED
        BY <1>14, <4>3 DEF Elements, Ids
    <3> QED
      BY <3>1
  <2> QED
    BY <1>4, <1>14, <2>1, <2>2 DEF DueSound
<1>24. RecallInv' /\ OthersAnswer(h) /\ IdsStay
  <2>1. PICK T : T = Elements(more)
    OBVIOUS
  <2>2. \A o \in Objects \cap Held \cap Held' : o \in T \/ obj'[o].id = obj[o].id
    BY <1>12, <1>13, <2>1
  <2>3. pool' \subseteq pool /\ pool' \cap Elements(results) = {} /\ Elements(results) \subseteq Elements(old) \cup T
    BY <1>9, <1>11, <1>13, <2>1 DEF all
  <2>4. Moves(h, T, h)
    BY <1>2, <1>7, <1>13, <1>14, <1>15, <1>22, <1>23, <2>1, <2>2, <2>3 DEF Moves, old
  <2> QED
    BY <2>4, HandlerStep
<1>25. Kept' = Kept
  BY <1>2, <1>24, KeptStays
<1>26. OthersStay(h) /\ AnswerOf(h)' = AnswerOf(h)
  BY <1>14, <1>24 DEF OthersStay, OthersAnswer, AnswerOf
<1> QED
  BY <1>14, <1>24, <1>25, <1>26, UnseenStep

\* They are those that the search had not found, or none after a failure.
LEMMA InjectSteps ==
    ASSUME RecallInv, NEW h \in Handlers, Inject(h) \/ InjectFails(h)
    PROVE  RecallInv' /\ ServiceStep
<1>1. call[h].stage = "linked" /\ UNCHANGED status
  BY DEF Inject, InjectFails
<1>2. CASE Inject(h)
  <2>1. PICK new : new = (call[h].linked \ Elements(Ids(call[h].results))) \cap Active
    OBVIOUS
  <2>2. Merge(h, new) /\ new \subseteq Active /\ new \cap Elements(Ids(call[h].results)) = {}
    BY <1>2, <2>1 DEF Inject
  <2> QED
    BY <1>1, <2>2, MergeStep
<1>3. CASE InjectFails(h)
  <2>1. PICK new : new = {}
    OBVIOUS
  <2>2. Merge(h, new) /\ new \subseteq Active /\ new \cap Elements(Ids(call[h].results)) = {}
    BY <1>3, <2>1 DEF InjectFails
  <2> QED
    BY <1>1, <2>2, MergeStep
<1> QED
  BY <1>2, <1>3

\* What the filters leave passes them, is no longer than asked for, and repeats nothing.
LEMMA FilteredFacts ==
    ASSUME NEW q \in Queries, NEW from \in Seq(Objects), NEW results \in Filtered(q, from)
    PROVE  /\ results \in Seq(Objects) /\ Len(results) <= q.limit /\ Elements(results) \subseteq Elements(from)
           /\ \A i, j \in DOMAIN results : results[i] = results[j] => i = j
           /\ \A i \in DOMAIN results : Passes(q, obj[results[i]].id)
           /\ Len(results) < q.limit => Elements(results) = Passing(q, from)
<1>1. q.limit \in Nat
  BY QueryAssumption DEF QueryRecords
<1>2. PICK s \in Selections(from, Passing(q, from)) : results = FirstOf(s, q.limit)
  BY DEF Filtered
<1>3. /\ Passing(q, from) \subseteq Elements(from) /\ Elements(from) \subseteq Objects
      /\ \A o \in Passing(q, from) : Passes(q, obj[o].id)
  BY ElementsFacts DEF Passing
<1>4. /\ results \in Seq(Passing(q, from)) /\ Len(results) <= q.limit
      /\ \A i, j \in DOMAIN results : results[i] = results[j] => i = j
      /\ Len(results) < q.limit => Elements(results) = Passing(q, from)
  BY <1>1, <1>2, <1>3, SelectionFacts
<1>5. \A i \in DOMAIN results : results[i] \in Passing(q, from)
  BY <1>4
<1>6. results \in Seq(Objects)
  BY <1>3, <1>4
<1> QED
  BY <1>3, <1>4, <1>5, <1>6 DEF Elements

\* What Set makes of the cache: the others stay, those that are not dropped.
LEMMA EntriesFacts ==
    ASSUME CacheTyped, NEW key \in Keys, NEW results \in Seq(Objects), cache' \in Entries(key, results)
    PROVE  /\ CacheTyped' /\ key \in DOMAIN cache' /\ cache'[key] = [results |-> results, fresh |-> TRUE]
           /\ \A k \in DOMAIN cache' : k # key => k \in DOMAIN cache /\ cache'[k] = cache[k]
<1>1. PICK rest : /\ cache' = With(rest, key, results)
                  /\ \/ rest = cache /\ Cardinality(DOMAIN cache) < CacheCap
                     \/ \E x \in DOMAIN cache : rest = Without({x})
  BY DEF Entries
<1>2. DOMAIN rest \subseteq DOMAIN cache /\ \A k \in DOMAIN rest : rest[k] = cache[k]
  BY <1>1 DEF Without
<1>3. /\ DOMAIN cache' = DOMAIN rest \cup {key} /\ cache'[key] = [results |-> results, fresh |-> TRUE]
      /\ \A k \in DOMAIN cache' : k # key => cache'[k] = rest[k]
  BY <1>1 DEF With
<1>4. /\ IsFiniteSet(DOMAIN cache) /\ Cardinality(DOMAIN cache) <= CacheCap
      /\ CacheCap \in Nat /\ Cardinality(DOMAIN cache) \in Nat
  BY WeightAssumption, FS_CardinalityType DEF CacheTyped
<1>5. IsFiniteSet(DOMAIN rest) /\ Cardinality(DOMAIN rest) \in Nat /\ Cardinality(DOMAIN rest) < CacheCap
  <2>1. CASE rest = cache /\ Cardinality(DOMAIN cache) < CacheCap
    BY <1>4, <2>1
  <2>2. CASE \E x \in DOMAIN cache : rest = Without({x})
    <3>1. PICK x \in DOMAIN cache : DOMAIN rest = DOMAIN cache \ {x}
      BY <2>2 DEF Without
    <3>2. IsFiniteSet(DOMAIN rest) /\ Cardinality(DOMAIN rest) = Cardinality(DOMAIN cache) - 1
      BY <1>4, <3>1, FS_RemoveElement
    <3>3. Cardinality(DOMAIN rest) \in Nat
      BY <3>2, FS_CardinalityType
    <3> QED
      BY <1>4, <3>2, <3>3
  <2> QED
    BY <1>1, <2>1, <2>2
<1>6. IsFiniteSet(DOMAIN cache') /\ Cardinality(DOMAIN cache') <= CacheCap
  <2>1. /\ IsFiniteSet(DOMAIN rest \cup {key})
        /\ Cardinality(DOMAIN rest \cup {key}) = IF key \in DOMAIN rest THEN Cardinality(DOMAIN rest) ELSE Cardinality(DOMAIN rest) + 1
    BY <1>5, FS_AddElement
  <2> QED
    BY <1>3, <1>4, <1>5, <2>1
<1>7. CacheTyped'
  <2>1. \A k \in DOMAIN cache' : k \in Keys /\ cache'[k] \in [results : Seq(Objects), fresh : BOOLEAN]
    <3>1. ASSUME NEW k \in DOMAIN cache', k = key
          PROVE  k \in Keys /\ cache'[k] \in [results : Seq(Objects), fresh : BOOLEAN]
      <4>1. [results |-> results, fresh |-> TRUE] \in [results : Seq(Objects), fresh : BOOLEAN]
        OBVIOUS
      <4> QED
        BY <1>3, <3>1, <4>1
    <3>2. ASSUME NEW k \in DOMAIN cache', k # key
          PROVE  k \in Keys /\ cache'[k] \in [results : Seq(Objects), fresh : BOOLEAN]
      <4>1. k \in DOMAIN cache /\ cache'[k] = cache[k]
        BY <1>2, <1>3, <3>2
      <4>2. \A x \in DOMAIN cache : x \in Keys /\ cache[x] \in [results : Seq(Objects), fresh : BOOLEAN]
        BY DEF CacheTyped
      <4> QED
        BY <4>1, <4>2
    <3> QED
      BY <3>1, <3>2
  <2> QED
    BY <1>6, <2>1 DEF CacheTyped
<1> QED
  BY <1>2, <1>3, <1>7

\* The answer is what passes, and its copy is kept.
LEMMA FinishStep ==
    ASSUME RecallInv, NEW h \in Handlers, Finish(h)
    PROVE  RecallInv' /\ ServiceStep
<1> DEFINE q == call[h].query
           old == call[h].results
           key == CacheKey(q)
<1>1. call[h].stage = "merged" /\ UNCHANGED status
  BY DEF Finish
<1>2. PICK results \in Filtered(q, old) :
        /\ call' = [call EXCEPT ![h].stage = "reply", ![h].results = results]
        /\ \E copies \in New(CacheMaker, Len(results)) :
              cache' \in Entries(key, copies) /\ Contents(Copied(copies, results), {}, {})
  BY DEF Finish, Cloned
<1>3. PICK copies \in New(CacheMaker, Len(results)) :
        /\ call' = [call EXCEPT ![h].stage = "reply", ![h].results = results]
        /\ cache' \in Entries(key, copies) /\ Contents(Copied(copies, results), {}, {})
  BY <1>2
<1>4. /\ CallTyped(call[h]) /\ GoneStays(call[h]) /\ FoundSound(call[h]) /\ DueSound(call[h]) /\ DOMAIN call = Handlers
      /\ ObjectsTyped /\ CacheTyped /\ q \in Queries /\ q # None /\ CacheMaker \in Makers
      /\ key \in Keys
  BY <1>1, HandlerFacts, MakerAssumption DEF CallTyped, Keys
<1>5. old \in Seq(Objects) /\ Elements(old) \subseteq Held /\ Elements(old) \cap pool = {}
  BY <1>4, HeldFacts DEF CallTyped, HeldHolds, RecallInv, ResultsAreOwned
<1>6. /\ results \in Seq(Objects) /\ Len(results) <= q.limit /\ Elements(results) \subseteq Elements(old)
      /\ \A i, j \in DOMAIN results : results[i] = results[j] => i = j
      /\ \A i \in DOMAIN results : Passes(q, obj[results[i]].id)
      /\ Len(results) < q.limit => Elements(results) = Passing(q, old)
  BY <1>3, <1>4, <1>5, FilteredFacts
<1>7. /\ copies \in Seq(Objects) /\ Len(copies) = Len(results) /\ \A i, j \in DOMAIN copies : copies[i] = copies[j] => i = j
      /\ \A o \in Elements(copies) : o \in Objects /\ o \notin Held \cup pool
  <2>1. Len(results) \in Nat
    BY <1>6
  <2> QED
    BY <1>3, <1>4, <2>1, NewFacts
<1>8. PICK content : content = Copied(copies, results)
  OBVIOUS
<1>9. /\ \A o \in Objects : content[o] \in ObjectRecords
      /\ \A o \in Objects : o \in Elements(copies) \/ content[o].id = obj[o].id
      /\ \A i \in DOMAIN copies : content[copies[i]].id = obj[results[i]].id
  <2>1. Elements(copies) \cap Elements(results) = {}
    BY <1>5, <1>6, <1>7
  <2> QED
    BY <1>4, <1>6, <1>7, <1>8, <2>1, CopiedFacts
<1>10. /\ ObjectsTyped' /\ pool' \subseteq (pool \ {}) \cup {}
      /\ \A o \in Objects \cap Held' : o \in {} \/ obj'[o] = content[o]
  <2>1. Contents(content, {}, {}) /\ {} \subseteq Objects
    BY <1>3, <1>8
  <2> QED
    BY <1>4, <1>9, <2>1, ContentsFacts
<1>11. /\ DOMAIN call'[h] = Fields /\ call'[h].stage = "reply" /\ call'[h].query = q /\ call'[h].gone = call[h].gone
       /\ call'[h].due = call[h].due /\ call'[h].linked = call[h].linked /\ call'[h].near = call[h].near
       /\ call'[h].vector = call[h].vector /\ call'[h].keyword = call[h].keyword
       /\ call'[h].results = results /\ DOMAIN call' = Handlers /\ \A g \in Handlers \ {h} : call'[g] = call[g]
  BY <1>3, <1>4 DEF CallTyped, Fields
<1>12. CallTyped(call[h])' /\ GoneStays(call[h])' /\ FoundSound(call[h])'
  <2>1. CallTyped(call[h])'
    BY <1>1, <1>4, <1>6, <1>11 DEF CallTyped, Stages
  <2>2. GoneStays(call[h])' /\ FoundSound(call[h])'
    BY <1>1, <1>4, <1>11 DEF GoneStays, FoundSound
  <2> QED
    BY <2>1, <2>2
<1>13. /\ CacheTyped' /\ key \in DOMAIN cache' /\ cache'[key] = [results |-> copies, fresh |-> TRUE]
       /\ \A k \in DOMAIN cache' : k # key => k \in DOMAIN cache /\ cache'[k] = cache[k]
  BY <1>3, <1>4, <1>7, EntriesFacts
<1>14. \A i \in DOMAIN results : obj'[results[i]].id = obj[results[i]].id /\ obj'[copies[i]].id = obj[results[i]].id
  <2>1. HeldHolds'
    BY HeldFacts, PTL
  <2>2. DOMAIN copies = DOMAIN results
    BY <1>6, <1>7
  <2>3. Elements(results) \subseteq Held' /\ Elements(copies) \subseteq Held'
    BY <1>11, <1>13, <2>1 DEF HeldHolds
  <2>4. ASSUME NEW i \in DOMAIN results
        PROVE  obj'[results[i]].id = obj[results[i]].id /\ obj'[copies[i]].id = obj[results[i]].id
    <3>1. /\ results[i] \in Elements(results) /\ copies[i] \in Elements(copies)
          /\ results[i] \in Objects /\ copies[i] \in Objects
      BY <1>6, <1>7, <2>2 DEF Elements
    <3>2. results[i] \notin Elements(copies)
      BY <1>5, <1>6, <1>7, <3>1
    <3> QED
      BY <1>9, <1>10, <2>2, <2>3, <3>1, <3>2
  <2> QED
    BY <2>4
<1>15. DueSound(call[h])'
  <2>1. Due(call[h])' = Due(call[h])
    BY <1>1, <1>11 DEF Due
  <2>2. ASSUME Whole(q), Len(results) < q.limit, NEW m \in Due(call[h]), Passes(q, m)
        PROVE  m \in Elements(Ids(call[h].results))'
    <3>1. m \in Elements(Ids(old))
      BY <1>1, <1>4, <2>2 DEF DueSound
    <3>2. PICK o \in Elements(old) : obj[o].id = m
      BY <3>1 DEF Elements, Ids
    <3>3. o \in Passing(q, old)
      BY <2>2, <3>2 DEF Passing, Whole
    <3>4. PICK i \in DOMAIN results : results[i] = o
      BY <1>6, <2>2, <3>3 DEF Elements
    <3> QED
      BY <1>11, <1>14, <3>2, <3>4 DEF Elements, Ids
  <2> QED
    BY <1>1, <1>4, <1>11, <2>1, <2>2 DEF DueSound
<1>16. RecallInv' /\ OthersAnswer(h) /\ IdsStay
  <2>1. PICK T : T = {}
    OBVIOUS
  <2>2. \A o \in Objects \cap Held \cap Held' : obj'[o].id = obj[o].id
    BY <1>7, <1>9, <1>10
  <2>3. pool' \subseteq pool /\ pool' \cap Elements(results) = {} /\ Elements(results) \subseteq Elements(old)
    BY <1>5, <1>6, <1>10
  <2>4. \A k \in DOMAIN cache' : \/ k \in DOMAIN cache /\ cache'[k].results = cache[k].results
                                 \/ k = key /\ \A o \in Elements(cache'[k].results) : o \notin Held \cup pool \cup T
    BY <1>7, <1>13, <2>1
  <2>5. Moves(h, T, key)
    BY <1>1, <1>10, <1>11, <1>12, <1>13, <1>15, <2>1, <2>2, <2>3, <2>4 DEF Moves
  <2> QED
    BY <2>5, HandlerStep
<1>17. AnswerOf(h)' = [i \in DOMAIN results |-> obj[results[i]].id] /\ Ids(copies)' = [i \in DOMAIN results |-> obj[results[i]].id]
  <2>1. DOMAIN copies = DOMAIN results
    BY <1>6, <1>7
  <2> QED
    BY <1>11, <1>14, <2>1 DEF AnswerOf, Ids
<1>18. Kept' \subseteq Kept \cup {<<key, AnswerOf(h)'>>}
  <2>1. ASSUME NEW k \in DOMAIN cache', cache'[k].fresh
        PROVE  <<k, Ids(cache[k].results)'>> \in Kept \cup {<<key, AnswerOf(h)'>>}
    <3>1. CASE k = key
      <4>1. cache'[k].results = copies
        BY <1>13, <3>1
      <4>2. Ids(cache[k].results)' = Ids(copies)'
        BY <4>1 DEF Ids
      <4> QED
        BY <1>17, <3>1, <4>2
    <3>2. CASE k # key
      <4>1. k \in DOMAIN cache /\ cache[k].fresh /\ Ids(cache[k].results)' = Ids(cache[k].results)
        BY <1>13, <1>16, <2>1, <3>2 DEF IdsStay
      <4> QED
        BY <4>1 DEF Kept
    <3> QED
      BY <3>1, <3>2
  <2> QED
    BY <2>1 DEF Kept
<1>19. PICK answer : answer = [i \in DOMAIN results |-> obj[results[i]].id]
  OBVIOUS
<1>20. /\ DOMAIN answer = DOMAIN results /\ answer \in Seq(Memories) /\ Len(answer) = Len(results)
       /\ \A i, j \in DOMAIN answer : answer[i] = answer[j] => i = j
       /\ \A i \in DOMAIN answer : /\ answer[i] \in Memories /\ status[answer[i]] # "unknown"
                                   /\ answer[i] \notin call[h].gone /\ Passes(q, answer[i])
  <2>1. \A i \in DOMAIN results : results[i] \in Elements(results) /\ results[i] \in Elements(old)
    BY <1>6 DEF Elements
  <2>2. \A o \in Elements(old) : obj[o].id \in Memories /\ status[obj[o].id] # "unknown" /\ obj[o].id \notin call[h].gone
    BY <1>1, <1>4 DEF FoundSound, Elements
  <2>3. \A o, p \in Elements(old) : obj[o].id = obj[p].id => o = p
    BY <1>1, <1>4 DEF FoundSound, Elements
  <2>4. answer \in Seq(Memories) /\ Len(answer) = Len(results)
    BY <1>6, <1>19, <2>1, <2>2
  <2> QED
    BY <1>6, <1>19, <2>1, <2>2, <2>3, <2>4
<1>21. Service!IsAnswer(q, call[h].gone, answer)
  BY <1>6, <1>20 DEF Service!IsAnswer, AnswerLimit
<1>22. AnswerOf(h)' = answer /\ answer # None /\ AnswerOf(h) = None
  BY <1>1, <1>17, <1>19, <1>20, NoneAssumption DEF AnswerOf
<1>23. OthersStay(h)
  BY <1>11, <1>16 DEF OthersStay, OthersAnswer
<1> HIDE DEF q, key
<1>24. /\ call[h].query = q /\ call'[h].query = call[h].query /\ call[h].query # None
       /\ Kept' \subseteq Kept \cup {<<CacheKey(call[h].query), AnswerOf(h)'>>} /\ Service!IsAnswer(call[h].query, call[h].gone, AnswerOf(h)')
  BY <1>4, <1>11, <1>18, <1>21, <1>22 DEF q, key
<1>25. ServiceStep
  BY <1>1, <1>11, <1>22, <1>23, <1>24, ReplyStep
<1> QED
  BY <1>16, <1>25

-----------------------------------------------------------------------------
(* Steps of no handler *)

\* Nothing that is held changes but what is kept, which becomes less.
LEMMA QuietStep ==
    ASSUME RecallInv, UNCHANGED <<status, call>>, ObjectsTyped', pool' \subseteq pool,
           \A o \in Objects \cap Held' : obj'[o].id = obj[o].id,
           CacheTyped', DOMAIN cache' = DOMAIN cache,
           \A k \in DOMAIN cache : cache'[k].results = cache[k].results /\ (cache'[k].fresh => cache[k].fresh)
    PROVE  RecallInv' /\ ServiceStep
<1>1. HeldHolds'
  BY HeldFacts, PTL
<1>2. \A h \in Handlers : /\ \A i \in DOMAIN call[h].results : obj'[call[h].results[i]].id = obj[call[h].results[i]].id
                          /\ Ids(call[h].results)' = Ids(call[h].results)
  <2>1. ASSUME NEW h \in Handlers, NEW i \in DOMAIN call[h].results
        PROVE  obj'[call[h].results[i]].id = obj[call[h].results[i]].id
    <3>1. call[h].results \in Seq(Objects)
      BY HandlerFacts DEF CallTyped
    <3> QED
      BY <1>1, <3>1 DEF HeldHolds, Elements
  <2> QED
    BY <2>1 DEF Ids
<1>3. \A k \in DOMAIN cache : Ids(cache[k].results)' = Ids(cache[k].results)
  <2>1. ASSUME NEW k \in DOMAIN cache
        PROVE  Ids(cache[k].results)' = Ids(cache[k].results)
    <3>1. cache[k].results \in Seq(Objects) /\ cache'[k].results = cache[k].results
      BY DEF RecallInv, CacheTyped
    <3>2. Elements(cache[k].results) \subseteq Held'
      BY <1>1, <3>1 DEF HeldHolds
    <3> QED
      BY <3>1, <3>2 DEF Ids, Elements
  <2> QED
    BY <2>1
<1>4. ResultsAreOwned'
  BY DEF RecallInv, ResultsAreOwned
<1>5. \A h \in Handlers : CallTyped(call[h])' /\ GoneStays(call[h])' /\ FoundSound(call[h])' /\ DueSound(call[h])'
  <2>1. ASSUME NEW h \in Handlers
        PROVE  CallTyped(call[h])' /\ GoneStays(call[h])' /\ FoundSound(call[h])' /\ DueSound(call[h])'
    <3>1. CallTyped(call[h]) /\ GoneStays(call[h]) /\ FoundSound(call[h]) /\ DueSound(call[h])
      BY HandlerFacts
    <3>2. CallTyped(call[h])'
      BY <3>1 DEF CallTyped
    <3>3. GoneStays(call[h])' /\ FoundSound(call[h])'
      BY <1>2, <3>1 DEF GoneStays, FoundSound
    <3>4. DueSound(call[h])'
      BY <1>2, <3>1 DEF DueSound, Due
    <3> QED
      BY <3>2, <3>3, <3>4
  <2> QED
    BY <2>1
<1>6. RecallInv'
  BY <1>4, <1>5 DEF RecallInv, CallsTyped, StatusTyped
<1>7. Kept' \subseteq Kept
  BY <1>3 DEF Kept
<1>8. \A h \in Handlers : AnswerOf(h)' = AnswerOf(h)
  BY <1>2 DEF AnswerOf
<1> QED
  BY <1>6, <1>7, <1>8, DropStep

\* An entry expires.
LEMMA ExpireStep ==
    ASSUME RecallInv, NEW k \in DOMAIN cache, Expire(k)
    PROVE  RecallInv' /\ ServiceStep
<1>1. /\ cache[k].fresh /\ cache' = [cache EXCEPT ![k].fresh = FALSE]
      /\ UNCHANGED <<status, call, obj, pool>>
  BY DEF Expire
<1>2. ObjectsTyped' /\ CacheTyped
  BY <1>1 DEF RecallInv, ObjectsTyped
<1>3. /\ DOMAIN cache' = DOMAIN cache /\ CacheTyped'
      /\ \A q \in DOMAIN cache : cache'[q].results = cache[q].results /\ (cache'[q].fresh => cache[q].fresh)
  BY <1>1, <1>2 DEF CacheTyped
<1> QED
  BY <1>1, <1>2, <1>3, QuietStep

\* An access is counted, and what nothing refers to any more is forgotten.
LEMMA CountStep ==
    ASSUME RecallInv, NEW c \in Counters, IncrementAccessCount(c)
    PROVE  RecallInv' /\ ServiceStep
<1>1. UNCHANGED <<status, call, cache>> /\ Contents(obj, {}, {})
  BY DEF IncrementAccessCount
<1>2. ObjectsTyped /\ CacheTyped
  BY DEF RecallInv
<1>3. /\ ObjectsTyped' /\ pool' \subseteq (pool \ {}) \cup {}
      /\ \A o \in Objects \cap Held' : o \in {} \/ obj'[o] = obj[o]
  BY <1>1, <1>2, ContentsFacts DEF ObjectsTyped
<1>4. CacheTyped'
  BY <1>1, <1>2 DEF CacheTyped
<1> QED
  BY <1>1, <1>3, <1>4, QuietStep

\* A memory is stored or superseded.
LEMMA ChangeStep ==
    ASSUME RecallInv, NEW m \in Memories, Store(m) \/ Supersede(m)
    PROVE  RecallInv' /\ ServiceStep
<1>1. /\ UNCHANGED <<call, obj, pool, cache>>
      /\ \/ status[m] = "unknown" /\ status' = [status EXCEPT ![m] = "active"]
         \/ status[m] = "active" /\ status' = [status EXCEPT ![m] = "superseded"]
  BY DEF Store, Supersede
<1>2. StatusTyped /\ StatusTyped'
  BY <1>1 DEF RecallInv, StatusTyped
<1>3. \A n \in Memories : /\ status[n] = "superseded" => status'[n] = "superseded"
                          /\ status[n] # "unknown" => status'[n] # "unknown"
  BY <1>1, <1>2 DEF StatusTyped
<1>4. ResultsAreOwned' /\ CacheTyped' /\ ObjectsTyped' /\ CallsTyped'
  <2>1. ResultsAreOwned' /\ CacheTyped' /\ ObjectsTyped'
    BY <1>1 DEF RecallInv, ResultsAreOwned, CacheTyped, ObjectsTyped
  <2>2. CallsTyped'
    BY <1>1 DEF RecallInv, CallsTyped, CallTyped
  <2> QED
    BY <2>1, <2>2
<1>5. \A h \in Handlers : GoneStays(call[h])' /\ FoundSound(call[h])' /\ DueSound(call[h])'
  <2>1. ASSUME NEW h \in Handlers
        PROVE  GoneStays(call[h])' /\ FoundSound(call[h])' /\ DueSound(call[h])'
    <3>1. GoneStays(call[h]) /\ FoundSound(call[h]) /\ DueSound(call[h]) /\ Ids(call[h].results)' = Ids(call[h].results)
      BY <1>1 DEF RecallInv, Ids
    <3>2. GoneStays(call[h])' /\ FoundSound(call[h])'
      BY <1>1, <1>3, <3>1 DEF GoneStays, FoundSound
    <3>3. \A n \in call[h].due : n \in Memories /\ status[n] # "unknown"
      BY <3>1 DEF DueSound
    <3>4. Due(call[h])' \subseteq Due(call[h])
      BY <1>1, <1>2, <3>3 DEF Due, StatusTyped
    <3>5. DueSound(call[h])'
      BY <1>1, <1>3, <3>1, <3>3, <3>4 DEF DueSound
    <3> QED
      BY <3>2, <3>5
  <2> QED
    BY <2>1
<1>6. RecallInv'
  BY <1>2, <1>4, <1>5 DEF RecallInv
<1>7. Service!Change(m)
  BY <1>1 DEF Service!Change, Ids
<1> QED
  BY <1>6, <1>7 DEF ServiceStep, Service!Next

-----------------------------------------------------------------------------
(* The specification *)

\* Nothing is asked, held or kept at first.
LEMMA InitStep ==
    ASSUME Init
    PROVE  RecallInv /\ Service!Init
<1>1. /\ status = [m \in Memories |-> IF m \in Initial THEN "active" ELSE "unknown"]
      /\ call = [h \in Handlers |-> Idle] /\ obj = [o \in Objects |-> Blank] /\ pool = {} /\ cache = <<>>
  BY DEF Init
<1>2. /\ DOMAIN Idle = Fields /\ Idle.stage = "idle" /\ Idle.query = None /\ Idle.gone = {} /\ Idle.due = {}
      /\ Idle.linked = {} /\ Idle.results = <<>> /\ Idle.near = <<>> /\ Idle.vector = <<>> /\ Idle.keyword = <<>>
      /\ Blank \in ObjectRecords
  BY DEF Idle, Fields, Blank, ObjectRecords
<1>3. DOMAIN cache = {}
  BY <1>1
<1>4. StatusTyped /\ CallsTyped /\ ObjectsTyped /\ CacheTyped
  <2>1. StatusTyped
    BY <1>1 DEF StatusTyped
  <2>2. CallTyped(Idle)
    BY <1>2 DEF CallTyped, Stages
  <2>3. CallsTyped
    BY <1>1, <2>2 DEF CallsTyped
  <2>4. ObjectsTyped
    BY <1>1, <1>2 DEF ObjectsTyped
  <2>5. CacheTyped
    BY <1>3, WeightAssumption, FS_EmptySet DEF CacheTyped
  <2> QED
    BY <2>1, <2>3, <2>4, <2>5
<1>5. ResultsAreOwned
  BY <1>1, <1>2, <1>3 DEF ResultsAreOwned, Elements
<1>6. \A h \in Handlers : GoneStays(call[h]) /\ FoundSound(call[h]) /\ DueSound(call[h])
  BY <1>1, <1>2 DEF GoneStays, FoundSound, DueSound
<1>7. Service!Init
  BY <1>1, <1>2, <1>3 DEF Service!Init
<1> QED
  BY <1>4, <1>5, <1>6, <1>7 DEF RecallInv

\* Every step keeps the invariant, and is a step of the service or a stutter.
LEMMA NextStep ==
    ASSUME RecallInv, [Next]_vars
    PROVE  RecallInv' /\ ServiceStep
<1>1. ASSUME NEW m \in Memories, Store(m) \/ Supersede(m) PROVE RecallInv' /\ ServiceStep
  BY <1>1, ChangeStep
<1>2. ASSUME NEW k \in DOMAIN cache, Expire(k) PROVE RecallInv' /\ ServiceStep
  BY <1>2, ExpireStep
<1>3. ASSUME NEW h \in Handlers, NEW q \in Queries, Hit(h, q) \/ Miss(h, q) PROVE RecallInv' /\ ServiceStep
  BY <1>3, HitStep, MissStep
<1>4. ASSUME NEW h \in Handlers, Work(h) PROVE RecallInv' /\ ServiceStep
  <2>1. CASE KeywordLeg(h) \/ KeywordFails(h) \/ VectorLeg(h) \/ filterActiveIDs(h)
    BY <2>1, LegSteps
  <2>2. CASE SearchFails(h) \/ Respond(h)
    BY <2>2, EndSteps
  <2>3. CASE Process(h)
    BY <2>3, ProcessStep
  <2>4. CASE NoGraph(h) \/ Traverse(h)
    BY <2>4, GraphSteps
  <2>5. CASE Inject(h) \/ InjectFails(h)
    BY <2>5, InjectSteps
  <2>6. CASE Finish(h)
    BY <2>6, FinishStep
  <2> QED
    BY <1>4, <2>1, <2>2, <2>3, <2>4, <2>5, <2>6 DEF Work
<1>5. ASSUME NEW c \in Counters, IncrementAccessCount(c) PROVE RecallInv' /\ ServiceStep
  BY <1>5, CountStep
<1>6. CASE UNCHANGED vars
  <2>1. UNCHANGED <<status, call, obj, pool, cache>>
    BY <1>6 DEF vars
  <2>2. ObjectsTyped' /\ CacheTyped'
    BY <2>1 DEF RecallInv, ObjectsTyped, CacheTyped
  <2> QED
    BY <2>1, <2>2, QuietStep
<1> QED
  BY <1>1, <1>2, <1>3, <1>4, <1>5, <1>6 DEF Next

\* The invariant holds.
LEMMA RecallInvariance == Spec => []RecallInv
<1>1. Init => RecallInv
  BY InitStep
<1>2. RecallInv /\ [Next]_vars => RecallInv'
  BY NextStep
<1> QED
  BY <1>1, <1>2, PTL DEF Spec

\* Whatever is asked, answered from the cache, released and taken again at the
\* same time, a result object has one owner (internal/search/pipeline.go:58-62).
THEOREM ResultsOwned == Spec => []ResultsAreOwned
<1>1. RecallInv => ResultsAreOwned
  BY DEF RecallInv
<1> QED
  BY <1>1, RecallInvariance, PTL

\* Recall implements RecallService: its answers are those that a single step gives
\* to the query or gave to one with the same key, and stay as they are until they
\* are sent (internal/search/pipeline.go:55-128, internal/types/memory.go:149-169).
THEOREM RecallImplementsService == Spec => AnswersAtOnce
<1>1. Init => Service!Init
  BY InitStep
<1>2. RecallInv /\ [Next]_vars => [Service!Next]_(Service!service)
  BY NextStep DEF ServiceStep
<1> QED
  BY <1>1, <1>2, RecallInvariance, PTL DEF Spec, AnswersAtOnce, Service!Spec

\* Whatever the reads of a search interleave with, an answer shorter than its
\* limit has every memory that matched the keywords and stayed active
\* (internal/search/pipeline.go:116-121).
THEOREM KeywordMatchesAnswered == Spec => []KeywordMatchesAreAnswered
<1>1. RecallInv => KeywordMatchesAreAnswered
  <2> SUFFICES ASSUME RecallInv, NEW h \in Handlers, call[h].stage = "reply",
                      Len(call[h].results) < call[h].query.limit, Whole(call[h].query),
                      NEW m \in Matching(call[h].query) \cap Active \cap call[h].due, Passes(call[h].query, m)
               PROVE  m \in Elements(Ids(call[h].results))
    BY DEF KeywordMatchesAreAnswered, Whole, Matching
  <2>1. m \in Due(call[h])
    BY DEF Due, Active
  <2>2. DueSound(call[h])
    BY DEF RecallInv
  <2> QED
    BY <2>1, <2>2 DEF DueSound
<1> QED
  BY <1>1, RecallInvariance, PTL

-----------------------------------------------------------------------------
(* Types *)

RestTyped ==
    /\ counting \in [Counters -> Seq(Objects)]
    /\ load \in [asks : [Handlers -> SUBSET Queries], faults : Nat]

\* A fault leaves one fault less.
LEMMA FaultFacts ==
    ASSUME RestTyped, UNCHANGED load \/ Fault
    PROVE  load' \in [asks : [Handlers -> SUBSET Queries], faults : Nat]
BY DEF RestTyped, Fault

\* A step of a handler that ends no search counts nothing.
LEMMA WorkRest ==
    ASSUME RecallInv, RestTyped, NEW h \in Handlers, Work(h)
    PROVE  RestTyped'
<1>1. CASE Finish(h)
  <2>1. /\ UNCHANGED load /\ call[h].stage = "merged"
        /\ \E results \in Filtered(call[h].query, call[h].results) :
              \E c \in Counters : counting' = [counting EXCEPT ![c] = results]
    BY <1>1 DEF Finish
  <2>2. call[h].query \in Queries /\ call[h].results \in Seq(Objects)
    BY <2>1, HandlerFacts DEF CallTyped
  <2>3. \A results \in Filtered(call[h].query, call[h].results) : results \in Seq(Objects)
    BY <2>2, FilteredFacts
  <2> QED
    BY <2>1, <2>3 DEF RestTyped
<1>2. CASE ~Finish(h)
  <2>1. UNCHANGED counting
    BY <1>2 DEF Work, KeywordLeg, KeywordFails, VectorLeg, filterActiveIDs, SearchFails, Process, NoGraph,
                Traverse, Inject, InjectFails, Merge, Respond
  <2>2. UNCHANGED load \/ Fault
    BY <1>2 DEF Work, KeywordLeg, KeywordFails, VectorLeg, filterActiveIDs, SearchFails, Process, NoGraph,
                Traverse, Inject, InjectFails, Respond
  <2> QED
    BY <2>1, <2>2, FaultFacts DEF RestTyped
<1> QED
  BY <1>1, <1>2

\* What is being counted and what is left of the load keep their types.
LEMMA RestStep ==
    ASSUME RecallInv, RestTyped, [Next]_vars
    PROVE  RestTyped'
<1>1. ASSUME NEW m \in Memories, Store(m) \/ Supersede(m) PROVE RestTyped'
  BY <1>1 DEF RestTyped, Store, Supersede
<1>2. ASSUME NEW k \in DOMAIN cache, Expire(k) PROVE RestTyped'
  BY <1>2 DEF RestTyped, Expire
<1>3. ASSUME NEW h \in Handlers, NEW q \in Queries, Hit(h, q) \/ Miss(h, q) PROVE RestTyped'
  <2>1. UNCHANGED counting /\ (UNCHANGED load \/ Fault)
    BY <1>3 DEF Hit, Miss
  <2> QED
    BY <2>1, FaultFacts DEF RestTyped
<1>4. ASSUME NEW h \in Handlers, Work(h) PROVE RestTyped'
  BY <1>4, WorkRest
<1>5. ASSUME NEW c \in Counters, IncrementAccessCount(c) PROVE RestTyped'
  <2>1. UNCHANGED load /\ counting[c] # <<>> /\ counting' = [counting EXCEPT ![c] = Tail(@)]
    BY <1>5 DEF IncrementAccessCount
  <2>2. counting[c] \in Seq(Objects)
    BY DEF RestTyped
  <2>3. Tail(counting[c]) \in Seq(Objects)
    BY <2>1, <2>2
  <2> QED
    BY <2>1, <2>3 DEF RestTyped
<1>6. CASE UNCHANGED vars
  BY <1>6 DEF RestTyped, vars
<1> QED
  BY <1>1, <1>2, <1>3, <1>4, <1>5, <1>6 DEF Next

\* Every variable keeps its type, and the cache never outgrows its capacity.
THEOREM RecallTypeCorrect == Spec => []TypeOK
<1>1. Init => RestTyped
  BY BoundAssumption DEF Init, RestTyped
<1>2. RecallInv /\ RestTyped /\ [Next]_vars => RestTyped'
  BY RestStep
<1>3. RecallInv /\ RestTyped => TypeOK
  <2> SUFFICES ASSUME RecallInv, RestTyped
               PROVE  TypeOK
    OBVIOUS
  <2>1. StatusTyped /\ ObjectsTyped /\ CacheTyped /\ CallsTyped
    BY DEF RecallInv
  <2>2. DOMAIN Idle = Fields
    BY DEF Idle, Fields
  <2>3. ASSUME NEW h \in Handlers
        PROVE  LET c == call[h] IN
               /\ DOMAIN c = DOMAIN Idle
               /\ c.stage \in Stages
               /\ c.query \in Queries \cup {None}
               /\ c.due \cup c.gone \subseteq Memories /\ c.linked \subseteq Memories
               /\ c.near \in Seq(Memories \cup Chunks \cup {None})
               /\ c.vector \in Seq(Memories \cup Chunks \cup {None})
               /\ c.keyword \in Seq(Memories \cup {None})
               /\ c.results \in Seq(Objects)
    BY <2>1, <2>2 DEF CallsTyped, CallTyped
  <2>4. DOMAIN cache \subseteq {CacheKey(q) : q \in Queries}
    BY <2>1 DEF CacheTyped, Keys
  <2> QED
    BY <2>1, <2>3, <2>4 DEF TypeOK, StatusTyped, ObjectsTyped, ObjectRecords, CacheTyped, RestTyped
<1> QED
  BY <1>1, <1>2, <1>3, RecallInvariance, PTL DEF Spec
=============================================================================
