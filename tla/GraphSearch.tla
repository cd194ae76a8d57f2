---------------------------- MODULE GraphSearch ----------------------------
(***************************************************************************)
(* The two searches of the entity graph, FindPath (internal/graph/path.go) *)
(* and Traverse (traverse.go), as the graph tools of the HTTP and MCP      *)
(* servers and the recall pipeline call them.  Both go breadth-first, with *)
(* one SELECT for the edges of every depth and, in Traverse, one for the   *)
(* memories of every entity, outside any transaction: memories that are    *)
(* stored and Dream Cycles that rebuild the graph write in between.        *)
(*                                                                         *)
(* Searches only read, so that one at a time is enough.  Nodes and         *)
(* mentions are never deleted; a rebuild deletes related_to edges and      *)
(* leaves the typed ones.  Every mention weighs 1.  No search asks whether *)
(* its rows ended with an error, so that any of them may be missing.       *)
(*                                                                         *)
(* MentionOnly, ShallowerThan and EachEdge are slips of the definitions    *)
(* that follow them, which the properties notice; the specification does   *)
(* not use them.                                                           *)
(***************************************************************************)
EXTENDS Integers, Sequences, FiniteSets, FiniteSetsExt, Functions

CONSTANTS
    Entities,
    Notes,        \* memories
    Possible,     \* pairs of entities that edges may join
    Typed,        \* those of typed edges
    Mentioned,    \* pairs <<memory, entity>> that may be stored
    MaxSeeds,     \* entities of a query that a traversal starts from (3)
    Depths,       \* depths and limits that are asked for, 0 for the default
    DefaultDepth, \* 2 in Traverse, 4 in FindPath
    Limits,
    DefaultLimit, \* 10
    Unit,         \* what a mention counts at the seed itself
    MaxChanges,   \* bound: writes of others, and reads of edges that end early
    Nowhere

ASSUME EntityAssumption == IsFiniteSet(Entities) /\ Nowhere \notin Entities
ASSUME EdgeAssumption ==
    /\ Possible \subseteq Entities \X Entities
    /\ Typed \subseteq Possible
    /\ Mentioned \subseteq Notes \X Entities
ASSUME NumberAssumption ==
    /\ Depths \cup Limits \cup {MaxSeeds, MaxChanges} \subseteq Nat
    /\ {DefaultDepth, DefaultLimit, Unit} \subseteq Nat \ {0}

VARIABLES
    edges,     \* entity_entity_edges
    mentions,  \* entity_edges
    known,     \* entity_nodes
    path,      \* the FindPath under way
    walk,      \* the Traverse under way
    changes    \* what MaxChanges bounds, so far

searched == <<path, walk>>
graphVars == <<edges, mentions, known, path, walk, changes>>

-----------------------------------------------------------------------------
Ends(e) == {e[1], e[2]}
OrDefault(n, default) == IF n = 0 THEN default ELSE n

\* Steps from an entity of S to one outside of seen, along either direction.
StepsFrom(E, S, seen) ==
    {s \in S \X (Entities \ seen) : s \in E \/ <<s[2], s[1]>> \in E}

\* The rows that a SELECT for the edges of S returns.
Touching(S) == {e \in edges : Ends(e) \cap S # {}}

Untrodden == [e \in Entities |-> <<>>]

\* ever: edges that were there at some time since the search began; kept: those
\* that were there all the time and that no failing read left out (histories);
\* trail: the path by which an entity was reached first, empty for one that was not.
NoPath == [at |-> "idle", source |-> Nowhere, target |-> Nowhere, depth |-> 0, hop |-> 0,
           frontier |-> {}, trail |-> Untrodden, answer |-> <<>>, ever |-> {}, kept |-> {}]

\* mentioned: mentions when the traversal began (history); skipped: entities whose
\* memories could not all be read (history); todo: steps to entities whose memories
\* are still to be read.
NoWalk == [at |-> "idle", seeds |-> {}, depth |-> 0, limit |-> 0, hop |-> 0, frontier |-> {}, visited |-> {},
           todo |-> {}, score |-> [m \in Notes |-> 0], ever |-> {}, kept |-> {}, mentioned |-> {}, skipped |-> {}]

InitSearch ==
    /\ edges \in SUBSET Possible
    /\ mentions \in SUBSET Mentioned
    /\ known = (UNION {Ends(e) : e \in edges}) \cup {x[2] : x \in mentions}
    /\ path = NoPath
    /\ walk = NoWalk
    /\ changes = 0

-----------------------------------------------------------------------------
(* The graph changes *)

Seen(search, E) == [search EXCEPT !.ever = @ \cup E, !.kept = @ \cap E]
Searching(search) == search.at # "idle"

Change(E) ==
    /\ changes < MaxChanges
    /\ changes' = changes + 1
    /\ edges' = E
    /\ path' = IF Searching(path) THEN Seen(path, E) ELSE path
    /\ walk' = IF Searching(walk) THEN Seen(walk, E) ELSE walk

\* A node is written, then the edge between the memory and it.
MentionOnly(m, e) ==
    /\ <<m, e>> \in Mentioned \ mentions
    /\ Change(edges)
    /\ mentions' = mentions \cup {<<m, e>>}
    /\ UNCHANGED known

Mention(m, e) ==
    /\ <<m, e>> \in Mentioned \ mentions
    /\ Change(edges)
    /\ known' = known \cup {e}
    /\ mentions' = mentions \cup {<<m, e>>}

Relate(e) ==
    /\ e \in Possible \ edges
    /\ Ends(e) \subseteq known
    /\ Change(edges \cup {e})
    /\ UNCHANGED <<mentions, known>>

RebuildGraph ==
    /\ \E related \in SUBSET {e \in Possible : Ends(e) \subseteq known} : Change((edges \cap Typed) \cup related)
    /\ UNCHANGED <<mentions, known>>

-----------------------------------------------------------------------------
(* FindPath *)

FindPath(s, t, depth) ==
    /\ path.at = "idle" /\ walk.at = "idle"
    /\ path' = [NoPath EXCEPT !.at = "source", !.source = s, !.target = t,
                              !.depth = OrDefault(depth, DefaultDepth), !.ever = edges, !.kept = edges]
    /\ UNCHANGED <<edges, mentions, known, walk, changes>>

\* lost: rows that an error keeps from being read, which nobody notices.
RowsMissed(lost) ==
    /\ UNCHANGED <<edges, mentions, known>>
    /\ IF lost = {} THEN UNCHANGED changes ELSE changes < MaxChanges /\ changes' = changes + 1

Continue(p) ==
    /\ path' = p
    /\ UNCHANGED <<edges, mentions, known, walk, changes>>

Found(p, answer) == [p EXCEPT !.at = "answer", !.frontier = {}, !.trail = Untrodden, !.answer = answer]

ResolveSource ==
    /\ path.at = "source"
    /\ Continue(IF path.source \in known THEN [path EXCEPT !.at = "target"] ELSE Found(path, <<>>))

\* A SELECT that fails is taken for an entity that is not known.
ResolveFails ==
    /\ path.at \in {"source", "target"}
    /\ Continue(Found([path EXCEPT !.kept = {}], <<>>))

ResolveTarget ==
    /\ path.at = "target"
    /\ Continue(IF path.target \in known \ {path.source}
                THEN [path EXCEPT !.at = "hops", !.frontier = {path.source},
                                  !.trail = [Untrodden EXCEPT ![path.source] = <<path.source>>]]
                ELSE Found(path, <<>>))

Reached(p) == {e \in Entities : p.trail[e] # <<>>}

ShallowerThan(hop, depth) == hop + 1 < depth
MayGoOn(hop, depth) == hop < depth

\* The edges of the frontier are read; an entity they lead to gets the first of
\* them, in the order of the rows, that reaches it; the target ends the search.
Expand(lost) ==
    /\ path.at = "hops"
    /\ MayGoOn(path.hop, path.depth)
    /\ path.frontier # {}
    /\ lost \subseteq Touching(path.frontier)
    /\ LET steps == StepsFrom(edges \ lost, path.frontier, Reached(path))
           new == {s[2] : s \in steps}
       IN \E from \in {f \in [new -> path.frontier] : \A e \in new : <<f[e], e>> \in steps} :
            LET trail == [e \in Entities |->
                             IF e \in new THEN Append(path.trail[from[e]], e) ELSE path.trail[e]]
                p == [path EXCEPT !.hop = @ + 1, !.kept = @ \ lost]
            IN path' = IF path.target \in new
                       THEN Found(p, trail[path.target])
                       ELSE [p EXCEPT !.frontier = new, !.trail = trail]
    /\ RowsMissed(lost)
    /\ UNCHANGED walk

NoneFound ==
    /\ path.at = "hops"
    /\ ~MayGoOn(path.hop, path.depth) \/ path.frontier = {}
    /\ Continue(Found(path, <<>>))

\* The SELECT of a depth fails, and the search with it.
ExpandFails ==
    /\ path.at = "hops"
    /\ Continue(NoPath)

AnswerPath ==
    /\ path.at = "answer"
    /\ Continue(NoPath)

-----------------------------------------------------------------------------
(* Traverse *)

\* ListEntityNames, matchGraphSeeds and the seeds' ids, all of known entities.
Traverse(seeds, depth, limit) ==
    /\ path.at = "idle" /\ walk.at = "idle"
    /\ seeds \subseteq known
    /\ walk' = [NoWalk EXCEPT !.at = "hops", !.seeds = seeds, !.visited = seeds, !.frontier = seeds,
                              !.todo = {<<e, e>> : e \in seeds},
                              !.depth = OrDefault(depth, DefaultDepth), !.limit = OrDefault(limit, DefaultLimit),
                              !.ever = edges, !.kept = edges, !.mentioned = mentions]
    /\ UNCHANGED <<edges, mentions, known, path, changes>>

Proceed(w) ==
    /\ walk' = w
    /\ UNCHANGED <<edges, mentions, known, path, changes>>

\* contrib: 0.5^hop / (hop + 1)
Decayed[hop \in Nat] == IF hop = 0 THEN Unit ELSE Decayed[hop - 1] \div 2
Share(hop) == Decayed[hop] \div (hop + 1)

EachEdge(todo, d) == todo \ {d}
Once(todo, d) == {s \in todo : s[2] # d[2]}

\* The memories of a seed, or of an entity that a step has led to, are read and
\* what the entity contributes is added to theirs.
ReadMemories(d) ==
  LET mine == {m \in Notes : <<m, d[2]>> \in mentions} IN
    /\ d \in walk.todo
    /\ Proceed([walk EXCEPT !.todo = Once(@, d), !.visited = @ \cup {d[2]},
                            !.score = [m \in Notes |-> IF m \in mine THEN @[m] + Share(walk.hop) ELSE @[m]]])

\* A SELECT that fails is passed over, and rows that end early are taken for all.
ReadFails(d) ==
    /\ d \in walk.todo
    /\ \E some \in SUBSET {m \in Notes : <<m, d[2]>> \in mentions} :
          Proceed([walk EXCEPT !.todo = Once(@, d), !.visited = @ \cup {d[2]}, !.skipped = @ \cup {d[2]},
                               !.score = [m \in Notes |-> IF m \in some THEN @[m] + Share(walk.hop) ELSE @[m]]])

MoreEntities == walk.hop < walk.depth /\ walk.frontier # {}

\* The edges of the frontier lead to the next one.
ReadEdges(lost) ==
  LET steps == StepsFrom(edges \ lost, walk.frontier, walk.visited) IN
    /\ walk.at = "hops"
    /\ walk.todo = {}
    /\ MoreEntities
    /\ lost \subseteq Touching(walk.frontier)
    /\ walk' = [walk EXCEPT !.hop = @ + 1, !.frontier = {s[2] : s \in steps}, !.todo = steps, !.kept = @ \ lost]
    /\ RowsMissed(lost)
    /\ UNCHANGED path

EdgesFail ==
    /\ walk.at = "hops"
    /\ walk.todo = {}
    /\ MoreEntities
    /\ Proceed(NoWalk)

Rank ==
    /\ walk.at = "hops"
    /\ walk.todo = {}
    /\ ~MoreEntities
    /\ Proceed([walk EXCEPT !.at = "answer"])

\* Best scores first, then by id; the model keeps the set only.
Best(w) ==
  LET scored == {m \in Notes : w.score[m] > 0}
  IN  {S \in SUBSET scored : /\ Cardinality(S) = w.limit \/ (S = scored /\ Cardinality(S) < w.limit)
                             /\ \A m \in S, n \in scored \ S : w.score[m] >= w.score[n]}

AnswerWalk ==
    /\ walk.at = "answer"
    /\ Best(walk) # {}
    /\ Proceed(NoWalk)

-----------------------------------------------------------------------------
NextSearch ==
    \/ \E x \in Mentioned : Mention(x[1], x[2])
    \/ \E e \in Possible : Relate(e)
    \/ RebuildGraph
    \/ \E s, t \in Entities, depth \in Depths : FindPath(s, t, depth)
    \/ ResolveSource \/ ResolveTarget \/ ResolveFails \/ NoneFound \/ ExpandFails \/ AnswerPath
    \/ \E lost \in SUBSET edges : Expand(lost) \/ ReadEdges(lost)
    \/ \E seeds \in (SUBSET Entities) \ {{}}, depth \in Depths, limit \in Limits :
          Cardinality(seeds) <= MaxSeeds /\ Traverse(seeds, depth, limit)
    \/ \E d \in walk.todo : ReadMemories(d) \/ ReadFails(d)
    \/ EdgesFail \/ Rank \/ AnswerWalk

SpecSearch == InitSearch /\ [][NextSearch]_graphVars

-----------------------------------------------------------------------------
(* Properties *)

\* What is within n steps of S along the edges E.
Within(E, S, n) ==
  LET reach[i \in 0..n] == IF i = 0 THEN S
                           ELSE reach[i - 1] \cup {s[2] : s \in StepsFrom(E, reach[i - 1], {})}
  IN  reach[n]

PathStates ==
    [at : {"idle", "source", "target", "hops", "answer"}, source : Entities \cup {Nowhere},
     target : Entities \cup {Nowhere}, depth : Nat, hop : Nat, frontier : SUBSET Entities,
     trail : [Entities -> Seq(Entities)], answer : Seq(Entities),
     ever : SUBSET Possible, kept : SUBSET Possible]

WalkStates ==
    [at : {"idle", "hops", "answer"}, seeds : SUBSET Entities, depth : Nat, limit : Nat, hop : Nat,
     frontier : SUBSET Entities, visited : SUBSET Entities, todo : SUBSET (Entities \X Entities),
     score : [Notes -> Nat], ever : SUBSET Possible, kept : SUBSET Possible,
     mentioned : SUBSET Mentioned, skipped : SUBSET Entities]

\* Every variable has its type, and what an edge or a mention leads to is a node.
TypeOKSearch ==
    /\ \A e \in edges : Ends(e) \subseteq known
    /\ \A x \in mentions : x[2] \in known
    /\ edges \subseteq Possible /\ mentions \subseteq Mentioned /\ known \subseteq Entities
    /\ changes \in 0..MaxChanges
    /\ path \in PathStates /\ path.frontier \subseteq Reached(path)
    /\ walk \in WalkStates

\* However the graph changes between the depths of a search, a path leads from
\* the source to the target without a repetition, over edges that existed during
\* the search and no more of them than allowed; and it is no longer than the
\* shortest one that existed all along and of whose edges a failing read left out
\* none: in particular one is found when there is such a one (path.go:51-138).
\* When the SELECT of an end fails nothing is promised, and "no path" is the answer.
PathIsShortest ==
  LET p == path.answer IN
    path.at = "answer" =>
        IF p = <<>>
        THEN path.source # path.target => path.target \notin Within(path.kept, {path.source}, path.depth)
        ELSE /\ p[1] = path.source /\ p[Len(p)] = path.target
             /\ \A i, j \in DOMAIN p : p[i] = p[j] => i = j
             /\ \A i \in 1..(Len(p) - 1) : <<p[i], p[i + 1]>> \in path.ever \/ <<p[i + 1], p[i]>> \in path.ever
             /\ Len(p) - 1 <= path.depth
             /\ path.target \notin Within(path.kept, {path.source}, Len(p) - 2)

Distance(e, E, S, depth) == Min({i \in 0..depth : e \in Within(E, S, i)})
Shares(E, S, depth) == [e \in Within(E, S, depth) |-> Share(Distance(e, E, S, depth))]

\* What the entities that mention m count, by their distance from the seeds.
Reckoned(m, E, M, S, depth, without) ==
    SumFunctionOnSet(Shares(E, S, depth), {e \in Within(E, S, depth) \ without : <<m, e>> \in M})

\* A memory's score counts every entity that mentions it once, by its distance
\* from the seeds, however many edges lead there and though edges come and go
\* between the SELECTs: it lies between what the edges that stayed, and that no
\* failing read left out, say and what all edges of the time say (traverse.go:75-185).
EntitiesCountOnce ==
    walk.at = "answer" =>
        \A m \in Notes :
            /\ walk.score[m] <= Reckoned(m, walk.ever, mentions, walk.seeds, walk.depth, {})
            /\ walk.score[m] >= Reckoned(m, walk.kept, walk.mentioned, walk.seeds, walk.depth, walk.skipped)
=============================================================================
