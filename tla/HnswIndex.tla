----------------------------- MODULE HnswIndex -----------------------------
(***************************************************************************)
(* The in-memory vector index of internal/index/hnsw.go: a layered graph   *)
(* of neighbour links over the stored vectors, searched greedily from one  *)
(* entry point down to layer 0.                                            *)
(*                                                                         *)
(* Insert and Search hold h.mu for their whole duration, so at most one    *)
(* operation runs (`op`), but they are long: they walk the graph one hop   *)
(* and one layer at a time.  Each hop and each layer is an action, because *)
(* the walk dereferences h.nodes[neighbor] without a nil check, and a nil  *)
(* node panics in the middle of the operation, after the layers above have *)
(* already been linked (the deferred Unlock runs, the HTTP server recovers *)
(* and the half-finished insert stays).                                    *)
(*                                                                         *)
(* Abstractions.  A vector is the identity of its id and Dist gives the    *)
(* distance between two vectors.  Equal texts have equal vectors, and any  *)
(* number of vectors may be at one distance of another: what map iteration *)
(* and sorting leave open then is left open here.  The index holds fewer   *)
(* vectors than EfConstruction (200) and EfSearch (50), so that the wide   *)
(* search of a layer visits everything reachable in it.  The width of      *)
(* vectors is left to another module.                                      *)
(*                                                                         *)
(* Neighbors, PruneEarly, DescendingToLevel, LinkBackUnpruned,             *)
(* LinkBackPruned, UnlinkedBelow and ReplaceEntryOnly are slips of the     *)
(* definitions that follow them, which the properties notice; the          *)
(* specification does not use them.                                        *)
(***************************************************************************)
EXTENDS Integers, FiniteSets

CONSTANTS
    Ids,       \* memory and chunk ids, each with its vector
    NoId,      \* the empty string of h.entryPoint
    MaxLayer,  \* bound: the highest layer randomLevel may draw
    M,         \* config.M, links a new node makes per layer
    Mmax,      \* config.Mmax, links a node keeps when it is pruned
    TopK,      \* results a search asks for
    Dist       \* Dist[a][b]: distance of the vectors of a and b

ASSUME SentinelAssumption == NoId \notin Ids
ASSUME SizeAssumption ==
    /\ MaxLayer \in Nat
    /\ M \in Nat \ {0}
    /\ Mmax \in Nat \ {0}
    /\ TopK \in Nat \ {0}
ASSUME DistAssumption ==
    /\ Dist \in [Ids -> [Ids -> Nat]]
    /\ \A q \in Ids : Dist[q][q] = 0

Layers == 0 .. MaxLayer

VARIABLES
    nodes,       \* ids in h.nodes
    level,       \* Node.Level; of an id not in nodes, the last one it had
    graph,       \* graph[l][a]: ids that a links to in layer l
    entryPoint,
    maxLevel,
    op,          \* the operation that holds h.mu
    hits,        \* ids the last search returned
    panicked     \* the last operation ended in a nil dereference

core == <<nodes, level, graph, entryPoint, maxLevel>>
vars == <<core, op, hits, panicked>>

-----------------------------------------------------------------------------
(* The graph as the code reads it. *)

\* The first k of S sorted by their distance from q, in any order among equals.
Closest(k, q, S) ==
    {T \in SUBSET S :
        /\ IF Cardinality(S) <= k THEN T = S ELSE Cardinality(T) = k
        /\ \A n \in T, m \in S \ T : Dist[q][n] <= Dist[q][m]}

IsNearest(n, q, S) == n \in S /\ \A m \in S : Dist[q][n] <= Dist[q][m]

\* What searchLayer visits from n when ef exceeds the size of the index:
\* the least set that contains n and is closed under the links.
Reach(links, n) ==
    {m \in Ids : \A S \in SUBSET Ids :
        (n \in S /\ \A a \in S : links[a] \subseteq S) => m \in S}

PruneEarly(q, S) == Closest(Mmax - 1, q, S)
pruneNeighbors(q, S) == Closest(Mmax, q, S)

\* layer, curr: where the operation stands; open, seen: while it descends, the
\* candidates as near as curr that are still to be expanded, and the visited.
At(kind, id, lvl, layer, curr) ==
    [kind |-> kind, id |-> id, lvl |-> lvl, layer |-> layer, curr |-> curr, open |-> {curr}, seen |-> {curr}]
Idle == [At("idle", NoId, 0, 0, NoId) EXCEPT !.open = {}, !.seen = {}]

DescendingToLevel == op.layer >= op.lvl
Descending == op.layer > op.lvl

\* What the wide search dereferences, and what the expansion of c does when ef = 1.
Visited == Reach(graph[op.layer], op.curr)
Neighbors(c) == graph[op.layer][c]
Unvisited(c) == graph[op.layer][c] \ op.seen

Init ==
    /\ nodes = {}
    /\ level = [i \in Ids |-> 0]
    /\ graph = [l \in Layers |-> [i \in Ids |-> {}]]
    /\ entryPoint = NoId
    /\ maxLevel = -1
    /\ op = Idle
    /\ hits = {}
    /\ panicked = FALSE

-----------------------------------------------------------------------------
(* Insert *)

\* randomLevel draws from a geometric distribution, capped one above maxLevel.
randomLevel == {l \in Layers : l <= maxLevel + 1}

\* insertLocked up to its first search; an id already stored changes nothing.
InsertBegin(id, lvl) ==
    /\ op = Idle
    /\ id \notin nodes
    /\ lvl \in randomLevel
    /\ nodes' = nodes \cup {id}
    /\ level' = [level EXCEPT ![id] = lvl]
    /\ IF entryPoint = NoId
       THEN /\ entryPoint' = id
            /\ maxLevel' = lvl
            /\ UNCHANGED op
       ELSE /\ op' = At("insert", id, lvl, IF maxLevel > lvl THEN maxLevel ELSE lvl, entryPoint)
            /\ UNCHANGED <<entryPoint, maxLevel>>
    /\ hits' = {}
    /\ panicked' = FALSE
    /\ UNCHANGED graph

\* The links that neighbour n of the new node id may have once the link back to id
\* is in: pruned, then the link from the nearest neighbour asserted again.
LinkBackUnpruned(links, n, id, nearest) == {links[n] \cup {id}}
LinkBackPruned(links, n, id, nearest) == pruneNeighbors(n, links[n] \cup {id})
LinkBack(links, n, id, nearest) ==
    {kept \cup (IF n = nearest THEN {id} ELSE {}) : kept \in pruneNeighbors(n, links[n] \cup {id})}

\* The links that the new node and its neighbours may have after a layer's linking.
Outcome(links, id, near, nearest, n) ==
    IF n = id THEN pruneNeighbors(id, links[id] \cup near) ELSE LinkBack(links, n, id, nearest)
Outcomes(links, id, near, nearest) ==
    {new \in [near \cup {id} -> UNION {Outcome(links, id, near, nearest, n) : n \in near \cup {id}}] :
        \A n \in near \cup {id} : new[n] \in Outcome(links, id, near, nearest, n)}

\* One layer's new links: both directions to the M nearest found.
Linked(links, new) == [n \in Ids |-> IF n \in DOMAIN new THEN new[n] ELSE links[n]]

Link ==
    /\ op.kind = "insert"
    /\ ~Descending
    /\ Visited \subseteq nodes
    /\ \E neighbors \in Closest(M, op.id, Visited), nearest \in Visited :
         /\ IsNearest(nearest, op.id, Visited)
         /\ nearest \in neighbors
         /\ \E new \in Outcomes(graph[op.layer], op.id, neighbors \ {op.id}, nearest) :
               graph' = [graph EXCEPT ![op.layer] = Linked(@, new)]
         /\ op' = IF op.layer = 0 THEN Idle ELSE At(op.kind, op.id, op.lvl, op.layer - 1, nearest)
    /\ IF op.layer > 0
       THEN UNCHANGED <<entryPoint, maxLevel>>
       ELSE /\ entryPoint' = IF op.lvl > maxLevel THEN op.id ELSE entryPoint
            /\ maxLevel' = IF op.lvl > maxLevel THEN op.lvl ELSE maxLevel
    /\ UNCHANGED <<nodes, level, hits, panicked>>

-----------------------------------------------------------------------------
(* Steps shared by Insert and Search *)

\* searchLayer with ef = 1 expands a candidate as near as the nearest found: what
\* is nearer still takes its place, what is as near is expanded too, and what is
\* farther ends the search when it is met.
Expand(c) ==
    /\ op # Idle
    /\ Descending
    /\ c \in op.open
    /\ Unvisited(c) \subseteq nodes
    /\ LET found == Unvisited(c) \cup {op.curr} IN
       \E best \in found :
         /\ IsNearest(best, op.id, found)
         /\ IsNearest(op.curr, op.id, found) => best = op.curr
         /\ op' = [op EXCEPT !.curr = best,
                            !.seen = @ \cup Unvisited(c),
                            !.open = {n \in (@ \ {c}) \cup Unvisited(c) : Dist[op.id][n] = Dist[op.id][best]}]
    /\ UNCHANGED <<core, hits, panicked>>

Descend ==
    /\ op # Idle
    /\ Descending
    /\ op.open = {}
    /\ op' = At(op.kind, op.id, op.lvl, op.layer - 1, op.curr)
    /\ UNCHANGED <<core, hits, panicked>>

\* h.nodes[neighbor] is nil: the operation stops where it is.
Panic ==
    /\ op # Idle
    /\ IF Descending THEN \E c \in op.open : ~(Unvisited(c) \subseteq nodes) ELSE ~(Visited \subseteq nodes)
    /\ op' = Idle
    /\ panicked' = TRUE
    /\ UNCHANGED <<core, hits>>

-----------------------------------------------------------------------------
(* Search *)

\* SearchChecked for the vector of q; an empty index answers at once.
SearchBegin(q) ==
    /\ op = Idle
    /\ entryPoint # NoId
    /\ op' = At("search", q, 0, maxLevel, entryPoint)
    /\ hits' = {}
    /\ panicked' = FALSE
    /\ UNCHANGED core

SearchEnd ==
    /\ op.kind = "search"
    /\ ~Descending
    /\ Visited \subseteq nodes
    /\ hits' \in Closest(TopK, op.id, Visited)
    /\ op' = Idle
    /\ UNCHANGED <<core, panicked>>

-----------------------------------------------------------------------------
(* Delete and Load *)

\* The node and its links go from layer 0 to its own level.
UnlinkedBelow(id) ==
    [l \in Layers |->
        IF l >= level[id] THEN graph[l]
        ELSE [n \in Ids |-> IF n = id THEN {} ELSE graph[l][n] \ {id}]]
Unlinked(id) ==
    [l \in Layers |->
        IF l > level[id] THEN graph[l]
        ELSE [n \in Ids |-> IF n = id THEN {} ELSE graph[l][n] \ {id}]]

\* A new entry point is whatever the map iteration meets first.
ReplaceEntryOnly(id) ==
    /\ entryPoint' \in IF entryPoint # id THEN {entryPoint}
                       ELSE IF nodes' = {} THEN {NoId} ELSE nodes'
    /\ maxLevel' = IF nodes' = {} THEN -1 ELSE maxLevel
ReplaceEntry(id) ==
    IF entryPoint # id THEN UNCHANGED <<entryPoint, maxLevel>>
    ELSE IF nodes' = {} THEN entryPoint' = NoId /\ maxLevel' = -1
    ELSE \E e \in nodes' : entryPoint' = e /\ maxLevel' = level[e]

Delete(id) ==
    /\ op = Idle
    /\ id \in nodes
    /\ nodes' = nodes \ {id}
    /\ graph' = Unlinked(id)
    /\ ReplaceEntry(id)
    /\ hits' = {}
    /\ panicked' = FALSE
    /\ UNCHANGED <<level, op>>

symmetrize(links) == [n \in Ids |-> links[n] \cup {m \in Ids : n \in links[m]}]

\* Save followed by Load of the same file in a new process.
Load ==
    /\ op = Idle
    /\ graph' = [l \in Layers |-> symmetrize(graph[l])]
    /\ hits' = {}
    /\ panicked' = FALSE
    /\ UNCHANGED <<nodes, level, entryPoint, maxLevel, op>>

Step == Link \/ (\E c \in op.open : Expand(c)) \/ Descend \/ Panic \/ SearchEnd

InsertOrSearch ==
    \/ \E id \in Ids, lvl \in Layers : InsertBegin(id, lvl)
    \/ \E q \in Ids : SearchBegin(q)
    \/ Step

Next ==
    \/ InsertOrSearch
    \/ \E id \in Ids : Delete(id)
    \/ Load

Spec == Init /\ [][Next]_vars

\* The same index when nothing is ever deleted (an append-only store).
GrowSpec == Init /\ [][InsertOrSearch \/ Load]_vars
-----------------------------------------------------------------------------
(* Properties *)

\* Every variable has its type; an operation under way stands on a layer of
\* the graph and on an id.
TypeOK ==
    /\ nodes \subseteq Ids
    /\ level \in [Ids -> Layers]
    /\ graph \in [Layers -> [Ids -> SUBSET Ids]]
    /\ entryPoint \in Ids \cup {NoId}
    /\ maxLevel \in -1 .. MaxLayer
    /\ op \in [kind : {"idle", "insert", "search"}, id : Ids \cup {NoId},
               lvl : Layers, layer : Layers, curr : Ids \cup {NoId}, open : SUBSET Ids, seen : SUBSET Ids]
    /\ hits \subseteq Ids
    /\ panicked \in BOOLEAN

\* The entry point is a stored node whose level is maxLevel, and it is absent
\* exactly when the index is empty (insertLocked 88-92 and 137-140, Delete
\* 376-383): otherwise the first dereference of every search fails.
EntryPointValid ==
    /\ entryPoint = NoId <=> nodes = {}
    /\ entryPoint # NoId => entryPoint \in nodes /\ maxLevel = level[entryPoint]

\* A link to or from a deleted id survives only in layers above the level the
\* id had (Delete 370-375 cleans 0 .. Level): layer 0 never holds one, so
\* neither the final scan of a search nor the layer-0 linking of an insert
\* meets a nil node, whatever was inserted, deleted or loaded before.
DanglingOnlyAboveLevel ==
    \A l \in Layers, a, b \in Ids :
        b \in graph[l][a] => \A n \in {a, b} \ nodes : l > level[n]

\* An insert that completes leaves its node with a link from a stored node in
\* layer 0 (the comment at 117-121: without one no search can reach it), unless
\* it is the first node or the walk arrived at the new node itself.
InsertLeavesInboundLink ==
    [][(op.kind = "insert" /\ op'.kind = "idle" /\ ~panicked' /\ op.curr # op.id)
         => \E n \in nodes : op.id \in graph'[0][n]]_vars

\* The nodes that a step leaves with more links in layer l than Mmax and than before.
Grown(l) ==
    {n \in Ids : /\ Cardinality(graph'[l][n]) > Mmax
                 /\ Cardinality(graph'[l][n]) > Cardinality(graph[l][n])}

\* A layer's linking lets at most one node grow beyond Mmax, by one link: the
\* nearest, whose link is asserted again after pruning (122-132).  Only a load
\* lets the others grow.
DegreeGrowsOnlyOnLoad ==
    [][op # Idle => \A l \in Layers :
         /\ Cardinality(Grown(l)) <= 1
         /\ \A n \in Grown(l) : Cardinality(graph'[l][n]) = Mmax + 1]_vars

\* While nothing is deleted, in every layer links join stored nodes only, so no
\* operation of an append-only index can panic, reloads included.
LinksJoinStoredNodes ==
    \A l \in Layers, a \in Ids :
        graph[l][a] # {} => {a} \cup graph[l][a] \subseteq nodes

\* While nothing is deleted, pruning drops no link from an index of at most
\* Mmax + 1 nodes (16 links a node, 110-131), so that a search visits every node
\* and its answer is the exact one, whatever levels were drawn and however often
\* the file was reloaded.
ExactWhenSmall ==
    (op.kind = "search" /\ op'.kind = "idle" /\ Cardinality(nodes) <= Mmax + 1)
        => (~panicked' /\ hits' \in Closest(TopK, op.id, nodes))
SmallIndexIsExact == [][ExactWhenSmall]_vars

\* Every step of an operation ends it or brings it nearer to its end: it goes a
\* layer down, or settles another node for good.  No walk expands a node twice,
\* though equal vectors, which link to each other, are at one distance, and deletes,
\* panics and reloads may have left anything of the graph (283-308).  There are finitely many
\* layers and nodes, and a step is always possible (a run would deadlock), so that
\* no operation holds h.mu for ever.
Settled(o) == o.seen \ o.open
OperationAdvances ==
    [][op # Idle =>
         \/ op' = Idle
         \/ /\ <<op'.kind, op'.id, op'.lvl>> = <<op.kind, op.id, op.lvl>>
            /\ \/ op'.layer < op.layer
               \/ op'.layer = op.layer /\ Settled(op) \subseteq Settled(op') /\ Settled(op) # Settled(op')]_vars

\* hnsw.go:595-597, of the nodes that pruning has cut off: "Making the graph
\* symmetric guarantees every stored node is reachable."  It does not: a cluster
\* whose members all have Mmax nearer ones keeps no link to the rest in either
\* direction, and a reload finds no half of a link to restore.
LoadReachesAll == [][Load => nodes \subseteq Reach(graph'[0], entryPoint)]_vars
=============================================================================
