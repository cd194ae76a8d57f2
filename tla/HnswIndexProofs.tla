-------------------------- MODULE HnswIndexProofs --------------------------
(***************************************************************************)
(* Proofs about HnswIndex, for any number of ids, layers and links.        *)
(*                                                                         *)
(* OpSound is the strengthening that makes TypeOK and EntryPointValid      *)
(* inductive: the operation under way stands on a stored node, and an      *)
(* insert's own node is stored at the level it drew.                       *)
(***************************************************************************)
EXTENDS HnswIndex, FiniteSetTheorems, TLAPS

OpSound ==
    op # Idle =>
        /\ op.kind \in {"insert", "search"}
        /\ op.id \in Ids
        /\ op.curr \in nodes /\ op.open \subseteq op.seen /\ op.seen \subseteq Ids
        /\ entryPoint # NoId
        /\ op.kind = "insert" => op.id \in nodes /\ level[op.id] = op.lvl
        /\ op.kind = "search" => op.lvl = 0

IndexInv == TypeOK /\ EntryPointValid /\ OpSound

-----------------------------------------------------------------------------
(* Facts about the operators of the graph. *)

\* Pruning and choosing neighbours never invent a link.
LEMMA ClosestSubset ==
    ASSUME NEW k, NEW q, NEW S, NEW T \in Closest(k, q, S)
    PROVE  T \subseteq S
BY DEF Closest

\* What linking can do to the links of the new node and of a neighbour.
LEMMA OutcomeBounds ==
    ASSUME NEW links, NEW id, NEW near, NEW nearest, NEW new \in Outcomes(links, id, near, nearest), NEW n \in DOMAIN new
    PROVE  /\ DOMAIN new = near \cup {id}
           /\ new[n] \in Outcome(links, id, near, nearest, n)
           /\ new[n] \subseteq IF n = id THEN links[id] \cup near ELSE links[n] \cup {id}
<1>1. DOMAIN new = near \cup {id} /\ new[n] \in Outcome(links, id, near, nearest, n)
  BY DEF Outcomes
<1>2. CASE n = id
  <2>1. new[n] \in pruneNeighbors(id, links[id] \cup near)
    BY <1>1, <1>2 DEF Outcome
  <2>2. new[n] \subseteq links[id] \cup near
    BY <2>1, ClosestSubset DEF pruneNeighbors
  <2> QED
    BY <1>1, <1>2, <2>2
<1>3. CASE n # id
  <2>1. PICK kept \in pruneNeighbors(n, links[n] \cup {id}) : new[n] = kept \cup (IF n = nearest THEN {id} ELSE {})
    BY <1>1, <1>3 DEF Outcome, LinkBack
  <2>2. kept \subseteq links[n] \cup {id}
    BY <2>1, ClosestSubset DEF pruneNeighbors
  <2>3. new[n] \subseteq links[n] \cup {id}
    BY <2>1, <2>2
  <2> QED
    BY <1>1, <1>3, <2>3
<1> QED
  BY <1>2, <1>3

\* What one layer's linking can do to the links of one node.
LEMMA LinkedBounds ==
    ASSUME NEW links, NEW id, NEW near, NEW nearest, NEW new \in Outcomes(links, id, near, nearest), NEW n \in Ids
    PROVE  Linked(links, new)[n] \subseteq
             IF n = id THEN links[id] \cup near
             ELSE IF n \in near THEN links[n] \cup {id} ELSE links[n]
<1>1. DOMAIN new = near \cup {id}
  BY DEF Outcomes
<1>2. Linked(links, new)[n] = IF n \in DOMAIN new THEN new[n] ELSE links[n]
  BY DEF Linked
<1>3. n \in DOMAIN new => new[n] \subseteq IF n = id THEN links[id] \cup near ELSE links[n] \cup {id}
  BY OutcomeBounds
<1> QED
  BY <1>1, <1>2, <1>3

\* One layer's linking yields one set of ids for each id.
LEMMA LinkedType ==
    ASSUME NEW links \in [Ids -> SUBSET Ids], NEW id \in Ids,
           NEW near \in SUBSET Ids, NEW nearest, NEW new \in Outcomes(links, id, near, nearest)
    PROVE  Linked(links, new) \in [Ids -> SUBSET Ids]
<1> DEFINE L == Linked(links, new)
<1>1. L = [n \in Ids |-> L[n]]
  BY DEF Linked
<1>2. \A n \in Ids : L[n] \subseteq Ids
  BY LinkedBounds
<1> QED
  BY <1>1, <1>2

\* What a step that links a layer does to it.
LEMMA LinkFacts ==
    ASSUME Link
    PROVE  \E neighbors \in Closest(M, op.id, Visited), nearest \in Visited :
             /\ IsNearest(nearest, op.id, Visited) /\ nearest \in neighbors /\ neighbors \subseteq Visited
             /\ \E new \in Outcomes(graph[op.layer], op.id, neighbors \ {op.id}, nearest) :
                   graph' = [graph EXCEPT ![op.layer] = Linked(@, new)]
             /\ op' = IF op.layer = 0 THEN Idle ELSE At(op.kind, op.id, op.lvl, op.layer - 1, nearest)
BY ClosestSubset DEF Link

\* An operation that stands on a stored node looks at ids only.
LEMMA VisitedIds ==
    ASSUME IndexInv, op # Idle
    PROVE  Visited \subseteq Ids
<1>1. op.curr \in Ids /\ op.layer \in Layers
  BY DEF IndexInv, TypeOK, OpSound
<1> QED
  BY <1>1 DEF Visited, Reach

-----------------------------------------------------------------------------
\* The shape of a record that describes an operation.
Ops == [kind : {"idle", "insert", "search"}, id : Ids \cup {NoId},
        lvl : Layers, layer : Layers, curr : Ids \cup {NoId}, open : SUBSET Ids, seen : SUBSET Ids]

\* The idle operation has the type of an operation.
LEMMA IdleType == Idle \in Ops
<1>1. 0 \in Layers
  BY SizeAssumption DEF Layers
<1> QED
  BY <1>1 DEF Idle, At, Ops

\* An operation that starts on a layer, or goes down to one.
LEMMA AtType ==
    ASSUME NEW kind \in {"insert", "search"}, NEW id \in Ids, NEW lvl \in Layers, NEW layer \in Layers, NEW curr \in Ids
    PROVE  /\ At(kind, id, lvl, layer, curr) \in Ops
           /\ LET o == At(kind, id, lvl, layer, curr) IN
                /\ o.kind = kind /\ o.id = id /\ o.lvl = lvl /\ o.layer = layer /\ o.curr = curr
                /\ o.open = {curr} /\ o.seen = {curr}
BY DEF At, Ops

\* The empty index satisfies the inductive invariant.
LEMMA InitIndexInv == Init => IndexInv
<1> SUFFICES ASSUME Init PROVE IndexInv
  OBVIOUS
<1>1. op \in Ops
  BY IdleType DEF Init
<1>2. 0 \in Layers /\ maxLevel \in -1 .. MaxLayer
  BY SizeAssumption DEF Init, Layers
<1>3. TypeOK
  BY <1>1, <1>2 DEF Init, TypeOK, Ops
<1>4. EntryPointValid /\ OpSound
  BY DEF Init, EntryPointValid, OpSound
<1> QED
  BY <1>3, <1>4 DEF IndexInv

\* Storing the new node, with or without an entry point to start from.
LEMMA InsertBeginIndexInv ==
    ASSUME IndexInv, NEW id \in Ids, NEW lvl \in Layers, InsertBegin(id, lvl)
    PROVE  IndexInv'
<1> USE DEF IndexInv
<1>1. TypeOK'
  <2>1. maxLevel' \in -1 .. MaxLayer /\ entryPoint' \in Ids \cup {NoId}
    BY SizeAssumption DEF InsertBegin, TypeOK, Layers
  <2>2. op' \in Ops
    <3>1. op \in Ops
      BY DEF TypeOK, Ops
    <3>2. ASSUME entryPoint # NoId
          PROVE  op' \in Ops
      <4>1. entryPoint \in Ids /\ (IF maxLevel > lvl THEN maxLevel ELSE lvl) \in Layers
        BY <3>2, SizeAssumption DEF TypeOK, Layers
      <4>2. op' = At("insert", id, lvl, IF maxLevel > lvl THEN maxLevel ELSE lvl, entryPoint)
        BY <3>2 DEF InsertBegin
      <4> QED
        BY <4>1, <4>2, AtType
    <3> QED
      BY <3>1, <3>2 DEF InsertBegin
  <2> QED
    BY <2>1, <2>2 DEF InsertBegin, TypeOK, Ops
<1>2. EntryPointValid'
  BY SentinelAssumption DEF InsertBegin, TypeOK, EntryPointValid
<1>3. OpSound'
  <2>1. CASE entryPoint = NoId
    BY <2>1 DEF InsertBegin, OpSound
  <2>2. CASE entryPoint # NoId
    <3>1. op' = At("insert", id, lvl, IF maxLevel > lvl THEN maxLevel ELSE lvl, entryPoint) /\ entryPoint' = entryPoint
      BY <2>2 DEF InsertBegin
    <3>2. /\ op'.kind = "insert" /\ op'.id = id /\ op'.lvl = lvl /\ op'.curr = entryPoint
          /\ op'.open = {entryPoint} /\ op'.seen = {entryPoint}
      BY <3>1 DEF At
    <3>3. entryPoint \in nodes /\ nodes' = nodes \cup {id} /\ level'[id] = lvl /\ nodes \subseteq Ids
      BY <2>2 DEF InsertBegin, TypeOK, EntryPointValid
    <3> QED
      BY <2>2, <3>1, <3>2, <3>3 DEF OpSound
  <2> QED
    BY <2>1, <2>2
<1> QED
  BY <1>1, <1>2, <1>3

\* Linking one layer: the walk resumes from a node that is stored.
LEMMA LinkIndexInv ==
    ASSUME IndexInv, Link
    PROVE  IndexInv'
<1> USE DEF IndexInv
<1>1. op # Idle /\ op.id \in nodes /\ level[op.id] = op.lvl /\ op.layer \in Layers /\ op.lvl \in Layers
  BY DEF Link, Idle, At, OpSound, TypeOK
<1>2. PICK neighbors \in Closest(M, op.id, Visited), nearest \in Visited :
        /\ neighbors \subseteq Visited
        /\ \E new \in Outcomes(graph[op.layer], op.id, neighbors \ {op.id}, nearest) :
              graph' = [graph EXCEPT ![op.layer] = Linked(@, new)]
        /\ op' = IF op.layer = 0 THEN Idle ELSE At(op.kind, op.id, op.lvl, op.layer - 1, nearest)
  BY LinkFacts
<1>3. nearest \in nodes /\ nearest \in Ids
  BY DEF Link, TypeOK
<1>4. graph' \in [Layers -> [Ids -> SUBSET Ids]]
  <2>1. op.id \in Ids /\ neighbors \ {op.id} \in SUBSET Ids
    BY <1>1, <1>2, VisitedIds DEF OpSound
  <2>2. graph[op.layer] \in [Ids -> SUBSET Ids]
    BY <1>1 DEF TypeOK
  <2>3. PICK new \in Outcomes(graph[op.layer], op.id, neighbors \ {op.id}, nearest) :
              graph' = [graph EXCEPT ![op.layer] = Linked(@, new)]
    BY <1>2
  <2>4. Linked(graph[op.layer], new) \in [Ids -> SUBSET Ids]
    BY <2>1, <2>2, LinkedType
  <2> QED
    BY <1>1, <2>3, <2>4 DEF TypeOK
<1>9. op.layer # 0 => op.layer - 1 \in Layers /\ op.kind = "insert" /\ op.id \in Ids
  BY <1>1, SizeAssumption DEF Layers, Link, OpSound
<1>5. op' \in Ops
  BY <1>1, <1>2, <1>3, <1>9, IdleType, AtType
<1>6. TypeOK'
  BY <1>1, <1>4, <1>5, SizeAssumption DEF Link, TypeOK, Layers, Ops
<1>7. EntryPointValid'
  BY <1>1, SentinelAssumption DEF Link, TypeOK, EntryPointValid, OpSound
<1>8. OpSound'
  <2>1. entryPoint' # NoId
    BY <1>1, SentinelAssumption DEF Link, OpSound, TypeOK
  <2>2. CASE op.layer = 0
    BY <1>2, <2>2 DEF OpSound
  <2>3. CASE op.layer # 0
    <3>1. /\ op'.kind = "insert" /\ op'.id = op.id /\ op'.lvl = op.lvl /\ op'.curr = nearest
          /\ op'.open = {nearest} /\ op'.seen = {nearest}
      BY <1>1, <1>2, <1>3, <1>9, <2>3, AtType
    <3> QED
      BY <1>1, <1>3, <2>1, <3>1 DEF OpSound, Link, TypeOK
  <2> QED
    BY <2>2, <2>3
<1> QED
  BY <1>6, <1>7, <1>8

\* What a walk does as it expands a node: it sees more, and settles that node.
LEMMA ExpandFacts ==
    ASSUME IndexInv, NEW c \in op.open, Expand(c)
    PROVE  /\ op' \in Ops /\ op'.kind = op.kind /\ op'.id = op.id /\ op'.lvl = op.lvl /\ op'.layer = op.layer
           /\ op'.curr \in Unvisited(c) \cup {op.curr} /\ Unvisited(c) \subseteq nodes
           /\ op'.seen = op.seen \cup Unvisited(c)
           /\ op'.open \subseteq (op.open \ {c}) \cup Unvisited(c)
<1>1. PICK best \in Unvisited(c) \cup {op.curr} :
        op' = [op EXCEPT !.curr = best,
                         !.seen = @ \cup Unvisited(c),
                         !.open = {n \in (@ \ {c}) \cup Unvisited(c) : Dist[op.id][n] = Dist[op.id][best]}]
  BY DEF Expand
<1>2. op \in Ops /\ Unvisited(c) \subseteq nodes /\ nodes \subseteq Ids /\ op # Idle
  BY DEF Expand, IndexInv, TypeOK, Ops
<1>3. best \in Ids
  BY <1>2 DEF IndexInv, OpSound
<1>4. op.seen \cup Unvisited(c) \in SUBSET Ids
  BY <1>2 DEF Ops
<1>5. {n \in (op.open \ {c}) \cup Unvisited(c) : Dist[op.id][n] = Dist[op.id][best]} \in SUBSET Ids
  BY <1>2 DEF Ops
<1> HIDE DEF Unvisited
<1> QED
  BY <1>1, <1>2, <1>3, <1>4, <1>5 DEF Ops

\* A node is expanded.
LEMMA ExpandIndexInv ==
    ASSUME IndexInv, NEW c \in op.open, Expand(c)
    PROVE  IndexInv'
<1>1. UNCHANGED <<nodes, level, graph, entryPoint, maxLevel, hits, panicked>> /\ op # Idle
  BY DEF Expand, core
<1>2. TypeOK'
  BY <1>1, ExpandFacts DEF IndexInv, TypeOK, Ops
<1>3. EntryPointValid'
  BY <1>1 DEF IndexInv, EntryPointValid
<1>4. OpSound'
  BY <1>1, ExpandFacts DEF IndexInv, OpSound, TypeOK
<1> QED
  BY <1>2, <1>3, <1>4 DEF IndexInv

\* One layer down.
LEMMA DescendIndexInv ==
    ASSUME IndexInv, Descend
    PROVE  IndexInv'
<1> USE DEF IndexInv
<1>1. op # Idle /\ op.layer \in Layers /\ op.lvl \in Layers /\ op.layer > op.lvl
  BY DEF Descend, Descending, TypeOK
<1>2. op' = At(op.kind, op.id, op.lvl, op.layer - 1, op.curr)
  BY DEF Descend
<1>3. op.layer - 1 \in Layers /\ op.kind \in {"insert", "search"} /\ op.id \in Ids /\ op.curr \in Ids /\ op.curr \in nodes
  BY <1>1, SizeAssumption DEF Layers, OpSound, TypeOK
<1>4. /\ op' \in Ops /\ op'.kind = op.kind /\ op'.id = op.id /\ op'.lvl = op.lvl /\ op'.curr = op.curr
      /\ op'.open = {op.curr} /\ op'.seen = {op.curr}
  BY <1>1, <1>2, <1>3, AtType
<1>6. UNCHANGED <<nodes, level, graph, entryPoint, maxLevel, hits, panicked>>
  BY DEF Descend, core
<1>7. TypeOK'
  BY <1>4, <1>6 DEF TypeOK, Ops
<1>8. EntryPointValid'
  BY <1>6 DEF EntryPointValid
<1>9. OpSound'
  BY <1>1, <1>3, <1>4, <1>6 DEF OpSound
<1> QED
  BY <1>7, <1>8, <1>9

\* Delete elects a stored node and its level, or none.
LEMMA DeleteIndexInv ==
    ASSUME IndexInv, NEW id \in Ids, Delete(id)
    PROVE  IndexInv'
<1> USE DEF IndexInv
<1>1. graph' \in [Layers -> [Ids -> SUBSET Ids]]
  BY DEF Delete, Unlinked, ReplaceEntry, TypeOK
<1>2. maxLevel' \in -1 .. MaxLayer /\ entryPoint' \in Ids \cup {NoId}
  BY SizeAssumption DEF Delete, Unlinked, ReplaceEntry, TypeOK, Layers
<1>3. TypeOK'
  BY <1>1, <1>2, SizeAssumption DEF Delete, Unlinked, ReplaceEntry, TypeOK, Layers
<1>4. EntryPointValid'
  BY SentinelAssumption DEF Delete, Unlinked, ReplaceEntry, TypeOK, EntryPointValid
<1>5. OpSound'
  BY DEF Delete, Unlinked, ReplaceEntry, OpSound, Idle, At
<1> QED
  BY <1>3, <1>4, <1>5

\* The steps that leave nodes, links and entry point alone.
LEMMA ReadIndexInv ==
    ASSUME IndexInv,
           Panic \/ SearchEnd \/ Load \/ (\E q \in Ids : SearchBegin(q)) \/ UNCHANGED vars
    PROVE  IndexInv'
<1> USE DEF IndexInv
<1>1. CASE Panic
  BY <1>1, IdleType DEF Panic, core, TypeOK, EntryPointValid, OpSound, Ops
<1>2. CASE SearchEnd
  <2>1. hits' \subseteq Ids
    <3>1. op # Idle
      BY <1>2 DEF SearchEnd, Idle, At
    <3> QED
      BY <1>2, <3>1, VisitedIds, ClosestSubset DEF SearchEnd
  <2> QED
    BY <1>2, <2>1, IdleType DEF SearchEnd, core, TypeOK, EntryPointValid, OpSound, Ops
<1>3. CASE Load
  <2>1. graph' \in [Layers -> [Ids -> SUBSET Ids]]
    BY <1>3 DEF Load, symmetrize, TypeOK
  <2> QED
    BY <1>3, <2>1 DEF Load, TypeOK, EntryPointValid, OpSound
<1>4. ASSUME NEW q \in Ids, SearchBegin(q)
      PROVE  IndexInv'
  <2>1. maxLevel \in Layers /\ entryPoint \in nodes
    BY <1>4, SizeAssumption DEF SearchBegin, EntryPointValid, TypeOK, Layers
  <2>2. op' \in Ops
    <3>1. 0 \in Layers /\ maxLevel \in Layers /\ entryPoint \in Ids
      BY <2>1, SizeAssumption DEF Layers, TypeOK
    <3> QED
      BY <1>4, <3>1, AtType DEF SearchBegin, core
  <2>3. TypeOK'
    BY <1>4, <2>2 DEF SearchBegin, core, TypeOK, Ops
  <2>4. EntryPointValid' /\ OpSound'
    BY <1>4, <2>1 DEF SearchBegin, core, At, EntryPointValid, OpSound, TypeOK
  <2> QED
    BY <2>3, <2>4
<1>5. CASE UNCHANGED vars
  BY <1>5 DEF vars, core, TypeOK, EntryPointValid, OpSound, Visited, Descending
<1> QED
  BY <1>1, <1>2, <1>3, <1>4, <1>5

\* Every step preserves the inductive invariant.
LEMMA NextIndexInv == IndexInv /\ [Next]_vars => IndexInv'
BY InsertBeginIndexInv, LinkIndexInv, ExpandIndexInv, DescendIndexInv, DeleteIndexInv, ReadIndexInv
   DEF Next, InsertOrSearch, Step

\* The inductive invariant holds in every reachable state.
LEMMA SpecIndexInv == Spec => []IndexInv
BY InitIndexInv, NextIndexInv, PTL DEF Spec

\* Every variable of the index keeps its type, whatever its size and layers.
THEOREM TypeCorrect == Spec => []TypeOK
<1>1. IndexInv => TypeOK
  BY DEF IndexInv
<1> QED
  BY <1>1, SpecIndexInv, PTL

\* The entry point is a stored node at maxLevel in every reachable state: the
\* first dereference of a search or an insert never fails.
THEOREM EntryPointCorrect == Spec => []EntryPointValid
<1>1. IndexInv => EntryPointValid
  BY DEF IndexInv
<1> QED
  BY <1>1, SpecIndexInv, PTL

\* Every step of an operation ends it, goes a layer down or settles one more node
\* for good, however many vectors are at one distance (hnsw.go:278-315).
THEOREM OperationsAdvance == Spec => OperationAdvances
<1> DEFINE Advances ==
      op # Idle =>
         \/ op' = Idle
         \/ /\ <<op'.kind, op'.id, op'.lvl>> = <<op.kind, op.id, op.lvl>>
            /\ \/ op'.layer < op.layer
               \/ op'.layer = op.layer /\ Settled(op) \subseteq Settled(op') /\ Settled(op) # Settled(op')
<1>1. ASSUME IndexInv, [Next]_vars
      PROVE  [Advances]_vars
  <2> SUFFICES ASSUME Next, op # Idle
               PROVE  Advances
    BY <1>1
  <2>1. op.layer \in Int /\ op.open \subseteq op.seen
    BY <1>1 DEF IndexInv, TypeOK, OpSound, Layers
  <2>2. CASE Link \/ Descend
    <3>1. CASE op' = Idle
      BY <3>1
    <3>2. CASE op' # Idle
      <4>1. PICK curr : op' = At(op.kind, op.id, op.lvl, op.layer - 1, curr)
        BY <2>2, <3>2 DEF Link, Descend
      <4>2. <<op'.kind, op'.id, op'.lvl>> = <<op.kind, op.id, op.lvl>> /\ op'.layer < op.layer
        BY <2>1, <4>1 DEF At
      <4> QED
        BY <4>2
    <3> QED
      BY <3>1, <3>2
  <2>3. ASSUME NEW c \in op.open, Expand(c)
        PROVE  Advances
    <3>1. /\ <<op'.kind, op'.id, op'.lvl>> = <<op.kind, op.id, op.lvl>> /\ op'.layer = op.layer
          /\ op'.seen = op.seen \cup Unvisited(c) /\ op'.open \subseteq (op.open \ {c}) \cup Unvisited(c)
      BY <1>1, <2>3, ExpandFacts
    <3>2. Unvisited(c) \cap op.seen = {} /\ c \in op.seen
      BY <2>1 DEF Unvisited
    <3>3. Settled(op) \subseteq Settled(op')
      BY <3>1, <3>2 DEF Settled
    <3>4. c \in Settled(op') /\ c \notin Settled(op)
      BY <3>1, <3>2 DEF Settled
    <3> QED
      BY <3>1, <3>3, <3>4
  <2>4. CASE Panic \/ SearchEnd
    BY <2>4 DEF Panic, SearchEnd
  <2>5. ASSUME NEW id \in Ids, Delete(id)
        PROVE  Advances
    BY <2>5 DEF Delete
  <2>6. ASSUME NEW id \in Ids, NEW lvl \in Layers, InsertBegin(id, lvl)
        PROVE  Advances
    BY <2>6 DEF InsertBegin
  <2>7. ASSUME NEW q \in Ids, SearchBegin(q)
        PROVE  Advances
    BY <2>7 DEF SearchBegin
  <2>8. CASE Load
    BY <2>8 DEF Load
  <2> QED
    BY <2>2, <2>3, <2>4, <2>5, <2>6, <2>7, <2>8 DEF Next, InsertOrSearch, Step
<1> QED
  BY <1>1, SpecIndexInv, PTL DEF Spec, OperationAdvances
-----------------------------------------------------------------------------
(* Deleted ids in the graph.                                               *)

\* Linking joins the new node and nodes found in the layer, all of them stored,
\* and every other link was there before.
LEMMA LinkAddsStoredLinks ==
    ASSUME IndexInv, Link, NEW l \in Layers, NEW a \in Ids, NEW b \in Ids,
           b \in graph'[l][a], b \notin graph[l][a]
    PROVE  a \in nodes /\ b \in nodes
<1>1. op.id \in nodes /\ op.layer \in Layers /\ op.id \in Ids
  BY DEF Link, Idle, At, OpSound, TypeOK, IndexInv
<1>2. PICK neighbors \in Closest(M, op.id, Visited), nearest \in Visited :
        /\ neighbors \subseteq Visited
        /\ \E new \in Outcomes(graph[op.layer], op.id, neighbors \ {op.id}, nearest) :
              graph' = [graph EXCEPT ![op.layer] = Linked(@, new)]
  BY LinkFacts
<1> DEFINE near == neighbors \ {op.id}
<1>6. PICK new \in Outcomes(graph[op.layer], op.id, near, nearest) : graph' = [graph EXCEPT ![op.layer] = Linked(@, new)]
  BY <1>2
<1>3. l = op.layer /\ b \in Linked(graph[l], new)[a]
  BY <1>1, <1>6 DEF TypeOK, IndexInv
<1>4. Linked(graph[l], new)[a] \subseteq
        IF a = op.id THEN graph[l][op.id] \cup near
        ELSE IF a \in near THEN graph[l][a] \cup {op.id} ELSE graph[l][a]
  BY <1>3, LinkedBounds
<1>7. near \subseteq Visited
  BY <1>2
<1> HIDE DEF near
<1>5. Visited \subseteq nodes
  BY DEF Link
<1> QED
  BY <1>1, <1>3, <1>4, <1>5, <1>7

\* The empty graph has no link at all.
LEMMA InitDangling == Init => DanglingOnlyAboveLevel
BY DEF Init, DanglingOnlyAboveLevel

\* Deleting a node at its own level takes its links from every layer up to that
\* level, and no other step adds a link to or from an id that is not stored.
LEMMA NextDangling ==
    IndexInv /\ DanglingOnlyAboveLevel /\ [Next]_vars => DanglingOnlyAboveLevel'
<1> SUFFICES ASSUME IndexInv, DanglingOnlyAboveLevel, [Next]_vars,
                    NEW l \in Layers, NEW a \in Ids, NEW b \in Ids,
                    b \in graph'[l][a],
                    NEW n \in {a, b}, n \notin nodes'
             PROVE  l > level'[n]
  BY DEF DanglingOnlyAboveLevel
<1>1. ASSUME NEW id \in Ids, NEW lvl \in Layers, InsertBegin(id, lvl)
      PROVE  l > level'[n]
  BY <1>1 DEF InsertBegin, DanglingOnlyAboveLevel, TypeOK, IndexInv
<1>2. CASE Link
  <2>1. UNCHANGED <<nodes, level>>
    BY <1>2 DEF Link
  <2>2. b \in graph[l][a]
    BY <1>2, <2>1, LinkAddsStoredLinks
  <2> QED
    BY <2>1, <2>2 DEF DanglingOnlyAboveLevel
<1>3. ASSUME NEW id \in Ids, Delete(id)
      PROVE  l > level'[n]
  <2>1. level' = level /\ nodes' = nodes \ {id}
    BY <1>3 DEF Delete
  <2>2. CASE l > level[id]
    <3>1. graph'[l] = graph[l]
      BY <1>3, <2>2 DEF Delete, Unlinked
    <3> QED
      BY <2>1, <2>2, <3>1 DEF DanglingOnlyAboveLevel
  <2>3. CASE ~(l > level[id])
    <3>1. graph'[l] = [m \in Ids |-> IF m = id THEN {} ELSE graph[l][m] \ {id}]
      BY <1>3, <2>3 DEF Delete, Unlinked
    <3>2. a # id /\ b # id /\ b \in graph[l][a]
      BY <3>1
    <3> QED
      BY <2>1, <3>2 DEF DanglingOnlyAboveLevel
  <2> QED
    BY <2>2, <2>3
<1>4. CASE Load
  <2>1. UNCHANGED <<nodes, level>>
    BY <1>4 DEF Load
  <2>2. b \in graph[l][a] \/ a \in graph[l][b]
    BY <1>4 DEF Load, symmetrize
  <2> QED
    BY <2>1, <2>2 DEF DanglingOnlyAboveLevel
<1>5. CASE (\E c \in op.open : Expand(c)) \/ Descend \/ Panic \/ SearchEnd \/ (\E q \in Ids : SearchBegin(q)) \/ UNCHANGED vars
  <2>1. UNCHANGED <<nodes, level, graph>>
    BY <1>5 DEF Expand, Descend, Panic, SearchEnd, SearchBegin, vars, core
  <2> QED
    BY <2>1 DEF DanglingOnlyAboveLevel
<1> QED
  BY <1>1, <1>2, <1>3, <1>4, <1>5 DEF Next, InsertOrSearch, Step

\* Whatever is inserted, deleted, searched and reloaded, links of deleted ids
\* survive only above the level those ids had.
THEOREM DanglingConfined == Spec => []DanglingOnlyAboveLevel
BY InitDangling, NextDangling, SpecIndexInv, PTL DEF Spec

\* The wide scan of layer 0, with which every search and every insert ends,
\* never meets a deleted id: only a walk through the upper layers can panic.
LayerZeroIsSafe == op # Idle /\ ~Descending /\ op.layer = 0 => Visited \subseteq nodes

\* No scan of layer 0 dereferences a deleted id.
THEOREM LayerZeroNeverPanics == Spec => []LayerZeroIsSafe
<1>1. IndexInv /\ DanglingOnlyAboveLevel => LayerZeroIsSafe
  <2> SUFFICES ASSUME IndexInv, DanglingOnlyAboveLevel,
                      op # Idle, ~Descending, op.layer = 0
               PROVE  Visited \subseteq nodes
    BY DEF LayerZeroIsSafe
  <2>1. 0 \in Layers /\ nodes \subseteq Ids /\ op.curr \in nodes
    BY SizeAssumption DEF IndexInv, TypeOK, OpSound, Layers
  <2>2. \A m \in Ids : level[m] \in Layers /\ ~(0 > level[m])
    BY SizeAssumption DEF IndexInv, TypeOK, Layers
  <2>3. \A m \in nodes : graph[0][m] \subseteq nodes
    BY <2>1, <2>2 DEF DanglingOnlyAboveLevel, IndexInv, TypeOK
  <2>4. Reach(graph[0], op.curr) \subseteq nodes
    BY <2>1, <2>3 DEF Reach
  <2> QED
    BY <2>4 DEF Visited
<1> QED
  BY <1>1, SpecIndexInv, DanglingConfined, PTL

-----------------------------------------------------------------------------
(* An index from which nothing is deleted.                                 *)

LEMMA GrowIndexInv == GrowSpec => []IndexInv
<1>1. IndexInv /\ [InsertOrSearch \/ Load]_vars => IndexInv'
  BY NextIndexInv DEF Next
<1> QED
  BY <1>1, InitIndexInv, PTL DEF GrowSpec

\* Without deletes no operation meets a nil node, whatever the layers, the
\* reloads and the pruning.
THEOREM GrowLinksJoinStoredNodes == GrowSpec => []LinksJoinStoredNodes
<1>1. Init => LinksJoinStoredNodes
  BY DEF Init, LinksJoinStoredNodes
<1>2. IndexInv /\ LinksJoinStoredNodes /\ [InsertOrSearch \/ Load]_vars
        => LinksJoinStoredNodes'
  <2> SUFFICES ASSUME IndexInv, LinksJoinStoredNodes, [InsertOrSearch \/ Load]_vars,
                      NEW l \in Layers, NEW a \in Ids, NEW b \in graph'[l][a]
               PROVE  a \in nodes' /\ b \in nodes'
    BY DEF LinksJoinStoredNodes
  <2>1. nodes \subseteq nodes' /\ nodes \subseteq Ids
    BY DEF InsertOrSearch, Step, InsertBegin, Link, Expand, Descend, Panic, SearchBegin,
           SearchEnd, Load, vars, core, IndexInv, TypeOK
  <2>2. CASE b \in graph[l][a]
    BY <2>1, <2>2 DEF LinksJoinStoredNodes
  <2>3. CASE b \notin graph[l][a]
    <3>1. CASE Link
      <4>1. b \in Ids
        BY <3>1, LinkIndexInv DEF IndexInv, TypeOK
      <4> QED
        BY <2>1, <2>3, <3>1, <4>1, LinkAddsStoredLinks
    <3>2. CASE Load
      <4>1. b \in Ids /\ a \in graph[l][b]
        BY <2>3, <3>2 DEF Load, symmetrize
      <4> QED
        BY <2>1, <4>1 DEF LinksJoinStoredNodes
    <3>3. CASE ~Link /\ ~Load
      <4>1. UNCHANGED graph
        BY <3>3 DEF InsertOrSearch, Step, InsertBegin, Expand, Descend, Panic, SearchBegin,
                    SearchEnd, vars, core
      <4> QED
        BY <2>3, <4>1
    <3> QED
      BY <3>1, <3>2, <3>3
  <2> QED
    BY <2>2, <2>3
<1> QED
  BY <1>1, <1>2, GrowIndexInv, PTL DEF GrowSpec

-----------------------------------------------------------------------------
(* The closest of a set.                                                   *)

\* A cut of a finite set at k leaves at most k.
LEMMA ClosestBound ==
    ASSUME NEW q, NEW S, IsFiniteSet(S), NEW k \in Nat, NEW T \in Closest(k, q, S)
    PROVE  IsFiniteSet(T) /\ Cardinality(T) <= k /\ Cardinality(T) \in Nat
<1>1. T \subseteq S /\ (IF Cardinality(S) <= k THEN T = S ELSE Cardinality(T) = k)
  BY DEF Closest
<1>2. IsFiniteSet(T) /\ Cardinality(T) \in Nat
  BY <1>1, FS_Subset, FS_CardinalityType
<1> QED
  BY <1>1, <1>2

\* A set of at most k is left whole.
LEMMA ClosestWhole ==
    ASSUME NEW q, NEW S, NEW k, Cardinality(S) <= k, NEW T \in Closest(k, q, S)
    PROVE  T = S
BY DEF Closest

-----------------------------------------------------------------------------
(* How many links a node has.                                              *)

\* The ids that have a link, or are linked to, in layer l.
Touched(l) == {n \in Ids : graph[l][n] # {} \/ \E m \in Ids : n \in graph[l][m]}

\* The index is finite, and so are its links, those of deleted ids included.
FiniteIndex == IsFiniteSet(nodes) /\ \A l \in Layers : IsFiniteSet(Touched(l))

LEMMA NextFinite == IndexInv /\ FiniteIndex /\ [Next]_vars => FiniteIndex'
<1> SUFFICES ASSUME IndexInv, FiniteIndex, [Next]_vars
             PROVE  FiniteIndex'
  OBVIOUS
<1>1. IsFiniteSet(nodes')
  <2>1. ASSUME NEW id \in Ids PROVE IsFiniteSet(nodes \cup {id}) /\ IsFiniteSet(nodes \ {id})
    BY FS_AddElement, FS_RemoveElement DEF FiniteIndex
  <2> QED
    BY <2>1 DEF FiniteIndex, Next, InsertOrSearch, Step, InsertBegin, Link, Expand, Descend, Panic,
               SearchBegin, SearchEnd, Delete, Load, vars, core
<1>2. ASSUME NEW l \in Layers PROVE IsFiniteSet(Touched(l)')
  <2>1. Touched(l)' \subseteq Touched(l) \cup nodes
    <3> SUFFICES ASSUME NEW a \in Ids, NEW b \in Ids, b \in graph'[l][a]
                 PROVE  {a, b} \subseteq Touched(l) \cup nodes
      <4>1. graph' \in [Layers -> [Ids -> SUBSET Ids]]
        BY NextIndexInv DEF IndexInv, TypeOK
      <4> QED
        BY <4>1 DEF Touched
    <3>1. CASE b \in graph[l][a]
      BY <3>1 DEF Touched
    <3>2. CASE b \notin graph[l][a]
      <4>1. CASE Link
        BY <3>2, <4>1, LinkAddsStoredLinks
      <4>2. CASE Load
        <5>1. a \in graph[l][b]
          BY <3>2, <4>2 DEF Load, symmetrize
        <5> QED
          BY <5>1 DEF Touched
      <4>3. ASSUME NEW id \in Ids, Delete(id)
            PROVE  FALSE
        BY <3>2, <4>3 DEF Delete, Unlinked
      <4>4. CASE UNCHANGED graph
        BY <3>2, <4>4
      <4> QED
        BY <4>1, <4>2, <4>3, <4>4 DEF Next, InsertOrSearch, Step, InsertBegin, Expand, Descend, Panic,
                   SearchBegin, SearchEnd, vars, core
    <3> QED
      BY <3>1, <3>2
  <2>2. IsFiniteSet(Touched(l) \cup nodes)
    BY FS_Union DEF FiniteIndex
  <2> QED
    BY <2>1, <2>2, FS_Subset
<1> QED
  BY <1>1, <1>2 DEF FiniteIndex

LEMMA InitFinite == Init => FiniteIndex
<1> SUFFICES ASSUME Init PROVE FiniteIndex
  OBVIOUS
<1>1. \A l \in Layers : Touched(l) = {}
  BY DEF Init, Touched
<1> QED
  BY <1>1, FS_EmptySet DEF Init, FiniteIndex

LEMMA SpecFinite == Spec => []FiniteIndex
BY InitFinite, NextFinite, SpecIndexInv, PTL DEF Spec

\* Every node has finitely many links.
LEMMA DegreeIsNat ==
    ASSUME IndexInv, FiniteIndex, NEW l \in Layers, NEW n \in Ids
    PROVE  IsFiniteSet(graph[l][n]) /\ Cardinality(graph[l][n]) \in Nat
<1>1. graph[l][n] \subseteq Touched(l)
  BY DEF IndexInv, TypeOK, Touched
<1> QED
  BY <1>1, FS_Subset, FS_CardinalityType DEF FiniteIndex

\* Only the nearest neighbour of a new node leaves a layer's linking with more
\* links than Mmax and than before, and then with Mmax + 1 (hnsw.go:122-132).
THEOREM DegreesBounded == Spec => DegreeGrowsOnlyOnLoad
<1> DEFINE Bounded ==
                      op # Idle => \A l \in Layers :
                        /\ Cardinality(Grown(l)) <= 1
                        /\ \A n \in Grown(l) : Cardinality(graph'[l][n]) = Mmax + 1
<1>1. ASSUME IndexInv, FiniteIndex, Next
      PROVE  Bounded
  <2> SUFFICES ASSUME op # Idle, NEW l \in Layers
               PROVE  Cardinality(Grown(l)) <= 1 /\ \A n \in Grown(l) : Cardinality(graph'[l][n]) = Mmax + 1
    OBVIOUS
  <2>1. \A n \in Ids : Cardinality(graph[l][n]) \in Nat
    BY <1>1, DegreeIsNat
  <2>2. ASSUME NEW n \in Ids, graph'[l][n] = graph[l][n]
        PROVE  n \notin Grown(l)
    BY <2>1, <2>2 DEF Grown
  <2>3. CASE UNCHANGED graph
    <3>1. Grown(l) = {}
      BY <2>2, <2>3 DEF Grown
    <3> QED
      BY <3>1, FS_EmptySet
  <2>4. CASE Link
    <3>5. PICK neighbors \in Closest(M, op.id, Visited), nearest \in Visited :
            /\ neighbors \subseteq Visited
            /\ \E new \in Outcomes(graph[op.layer], op.id, neighbors \ {op.id}, nearest) :
                  graph' = [graph EXCEPT ![op.layer] = Linked(@, new)]
      BY <2>4, LinkFacts
    <3> DEFINE near == neighbors \ {op.id}
    <3>1. PICK new \in Outcomes(graph[op.layer], op.id, near, nearest) : graph' = [graph EXCEPT ![op.layer] = Linked(@, new)]
      BY <3>5
    <3>2. op.id \in Ids /\ op.layer \in Layers /\ nearest \in Ids /\ op.id \in nodes
      BY <1>1, <2>4, VisitedIds DEF IndexInv, TypeOK, OpSound, Link
    <3>6. near \subseteq nodes /\ near \subseteq Ids /\ IsFiniteSet(near) /\ op.id \notin near
      <4>1. near \subseteq nodes /\ nodes \subseteq Ids /\ IsFiniteSet(nodes)
        BY <1>1, <2>4, <3>5 DEF Link, IndexInv, TypeOK, FiniteIndex
      <4> QED
        BY <4>1, FS_Subset
    <3> HIDE DEF near
    <3>3. CASE l # op.layer
      <4>1. graph'[l] = graph[l]
        BY <1>1, <3>1, <3>2, <3>3 DEF IndexInv, TypeOK
      <4>2. Grown(l) = {}
        BY <2>2, <4>1 DEF Grown
      <4> QED
        BY <4>2, FS_EmptySet
    <3>4. CASE l = op.layer
      <4>1. \A n \in Ids : graph'[l][n] = IF n \in near \cup {op.id} THEN new[n] ELSE graph[l][n]
        BY <1>1, <3>1, <3>2, <3>4, OutcomeBounds DEF IndexInv, TypeOK, Linked, Outcomes
      <4>2. \A n \in Ids : graph[l][n] \in SUBSET Ids /\ IsFiniteSet(graph[l][n])
        BY <1>1, DegreeIsNat DEF IndexInv, TypeOK
      <4>3. Mmax \in Nat
        BY SizeAssumption
      <4>4. \A n \in near \cup {op.id} : new[n] \in Outcome(graph[l], op.id, near, nearest, n)
        BY <3>1, <3>4 DEF Outcomes
      <4>5. /\ IsFiniteSet(new[op.id]) /\ Cardinality(new[op.id]) \in Nat /\ Cardinality(new[op.id]) <= Mmax
        <5>1. IsFiniteSet(graph[l][op.id] \cup near)
          BY <3>2, <3>6, <4>2, FS_Union
        <5>2. new[op.id] \in Closest(Mmax, op.id, graph[l][op.id] \cup near)
          BY <4>4 DEF Outcome, pruneNeighbors
        <5> QED
          BY <4>3, <5>1, <5>2, ClosestBound
      <4>6. ASSUME NEW n \in near
            PROVE  \E P : /\ new[n] = P \cup (IF n = nearest THEN {op.id} ELSE {})
                          /\ IsFiniteSet(P) /\ Cardinality(P) \in Nat /\ Cardinality(P) <= Mmax
        <5>1. n # op.id /\ n \in Ids
          BY <3>6
        <5>2. PICK P \in Closest(Mmax, n, graph[l][n] \cup {op.id}) : new[n] = P \cup (IF n = nearest THEN {op.id} ELSE {})
          BY <4>4, <5>1 DEF Outcome, LinkBack, pruneNeighbors
        <5>3. IsFiniteSet(graph[l][n] \cup {op.id})
          BY <4>2, <5>1, FS_AddElement
        <5> QED
          BY <4>3, <5>2, <5>3, ClosestBound
      <4>7. ASSUME NEW n \in Grown(l)
            PROVE  n = nearest /\ n \in near /\ Cardinality(graph'[l][n]) = Mmax + 1
        <5>1. n \in Ids /\ Cardinality(graph'[l][n]) > Mmax
          BY DEF Grown
        <5>2. n \in near \cup {op.id} /\ graph'[l][n] = new[n]
          BY <2>2, <4>1, <4>7, <5>1
        <5>3. n # op.id
          BY <4>3, <4>5, <5>1, <5>2
        <5>4. n \in near
          BY <5>2, <5>3
        <5>5. PICK P : /\ new[n] = P \cup (IF n = nearest THEN {op.id} ELSE {})
                       /\ IsFiniteSet(P) /\ Cardinality(P) \in Nat /\ Cardinality(P) <= Mmax
          BY <4>6, <5>4
        <5>6. n = nearest
          <6>1. SUFFICES ASSUME n # nearest PROVE FALSE
            OBVIOUS
          <6>2. graph'[l][n] = P
            BY <5>2, <5>5, <6>1
          <6>3. Cardinality(P) > Mmax
            BY <5>1, <6>2
          <6> QED
            BY <4>3, <5>5, <6>3
        <5>7. Cardinality(P \cup {op.id}) = Cardinality(P) \/ Cardinality(P \cup {op.id}) = Cardinality(P) + 1
          BY <5>5, FS_AddElement
        <5>8. graph'[l][n] = P \cup {op.id}
          BY <5>2, <5>5, <5>6
        <5>9. Cardinality(graph'[l][n]) = Mmax + 1
          BY <4>3, <5>1, <5>5, <5>7, <5>8
        <5> QED
          BY <5>4, <5>6, <5>9
      <4>8. Cardinality(Grown(l)) <= 1
        <5>1. Grown(l) \subseteq {nearest}
          BY <4>7
        <5>2. IsFiniteSet({nearest}) /\ Cardinality({nearest}) = 1
          BY FS_Singleton
        <5>3. Cardinality(Grown(l)) <= Cardinality({nearest})
          BY <5>1, <5>2, FS_Subset
        <5> QED
          BY <5>2, <5>3
      <4> QED
        BY <4>7, <4>8
    <3> QED
      BY <3>3, <3>4
  <2> QED
    BY <1>1, <2>3, <2>4 DEF Next, InsertOrSearch, Step, InsertBegin, Expand, Descend, Panic,
                   SearchBegin, SearchEnd, Delete, Load, core
<1>2. ASSUME IndexInv, FiniteIndex, [Next]_vars
      PROVE  [Bounded]_vars
  BY <1>1, <1>2
<1> QED
  BY <1>2, SpecIndexInv, SpecFinite, PTL DEF Spec, DegreeGrowsOnlyOnLoad

-----------------------------------------------------------------------------
(* Layer 0 and the node being inserted.                                    *)

\* Until its own linking of layer 0, nothing links to the new node there: the
\* links of an earlier node of that id went with it.
NewNodeUnlinked == op.kind = "insert" => \A a \in Ids : op.id \notin graph[0][a]

LEMMA ZeroIsLayer == 0 \in Layers
BY SizeAssumption DEF Layers

LEMMA NextNewNodeUnlinked ==
    IndexInv /\ DanglingOnlyAboveLevel /\ NewNodeUnlinked /\ [Next]_vars => NewNodeUnlinked'
<1> SUFFICES ASSUME IndexInv, DanglingOnlyAboveLevel, NewNodeUnlinked, [Next]_vars,
                    op'.kind = "insert", NEW a \in Ids
             PROVE  op'.id \notin graph'[0][a]
  BY DEF NewNodeUnlinked
<1>1. ASSUME NEW id \in Ids, NEW lvl \in Layers, InsertBegin(id, lvl)
      PROVE  op'.id \notin graph'[0][a]
  <2>1. graph' = graph /\ id \notin nodes /\ level[id] \in Nat
    BY <1>1, SizeAssumption DEF InsertBegin, IndexInv, TypeOK, Layers
  <2>2. entryPoint # NoId
    BY <1>1 DEF InsertBegin, Idle, At
  <2>3. op'.id = id
    BY <1>1, <2>2 DEF InsertBegin, At
  <2>4. ~(0 > level[id])
    BY <2>1
  <2> QED
    BY <2>1, <2>3, <2>4, ZeroIsLayer DEF DanglingOnlyAboveLevel
<1>2. CASE Link
  <2>1. PICK nearest, new :
          /\ graph' = [graph EXCEPT ![op.layer] = Linked(@, new)]
          /\ op' = IF op.layer = 0 THEN Idle ELSE At(op.kind, op.id, op.lvl, op.layer - 1, nearest)
    BY <1>2, LinkFacts
  <2>2. op.layer # 0
    BY <2>1 DEF Idle, At
  <2>3. op'.id = op.id /\ graph'[0] = graph[0]
    BY <2>1, <2>2, ZeroIsLayer DEF IndexInv, TypeOK, At
  <2> QED
    BY <1>2, <2>3 DEF NewNodeUnlinked, Link
<1>3. CASE Descend \/ \E c \in op.open : Expand(c)
  <2>1. op'.id = op.id /\ op'.kind = op.kind /\ graph' = graph
    <3>1. CASE Descend
      BY <3>1 DEF Descend, core, At
    <3>2. CASE \E c \in op.open : Expand(c)
      BY <3>2, ExpandFacts DEF Expand, core
    <3> QED
      BY <1>3, <3>1, <3>2
  <2> QED
    BY <2>1 DEF NewNodeUnlinked
<1>4. CASE UNCHANGED vars
  BY <1>4 DEF NewNodeUnlinked, vars, core
<1>5. ASSUME NEW id \in Ids, Delete(id)
      PROVE  FALSE
  <2>1. op' = op /\ op.kind = "idle"
    BY <1>5 DEF Delete, Idle, At
  <2> QED
    BY <2>1
<1>6. CASE Panic \/ SearchEnd \/ Load \/ (\E q \in Ids : SearchBegin(q))
  <2>1. CASE Panic \/ SearchEnd \/ Load
    <3>1. op' = Idle
      BY <2>1 DEF Panic, SearchEnd, Load
    <3> QED
      BY <3>1 DEF Idle, At
  <2>2. CASE \E q \in Ids : SearchBegin(q)
    BY <2>2 DEF SearchBegin, At
  <2> QED
    BY <1>6, <2>1, <2>2
<1> QED
  BY <1>1, <1>2, <1>3, <1>4, <1>5, <1>6 DEF Next, InsertOrSearch, Step

LEMMA SpecNewNodeUnlinked == Spec => []NewNodeUnlinked
<1>1. Init => NewNodeUnlinked
  BY DEF Init, NewNodeUnlinked, Idle, At
<1> QED
  BY <1>1, NextNewNodeUnlinked, SpecIndexInv, DanglingConfined, PTL DEF Spec

\* What is reached without a link to n is not n.
LEMMA ReachAvoids ==
    ASSUME NEW links, NEW a \in Ids, NEW n \in Ids, a # n,
           \A m \in Ids : links[m] \subseteq Ids \ {n}
    PROVE  n \notin Reach(links, a)
BY Ids \ {n} \in SUBSET Ids DEF Reach

\* A completed insert is linked from a stored node in layer 0 (hnsw.go:117-132),
\* whatever was deleted and left dangling before.
THEOREM InsertsAreLinked == Spec => InsertLeavesInboundLink
<1> DEFINE Linked0 == (op.kind = "insert" /\ op'.kind = "idle" /\ ~panicked' /\ op.curr # op.id)
                        => \E n \in nodes : op.id \in graph'[0][n]
<1>1. ASSUME IndexInv, NewNodeUnlinked, Next
      PROVE  Linked0
  <2> SUFFICES ASSUME op.kind = "insert", op'.kind = "idle", ~panicked', op.curr # op.id
               PROVE  \E n \in nodes : op.id \in graph'[0][n]
    OBVIOUS
  <2>1. Link
    <3>1. ~Descend /\ ~(\E c \in op.open : Expand(c))
      BY <1>1, ExpandFacts DEF Descend, At, IndexInv, TypeOK
    <3> QED
      BY <1>1, <3>1 DEF Next, InsertOrSearch, Step, InsertBegin, SearchBegin, Panic, SearchEnd,
                 Delete, Load, Idle, At
  <2>2. PICK neighbors \in Closest(M, op.id, Visited), nearest \in Visited :
          /\ nearest \in neighbors
          /\ \E new \in Outcomes(graph[op.layer], op.id, neighbors \ {op.id}, nearest) :
                graph' = [graph EXCEPT ![op.layer] = Linked(@, new)]
          /\ op' = IF op.layer = 0 THEN Idle ELSE At(op.kind, op.id, op.lvl, op.layer - 1, nearest)
    BY <2>1, LinkFacts
  <2>3. op.layer = 0
    <3>1. op.layer # 0 => op'.kind = op.kind
      BY <2>2 DEF At
    <3> QED
      BY <3>1
  <2>4. op.id \in Ids /\ op.curr \in Ids /\ Visited \subseteq nodes /\ Visited \subseteq Ids /\ op # Idle
    BY <1>1, <2>1, VisitedIds DEF IndexInv, TypeOK, OpSound, Link, Idle, At
  <2>5. op.id \notin Visited
    <3>1. Visited = Reach(graph[0], op.curr)
      BY <2>1, <2>3 DEF Link, Visited
    <3>2. \A m \in Ids : graph[0][m] \subseteq Ids \ {op.id}
      BY <1>1, ZeroIsLayer DEF NewNodeUnlinked, IndexInv, TypeOK
    <3> QED
      BY <2>4, <3>1, <3>2, ReachAvoids
  <2>6. PICK new \in Outcomes(graph[0], op.id, neighbors \ {op.id}, nearest) : graph' = [graph EXCEPT ![0] = Linked(@, new)]
    BY <2>2, <2>3
  <2>7. nearest \in neighbors \ {op.id} /\ nearest \in Ids /\ nearest \in nodes
    BY <2>2, <2>4, <2>5
  <2>8. graph'[0][nearest] = new[nearest] /\ new[nearest] \in LinkBack(graph[0], nearest, op.id, nearest)
    BY <1>1, <2>6, <2>7, ZeroIsLayer DEF IndexInv, TypeOK, Linked, Outcomes, Outcome
  <2>9. op.id \in graph'[0][nearest]
    BY <2>8 DEF LinkBack
  <2> QED
    BY <2>7, <2>9
<1>2. ASSUME IndexInv, NewNodeUnlinked, [Next]_vars
      PROVE  [Linked0]_vars
  BY <1>1, <1>2
<1> QED
  BY <1>2, SpecIndexInv, SpecNewNodeUnlinked, PTL DEF Spec, InsertLeavesInboundLink

-----------------------------------------------------------------------------
(* Reaching.                                                               *)

LEMMA ReachSelf ==
    ASSUME NEW links, NEW a \in Ids
    PROVE  a \in Reach(links, a)
BY DEF Reach

LEMMA ReachStep ==
    ASSUME NEW links, NEW a, NEW b \in Reach(links, a), NEW c \in Ids, c \in links[b]
    PROVE  c \in Reach(links, a)
BY DEF Reach

LEMMA ReachTransitive ==
    ASSUME NEW links, NEW a, NEW b \in Reach(links, a), NEW c \in Reach(links, b)
    PROVE  c \in Reach(links, a)
BY DEF Reach

\* More links reach at least as much.
LEMMA ReachGrows ==
    ASSUME NEW links, NEW more, \A m \in Ids : links[m] \subseteq more[m], NEW a
    PROVE  Reach(links, a) \subseteq Reach(more, a)
<1> SUFFICES ASSUME NEW m \in Reach(links, a), NEW S \in SUBSET Ids,
                    a \in S, \A b \in S : more[b] \subseteq S
             PROVE  m \in S
  BY DEF Reach
<1>1. \A b \in S : links[b] \subseteq S
  OBVIOUS
<1> QED
  BY <1>1 DEF Reach

\* What is reached from a set that the links do not leave stays in it.
LEMMA ReachWithin ==
    ASSUME NEW links, NEW S \in SUBSET Ids, \A m \in S : links[m] \subseteq S, NEW a \in S
    PROVE  Reach(links, a) \subseteq S
BY DEF Reach

-----------------------------------------------------------------------------
(* A small index from which nothing is deleted.                            *)

GrowNext == InsertOrSearch \/ Load

\* The nodes whose insertion is complete.
Complete == IF op.kind = "insert" THEN nodes \ {op.id} ELSE nodes

Small == Cardinality(nodes) <= Mmax + 1

\* No node links to itself in layer 0; the node being inserted has no links yet
\* in the layers still to be linked; operations stand on complete nodes and have
\* not panicked.
NewNodeIsolated ==
    /\ \A a \in Ids : a \notin graph[0][a]
    /\ op.kind = "insert" =>
         /\ \A l \in Layers : l <= op.layer =>
              graph[l][op.id] = {} /\ \A a \in Ids : op.id \notin graph[l][a]
         /\ entryPoint # op.id
    /\ op # Idle => op.curr \in Complete /\ op.open \subseteq Complete /\ ~panicked

\* In a small index the links of layer 0 lead from every complete node to every other.
Connected == Small => \A a, b \in Complete : b \in Reach(graph[0], a)

GrowInv == IndexInv /\ FiniteIndex /\ LinksJoinStoredNodes /\ NewNodeIsolated

\* An insert meets its own node in no layer it still has to link, and what it meets is stored.
LEMMA VisitedIsComplete ==
    ASSUME GrowInv, op # Idle
    PROVE  /\ Visited \subseteq Complete /\ Complete \subseteq nodes
           /\ \A c \in op.open : Unvisited(c) \subseteq Complete
<1>1. /\ op.curr \in Complete /\ op.open \subseteq Complete /\ op.layer \in Layers /\ op.curr \in Ids
      /\ Complete \subseteq nodes
  BY DEF GrowInv, NewNodeIsolated, IndexInv, TypeOK, OpSound, Complete
<1>2. op.layer <= op.layer /\ Complete \in SUBSET Ids
  BY <1>1 DEF Layers, GrowInv, IndexInv, TypeOK
<1>3. \A m \in Complete : graph[op.layer][m] \subseteq Complete
  BY <1>1, <1>2 DEF GrowInv, NewNodeIsolated, LinksJoinStoredNodes, Complete, IndexInv, TypeOK
<1>4. Reach(graph[op.layer], op.curr) \subseteq Complete
  BY <1>1, <1>2, <1>3, ReachWithin
<1> QED
  BY <1>1, <1>3, <1>4 DEF Visited, Unvisited

\* Linking layer 0 of a small index: the new links include the old ones and
\* join the new node and its nearest in both directions.
LEMMA SmallLinking ==
    ASSUME GrowInv, Small, Link, op.layer = 0
    PROVE  /\ \A m \in Ids : graph[0][m] \subseteq graph'[0][m]
           /\ \E n \in Complete : op.id \in graph'[0][n] /\ n \in graph'[0][op.id]
<1>1. /\ op # Idle /\ op.id \in Ids /\ op.id \in nodes /\ Visited \subseteq Complete /\ Complete \subseteq nodes
      /\ Visited \subseteq Ids /\ nodes \subseteq Ids /\ op.id \notin Complete
  BY VisitedIsComplete, VisitedIds DEF GrowInv, IndexInv, TypeOK, OpSound, Link, Complete, Idle, At
<1>2. PICK neighbors \in Closest(M, op.id, Visited), nearest \in Visited :
        /\ nearest \in neighbors /\ neighbors \subseteq Visited
        /\ \E new \in Outcomes(graph[op.layer], op.id, neighbors \ {op.id}, nearest) :
              graph' = [graph EXCEPT ![op.layer] = Linked(@, new)]
  BY LinkFacts
<1> DEFINE near == neighbors \ {op.id}
<1>3. nearest \in near
  BY <1>1, <1>2
<1>4. near \subseteq nodes \ {op.id}
  BY <1>1, <1>2
<1>11. PICK new \in Outcomes(graph[0], op.id, near, nearest) : graph' = [graph EXCEPT ![0] = Linked(@, new)]
  BY <1>2
<1> HIDE DEF near
<1>5. \A n \in Ids : graph'[0][n] = IF n \in near \cup {op.id} THEN new[n] ELSE graph[0][n]
  BY <1>11, ZeroIsLayer DEF GrowInv, IndexInv, TypeOK, Linked, Outcomes
<1>6. ASSUME NEW n \in nodes, NEW S \in SUBSET (nodes \ {n}), NEW T \in pruneNeighbors(n, S)
      PROVE  T = S
  <2>1. IsFiniteSet(nodes) /\ Cardinality(nodes) \in Nat /\ Cardinality(nodes) <= Mmax + 1 /\ Mmax \in Nat
    BY FS_CardinalityType, SizeAssumption DEF GrowInv, FiniteIndex, Small
  <2>2. IsFiniteSet(nodes \ {n}) /\ Cardinality(nodes \ {n}) = Cardinality(nodes) - 1
    BY <2>1, FS_RemoveElement
  <2>3. IsFiniteSet(S) /\ Cardinality(S) <= Cardinality(nodes \ {n}) /\ Cardinality(S) \in Nat
    BY <2>2, FS_Subset, FS_CardinalityType
  <2>4. Cardinality(S) <= Mmax
    BY <2>1, <2>2, <2>3
  <2> QED
    BY <2>4, ClosestWhole DEF pruneNeighbors
<1>7. \A n \in Ids : graph[0][n] \subseteq nodes \ {n}
  BY ZeroIsLayer DEF GrowInv, NewNodeIsolated, LinksJoinStoredNodes, IndexInv, TypeOK
<1>12. \A n \in near \cup {op.id} : new[n] \in Outcome(graph[0], op.id, near, nearest, n)
  BY <1>11 DEF Outcomes
<1>8. graph'[0][op.id] = graph[0][op.id] \cup near
  <2>1. new[op.id] \in pruneNeighbors(op.id, graph[0][op.id] \cup near)
    BY <1>12 DEF Outcome
  <2>2. graph[0][op.id] \cup near \in SUBSET (nodes \ {op.id})
    BY <1>1, <1>4, <1>7
  <2>3. new[op.id] = graph[0][op.id] \cup near
    BY <1>1, <1>6, <2>1, <2>2
  <2> QED
    BY <1>1, <1>5, <2>3
<1>9. ASSUME NEW n \in near
      PROVE  graph'[0][n] = graph[0][n] \cup {op.id}
  <2>1. n # op.id /\ n \in nodes /\ n \in Ids
    BY <1>1, <1>4
  <2>2. PICK T \in pruneNeighbors(n, graph[0][n] \cup {op.id}) : new[n] = T \cup (IF n = nearest THEN {op.id} ELSE {})
    BY <1>12, <2>1 DEF Outcome, LinkBack
  <2>3. graph[0][n] \cup {op.id} \in SUBSET (nodes \ {n})
    BY <1>1, <1>7, <2>1
  <2>4. T = graph[0][n] \cup {op.id}
    BY <1>6, <2>1, <2>2, <2>3
  <2> QED
    BY <1>5, <2>1, <2>2, <2>4
<1>10. \A m \in Ids : graph[0][m] \subseteq graph'[0][m]
  BY <1>5, <1>8, <1>9
<1> QED
  BY <1>1, <1>2, <1>3, <1>8, <1>9, <1>10

LEMMA NextNewNodeIsolated == GrowInv /\ [GrowNext]_vars => NewNodeIsolated'
<1> SUFFICES ASSUME GrowInv, [GrowNext]_vars
             PROVE  NewNodeIsolated'
  OBVIOUS
<1> USE DEF GrowInv
<1>1. ASSUME NEW id \in Ids, NEW lvl \in Layers, InsertBegin(id, lvl)
      PROVE  NewNodeIsolated'
  <2>1. graph' = graph /\ nodes' = nodes \cup {id} /\ op = Idle /\ id \notin nodes
    BY <1>1 DEF InsertBegin
  <2>2. \A l \in Layers : graph[l][id] = {} /\ \A a \in Ids : id \notin graph[l][a]
    BY <2>1 DEF LinksJoinStoredNodes
  <2>3. CASE entryPoint = NoId
    BY <1>1, <2>1, <2>3 DEF InsertBegin, NewNodeIsolated, Idle, At
  <2>4. CASE entryPoint # NoId
    <3>1. /\ op'.kind = "insert" /\ op'.id = id /\ op'.curr = entryPoint /\ entryPoint' = entryPoint
          /\ op'.open = {entryPoint} /\ entryPoint \in nodes /\ ~panicked'
      BY <1>1, <2>4 DEF InsertBegin, IndexInv, EntryPointValid, At
    <3> QED
      BY <2>1, <2>2, <3>1 DEF NewNodeIsolated, Complete
  <2> QED
    BY <2>3, <2>4
<1>2. ASSUME NEW q \in Ids, SearchBegin(q)
      PROVE  NewNodeIsolated'
  BY <1>2 DEF SearchBegin, core, NewNodeIsolated, Complete, IndexInv, EntryPointValid, At
<1>3. CASE Link
  <2>1. PICK neighbors \in Closest(M, op.id, Visited), nearest \in Visited :
          /\ neighbors \subseteq Visited
          /\ \E new \in Outcomes(graph[op.layer], op.id, neighbors \ {op.id}, nearest) :
                graph' = [graph EXCEPT ![op.layer] = Linked(@, new)]
          /\ op' = IF op.layer = 0 THEN Idle ELSE At(op.kind, op.id, op.lvl, op.layer - 1, nearest)
    BY <1>3, LinkFacts
  <2>5. PICK new \in Outcomes(graph[op.layer], op.id, neighbors \ {op.id}, nearest) :
                graph' = [graph EXCEPT ![op.layer] = Linked(@, new)]
    BY <2>1
  <2>2. /\ op # Idle /\ op.layer \in Layers /\ op.kind = "insert" /\ nodes' = nodes
        /\ Visited \subseteq Complete /\ op.id \notin Complete
    BY <1>3, VisitedIsComplete DEF Link, Idle, At, IndexInv, TypeOK, Complete
  <2>3. CASE op.layer = 0
    <3>1. op'.kind = "idle" /\ op' = Idle
      BY <2>1, <2>3 DEF Idle, At
    <3>2. ASSUME NEW a \in Ids
          PROVE  a \notin graph'[0][a]
      <4>1. graph'[0][a] = Linked(graph[0], new)[a]
        BY <2>3, <2>5, ZeroIsLayer DEF IndexInv, TypeOK
      <4>2. graph'[0][a] \subseteq IF a = op.id THEN graph[0][op.id] \cup (neighbors \ {op.id})
                                   ELSE IF a \in neighbors \ {op.id} THEN graph[0][a] \cup {op.id} ELSE graph[0][a]
        BY <2>3, <2>5, <4>1, LinkedBounds
      <4> QED
        BY <2>2, <4>2 DEF NewNodeIsolated
    <3> QED
      BY <3>1, <3>2 DEF NewNodeIsolated
  <2>4. CASE op.layer # 0
    <3>1. /\ op'.kind = "insert" /\ op'.id = op.id /\ op'.curr = nearest /\ op'.layer = op.layer - 1
          /\ op'.open = {nearest} /\ entryPoint' = entryPoint /\ panicked' = panicked
      <4>1. op.layer \in Nat
        BY <2>2 DEF Layers
      <4>2. op' = At(op.kind, op.id, op.lvl, op.layer - 1, nearest)
        BY <2>1, <2>4
      <4>3. /\ op'.kind = op.kind /\ op'.id = op.id /\ op'.curr = nearest /\ op'.layer = op.layer - 1
            /\ op'.open = {nearest}
        BY <4>2 DEF At
      <4> QED
        BY <1>3, <2>2, <2>4, <4>1, <4>3 DEF Link
    <3>2. \A l \in Layers : l <= op'.layer => graph'[l] = graph[l] /\ l <= op.layer
      BY <2>2, <2>5, <3>1 DEF IndexInv, TypeOK, Layers
    <3>3. graph'[0] = graph[0] /\ Complete' = Complete
      BY <2>2, <2>4, <2>5, <3>1, ZeroIsLayer DEF IndexInv, TypeOK, Complete
    <3> QED
      BY <2>2, <3>1, <3>2, <3>3 DEF NewNodeIsolated
  <2> QED
    BY <2>3, <2>4
<1>4. CASE Descend
  <2>1. /\ op'.kind = op.kind /\ op'.id = op.id /\ op'.curr = op.curr /\ op'.open = {op.curr}
        /\ op'.layer = op.layer - 1 /\ op.layer \in Nat
    BY <1>4 DEF Descend, At, IndexInv, TypeOK, Layers
  <2>2. op # Idle /\ graph' = graph /\ nodes' = nodes /\ entryPoint' = entryPoint /\ panicked' = panicked
    BY <1>4 DEF Descend, core
  <2>3. \A l \in Layers : l <= op'.layer => l <= op.layer
    BY <2>1 DEF Layers
  <2> QED
    BY <2>1, <2>2, <2>3 DEF NewNodeIsolated, Complete
<1>8. ASSUME NEW c \in op.open, Expand(c)
      PROVE  NewNodeIsolated'
  <2>1. /\ op # Idle /\ Unvisited(c) \subseteq Complete /\ graph' = graph /\ nodes' = nodes
        /\ entryPoint' = entryPoint /\ panicked' = panicked
    BY <1>8, VisitedIsComplete DEF Expand, core
  <2>2. /\ op'.kind = op.kind /\ op'.id = op.id /\ op'.layer = op.layer
        /\ op'.curr \in Unvisited(c) \cup {op.curr} /\ op'.open \subseteq op.open \cup Unvisited(c)
    BY <1>8, ExpandFacts
  <2>3. Complete' = Complete
    BY <2>1, <2>2 DEF Complete
  <2> QED
    BY <2>1, <2>2, <2>3 DEF NewNodeIsolated
<1>5. CASE Panic \/ SearchEnd
  <2>1. op' = Idle /\ op'.kind # "insert" /\ graph' = graph
    BY <1>5 DEF Panic, SearchEnd, core, Idle, At
  <2> QED
    BY <2>1 DEF NewNodeIsolated
<1>6. CASE Load
  <2>1. op' = Idle /\ op'.kind # "insert" /\ \A a \in Ids : a \notin graph'[0][a]
    BY <1>6, ZeroIsLayer DEF Load, symmetrize, Idle, At, NewNodeIsolated
  <2> QED
    BY <2>1 DEF NewNodeIsolated
<1>7. CASE UNCHANGED vars
  BY <1>7 DEF vars, core, NewNodeIsolated, Complete
<1> QED
  BY <1>1, <1>2, <1>3, <1>4, <1>5, <1>6, <1>7, <1>8 DEF GrowNext, InsertOrSearch, Step

LEMMA InitGrow == Init => NewNodeIsolated /\ Connected
<1> SUFFICES ASSUME Init PROVE NewNodeIsolated /\ Connected
  OBVIOUS
<1>1. NewNodeIsolated
  BY ZeroIsLayer DEF Init, NewNodeIsolated, Idle, At
<1>2. Complete = {}
  BY DEF Init, Complete, Idle, At
<1> QED
  BY <1>1, <1>2 DEF Connected

LEMMA NextConnected == GrowInv /\ FiniteIndex' /\ Connected /\ [GrowNext]_vars => Connected'
<1> SUFFICES ASSUME GrowInv, FiniteIndex', Connected, [GrowNext]_vars, Small'
             PROVE  \A a, b \in Complete' : b \in Reach(graph'[0], a)
  BY DEF Connected
<1> USE DEF GrowInv
<1>1. Small
  <2>1. nodes \subseteq nodes'
    BY DEF GrowNext, InsertOrSearch, Step, InsertBegin, Link, Expand, Descend, Panic, SearchBegin,
           SearchEnd, Load, vars, core
  <2>2. IsFiniteSet(nodes') /\ Cardinality(nodes') \in Nat /\ Cardinality(nodes') <= Mmax + 1
    BY FS_CardinalityType DEF FiniteIndex, Small
  <2>3. Cardinality(nodes) <= Cardinality(nodes') /\ Cardinality(nodes) \in Nat
    BY <2>1, <2>2, FS_Subset, FS_CardinalityType
  <2> QED
    BY <2>2, <2>3, SizeAssumption DEF Small
<1>2. \A a, b \in Complete : b \in Reach(graph[0], a)
  BY <1>1 DEF Connected
<1>3. Complete \subseteq Ids
  BY DEF Complete, IndexInv, TypeOK
<1>4. ASSUME Complete' = Complete, \A m \in Ids : graph[0][m] \subseteq graph'[0][m]
      PROVE  \A a, b \in Complete' : b \in Reach(graph'[0], a)
  BY <1>2, <1>4, ReachGrows
<1>5. ASSUME NEW id \in Ids, NEW lvl \in Layers, InsertBegin(id, lvl)
      PROVE  \A a, b \in Complete' : b \in Reach(graph'[0], a)
  <2>1. CASE entryPoint = NoId
    <3>1. Complete' = {id}
      BY <1>5, <2>1 DEF InsertBegin, Complete, Idle, At, IndexInv, EntryPointValid
    <3> QED
      BY <3>1, ReachSelf
  <2>2. CASE entryPoint # NoId
    <3>1. Complete' = Complete /\ graph' = graph
      BY <1>5, <2>2 DEF InsertBegin, Complete, Idle, At
    <3> QED
      BY <1>4, <3>1
  <2> QED
    BY <2>1, <2>2
<1>6. CASE Link
  <2>1. CASE op.layer = 0
    <3>1. /\ op' = Idle /\ nodes' = nodes /\ op.id \in nodes /\ op.kind = "insert" /\ op.id \in Ids
      BY <1>6, <2>1 DEF Link, IndexInv, OpSound, Idle, At
    <3>2. \A m \in Ids : graph[0][m] \subseteq graph'[0][m]
      BY <1>1, <1>6, <2>1, SmallLinking
    <3>3. PICK n \in Complete : op.id \in graph'[0][n] /\ n \in graph'[0][op.id]
      BY <1>1, <1>6, <2>1, SmallLinking
    <3>4. \A a, b \in Complete : b \in Reach(graph'[0], a)
      BY <1>2, <3>2, ReachGrows
    <3>5. \A a \in Complete : op.id \in Reach(graph'[0], a)
      BY <3>1, <3>3, <3>4, ReachStep
    <3>6. n \in Reach(graph'[0], op.id)
      BY <1>3, <3>1, <3>3, ReachSelf, ReachStep
    <3>7. \A b \in Complete : b \in Reach(graph'[0], op.id)
      BY <3>4, <3>6, ReachTransitive
    <3>8. Complete' = Complete \cup {op.id}
      BY <3>1 DEF Complete, Idle, At
    <3> QED
      BY <3>1, <3>4, <3>5, <3>7, <3>8, ReachSelf
  <2>2. CASE op.layer # 0
    <3>1. graph'[0] = graph[0] /\ nodes' = nodes /\ op'.kind = op.kind /\ op'.id = op.id
      BY <1>6, <2>2, ZeroIsLayer DEF Link, IndexInv, TypeOK, At
    <3> QED
      BY <1>4, <3>1 DEF Complete
  <2> QED
    BY <2>1, <2>2
<1>7. CASE Descend \/ \E c \in op.open : Expand(c)
  <2>1. graph' = graph /\ nodes' = nodes /\ op'.kind = op.kind /\ op'.id = op.id
    <3>1. CASE Descend
      BY <3>1 DEF Descend, core, At
    <3>2. CASE \E c \in op.open : Expand(c)
      BY <3>2, ExpandFacts DEF Expand, core
    <3> QED
      BY <1>7, <3>1, <3>2
  <2> QED
    BY <1>4, <2>1 DEF Complete
<1>8. CASE Panic
  <2>1. FALSE
    BY <1>8, VisitedIsComplete DEF Panic
  <2> QED
    BY <2>1
<1>9. CASE SearchEnd \/ UNCHANGED vars \/ (\E q \in Ids : SearchBegin(q))
  <2>1. graph' = graph /\ nodes' = nodes
    BY <1>9 DEF SearchEnd, SearchBegin, vars, core
  <2>2. op' = op \/ (op.kind # "insert" /\ op'.kind # "insert")
    <3>1. CASE SearchEnd
      BY <3>1 DEF SearchEnd, Idle, At
    <3>2. CASE \E q \in Ids : SearchBegin(q)
      BY <3>2 DEF SearchBegin, Idle, At
    <3> QED
      BY <1>9, <3>1, <3>2 DEF vars
  <2>3. Complete' = Complete
    BY <2>1, <2>2 DEF Complete
  <2> QED
    BY <1>4, <2>1, <2>3
<1>10. CASE Load
  <2>1. Complete' = Complete /\ \A m \in Ids : graph[0][m] \subseteq graph'[0][m]
    BY <1>10, ZeroIsLayer DEF Load, symmetrize, Complete, Idle, At
  <2> QED
    BY <1>4, <2>1
<1> QED
  BY <1>5, <1>6, <1>7, <1>8, <1>9, <1>10 DEF GrowNext, InsertOrSearch, Step

LEMMA SpecConnected == GrowSpec => [](GrowInv /\ Connected)
<1>1. IndexInv /\ FiniteIndex /\ [GrowNext]_vars => FiniteIndex'
  BY NextFinite DEF GrowNext, Next
<1>2. GrowSpec => []FiniteIndex
  BY <1>1, InitFinite, GrowIndexInv, PTL DEF GrowSpec, GrowNext
<1>3. GrowSpec => []NewNodeIsolated
  BY <1>2, InitGrow, NextNewNodeIsolated, GrowIndexInv, GrowLinksJoinStoredNodes, PTL
     DEF GrowSpec, GrowNext, GrowInv
<1> QED
  BY <1>2, <1>3, InitGrow, NextConnected, GrowIndexInv, GrowLinksJoinStoredNodes, PTL
     DEF GrowSpec, GrowNext, GrowInv

\* An append-only index of at most Mmax + 1 nodes answers every search exactly:
\* the links of layer 0 connect all its nodes, so that the scan sees them all.
THEOREM SmallIndexExact == GrowSpec => SmallIndexIsExact
<1>1. ASSUME GrowInv, Connected, GrowNext
      PROVE  ExactWhenSmall
  <2> SUFFICES ASSUME op.kind = "search", op'.kind = "idle", Small
               PROVE  ~panicked' /\ hits' \in Closest(TopK, op.id, nodes)
    BY DEF Small, ExactWhenSmall
  <2>1. op # Idle /\ Complete = nodes /\ op.curr \in nodes /\ nodes \subseteq Ids /\ op.layer \in Layers
    BY <1>1 DEF Idle, At, Complete, GrowInv, IndexInv, OpSound, TypeOK
  <2>2. Visited \subseteq nodes
    BY <1>1, <2>1, VisitedIsComplete
  <2>3. SearchEnd
    <3>1. ~Descend /\ ~(\E c \in op.open : Expand(c))
      BY <1>1, ExpandFacts DEF Descend, At, GrowInv, IndexInv, TypeOK
    <3>2. ~Panic
      BY <1>1, <2>1, VisitedIsComplete DEF Panic
    <3> QED
      BY <1>1, <2>1, <2>2, <3>1, <3>2 DEF GrowNext, InsertOrSearch, Step, InsertBegin, SearchBegin, Link, Load
  <2>4. op.layer = 0
    BY <1>1, <2>1, <2>3 DEF SearchEnd, Descending, GrowInv, IndexInv, OpSound, Layers
  <2>5. nodes \subseteq Visited
    BY <1>1, <2>1, <2>3, <2>4 DEF Connected, Visited, SearchEnd
  <2>6. Visited = nodes
    BY <2>2, <2>5
  <2> QED
    BY <1>1, <2>1, <2>3, <2>6 DEF SearchEnd, GrowInv, NewNodeIsolated
<1>2. ASSUME GrowInv, Connected, [GrowNext]_vars
      PROVE  [ExactWhenSmall]_vars
  BY <1>1, <1>2
<1> QED
  BY <1>2, SpecConnected, PTL DEF GrowSpec, GrowNext, SmallIndexIsExact
=============================================================================
