---------------------------- MODULE EntityGraph ----------------------------
(***************************************************************************)
(* The entity graph of internal/graph/store.go, infer.go and rebuild.go.   *)
(* A memory mentions entities; entity_edges says which.  For every two     *)
(* entities entity_pair_counts counts the memories that mention both, and  *)
(* a pair counted twice becomes a related_to edge whose weight is that     *)
(* count.  Typed edges come from sentences such as "Andi works at PT Maju".*)
(*                                                                         *)
(* A store writes the graph one statement at a time, without a             *)
(* transaction, so that others write in between, any statement may fail    *)
(* (the database is locked) and the process may die half way.  The Dream   *)
(* Cycle's graph build lists the memories, extracts them anew in one       *)
(* transaction and rebuilds the counts in another; a transaction commits   *)
(* as a whole or not at all.                                               *)
(*                                                                         *)
(* ReadCountEarlier, ListStored, RebuildFromActive, RebuildKeepsSingles    *)
(* and RebuildNeedsThree are slips of the definitions that follow them,    *)
(* which the properties notice; the specification does not use them.       *)
(***************************************************************************)
EXTENDS Integers, FiniteSets

CONSTANTS
    Memories,
    Entities,
    Mentions,   \* Mentions[m]: the entities the classifier finds in m
    Claims,     \* Claims[m]: the typed edges the patterns find in m
    Handlers,   \* threads that store memories, of any process
    Dreamers,   \* Dream Cycles, one of each process that runs one
    MaxCount,   \* bound: a re-extraction adds to counts below it only
    NoMemory

ASSUME MentionsAssumption == Mentions \in [Memories -> SUBSET Entities]
ASSUME ClaimsAssumption == Claims \in [Memories -> SUBSET (Entities \X Entities)]
ASSUME FiniteAssumption == IsFiniteSet(Memories) /\ IsFiniteSet(Handlers)
ASSUME BoundAssumption == MaxCount \in Nat
ASSUME SentinelAssumption == NoMemory \notin Memories

VARIABLES
    row,      \* memories: not there yet, active or superseded
    node,     \* entity_nodes
    edge,     \* entity_edges, <<memory, entity>>
    count,    \* entity_pair_counts, 0 without a row
    weight,   \* weights of the related_to edges, 0 without an edge
    typed,    \* typed edges
    thr,      \* what each handler is doing
    dream,    \* what each Dream Cycle is doing
    skewed    \* history: pairs that a failure, a death, a re-extraction or a
              \* rebuild during a store may have left miscounted since the last
              \* rebuild

graph == <<node, edge, count, weight, typed>>
vars == <<row, graph, thr, dream, skewed>>

-----------------------------------------------------------------------------
PairsIn(S) == {{a, b} : a \in S, b \in S} \ {{a} : a \in S}
Pairs == PairsIn(Entities)
NoPair == {}

\* names: still to be written to the graph; pairs: still to be counted; pair and
\* seen: the one that was counted last and the count that was read back.
Idle == [at |-> "idle", mem |-> NoMemory, ids |-> {}, names |-> {}, pairs |-> {},
         pair |-> NoPair, seen |-> 0]
HandlerStates == [at : {"idle", "entities", "read", "relate"}, mem : Memories \cup {NoMemory},
                  ids : SUBSET Entities, names : SUBSET Entities, pairs : SUBSET Pairs,
                  pair : Pairs \cup {NoPair}, seen : Nat]

\* listed: the memories that are to be extracted anew.
Resting == [at |-> "idle", listed |-> {}]
DreamStates == [at : {"idle", "extract", "rebuild"}, listed : SUBSET Memories]

IsAt(h, point) == thr[h].at = point
Active == {m \in Memories : row[m] = "active"}
MentionedTogether(p) == {m \in Memories : \A e \in p : <<m, e>> \in edge}
ToCount(h) == IF thr[h].names = {} THEN thr[h].pairs ELSE PairsIn(thr[h].ids \cup thr[h].names)

Init ==
    /\ row = [m \in Memories |-> "none"]
    /\ node = {}
    /\ edge = {}
    /\ count = [p \in Pairs |-> 0]
    /\ weight = [p \in Pairs |-> 0]
    /\ typed = {}
    /\ thr = [h \in Handlers |-> Idle]
    /\ dream = [d \in Dreamers |-> Resting]
    /\ skewed = {}

-----------------------------------------------------------------------------
(* InsertMemory, from its row on *)

Store(h, m) ==
    /\ IsAt(h, "idle")
    /\ row[m] = "none"
    /\ row' = [row EXCEPT ![m] = "active"]
    /\ thr' = [thr EXCEPT ![h] = [Idle EXCEPT !.at = "entities", !.mem = m, !.names = Mentions[m]]]
    /\ UNCHANGED <<graph, dream, skewed>>

\* The entity has an id: the memory's edge is written, an older one left alone,
\* and the pairs that it forms will be counted.
Mention(h, e) ==
    /\ e \in thr[h].names
    /\ node' = node \cup {e}
    /\ edge' = edge \cup {<<thr[h].mem, e>>}
    /\ thr' = [thr EXCEPT ![h].names = @ \ {e},
                          ![h].ids = @ \cup {e},
                          ![h].pairs = PairsIn(thr[h].ids \cup {e})]
    /\ UNCHANGED <<row, count, weight, typed, dream, skewed>>

\* A name whose id cannot be read, for want of a node or otherwise, is passed over;
\* when only the edge fails, the entity still takes part in the pairs.
MentionFails(h, e) ==
    /\ e \in thr[h].names
    /\ \/ /\ node' \in {node, node \cup {e}}
          /\ thr' = [thr EXCEPT ![h].names = @ \ {e}]
          /\ UNCHANGED skewed
       \/ /\ node' = node \cup {e}
          /\ thr' = [thr EXCEPT ![h].names = @ \ {e},
                                ![h].ids = @ \cup {e},
                                ![h].pairs = PairsIn(thr[h].ids \cup {e})]
          /\ skewed' = skewed \cup {p \in PairsIn(thr[h].ids \cup thr[h].names) : e \in p}
    /\ UNCHANGED <<row, edge, count, weight, typed, dream>>

Counting(h, p) == IsAt(h, "entities") /\ thr[h].names = {} /\ p \in thr[h].pairs

ReadCountEarlier(h, p) ==
    /\ Counting(h, p)
    /\ count' = [count EXCEPT ![p] = @ + 1]
    /\ thr' = [thr EXCEPT ![h].pairs = @ \ {p},
                          ![h].at = IF count[p] >= 2 THEN "read" ELSE @,
                          ![h].pair = IF count[p] >= 2 THEN p ELSE @]
    /\ UNCHANGED <<row, node, edge, weight, typed, dream, skewed>>

CountPair(h, p) ==
    /\ Counting(h, p)
    /\ count' = [count EXCEPT ![p] = @ + 1]
    /\ thr' = [thr EXCEPT ![h].at = "read", ![h].pairs = @ \ {p}, ![h].pair = p]
    /\ UNCHANGED <<row, node, edge, weight, typed, dream, skewed>>

CountFails(h, p) ==
    /\ Counting(h, p)
    /\ thr' = [thr EXCEPT ![h].pairs = @ \ {p}]
    /\ skewed' = skewed \cup {p}
    /\ UNCHANGED <<row, graph, dream>>

NextPair(h) == thr' = [thr EXCEPT ![h].at = "entities", ![h].pair = NoPair, ![h].seen = 0]

ReadCount(h) ==
    /\ IsAt(h, "read")
    /\ LET read == count[thr[h].pair]
       IN  IF read >= 2
           THEN thr' = [thr EXCEPT ![h].at = "relate", ![h].seen = read]
           ELSE NextPair(h)
    /\ UNCHANGED <<row, graph, dream, skewed>>

\* The weight is the count that was read, which others may have changed since.
Relate(h) ==
    /\ IsAt(h, "relate")
    /\ weight' = [weight EXCEPT ![thr[h].pair] = thr[h].seen]
    /\ NextPair(h)
    /\ UNCHANGED <<row, node, edge, count, typed, dream, skewed>>

\* The count cannot be read or the edge not written.
RelateFails(h) ==
    /\ thr[h].at \in {"read", "relate"}
    /\ NextPair(h)
    /\ skewed' = skewed \cup {thr[h].pair}
    /\ UNCHANGED <<row, graph, dream>>

EntitiesOf(claims) == UNION {{c[1], c[2]} : c \in claims}

\* InferTypedEdges: an entity that is not there yet is created, the source first.
\* Each claim whose statements fail, or whose new entity another process creates
\* first, is passed over from there on.  The weight of a typed edge is not modelled:
\* nothing reads it.
InferTyped(h) ==
    /\ IsAt(h, "entities")
    /\ thr[h].names = {} /\ thr[h].pairs = {}
    /\ \E sourced \in SUBSET Claims[thr[h].mem] : \E resolved \in SUBSET sourced :
         /\ node' = node \cup {c[1] : c \in sourced} \cup {c[2] : c \in resolved}
         /\ \E claims \in SUBSET resolved : typed' = typed \cup claims
    /\ thr' = [thr EXCEPT ![h] = Idle]
    /\ UNCHANGED <<row, edge, count, weight, dream, skewed>>

\* The process of the handler dies.
Die(h) ==
    /\ ~IsAt(h, "idle")
    /\ thr' = [thr EXCEPT ![h] = Idle]
    /\ skewed' = skewed \cup thr[h].pairs \cup ({thr[h].pair} \ {NoPair})
    /\ UNCHANGED <<row, graph, dream>>

\* DeleteMemory, phaseEvict, phaseDedup or phaseSnapshot: the graph is left alone.
Supersede(m) ==
    /\ row[m] = "active"
    /\ row' = [row EXCEPT ![m] = "superseded"]
    /\ UNCHANGED <<graph, thr, dream, skewed>>
-----------------------------------------------------------------------------
(* phaseGraphBuild: ReextractEntities and RebuildGraph *)

ListStored(d) ==
    /\ dream[d].at = "idle"
    /\ dream' = [dream EXCEPT ![d] = [at |-> "extract", listed |-> {m \in Memories : \E e \in Entities : <<m, e>> \in edge}]]
    /\ UNCHANGED <<row, graph, thr, skewed>>

ListMemories(d) ==
    /\ dream[d].at = "idle"
    /\ dream' = [dream EXCEPT ![d] = [at |-> "extract", listed |-> Active]]
    /\ UNCHANGED <<row, graph, thr, skewed>>

NextRebuild(d) == dream' = [dream EXCEPT ![d] = [at |-> "rebuild", listed |-> {}]]

\* done: the memories whose statements ran; those before the transaction got the
\* write lock fail and are ignored.  Pairs are counted again though their edges
\* were there.
ReextractEntities(d, done) ==
    LET mentioning == {m \in done : Mentions[m] # {}}
        Again(p) == {m \in mentioning : p \subseteq Mentions[m]}
        total == [p \in Pairs |-> count[p] + Cardinality(Again(p))]
    IN  /\ dream[d].at = "extract"
        /\ \A p \in Pairs : count[p] < MaxCount
        /\ node' = node \cup UNION {Mentions[m] \cup EntitiesOf(Claims[m]) : m \in mentioning}
        /\ edge' = edge \cup UNION {{m} \X Mentions[m] : m \in mentioning}
        /\ count' = total
        /\ weight' = [p \in Pairs |-> IF Again(p) # {} /\ total[p] >= 2 THEN total[p] ELSE weight[p]]
        /\ typed' = typed \cup UNION {Claims[m] : m \in mentioning}
        /\ skewed' = skewed \cup {p \in Pairs : Again(p) # {}}
        /\ NextRebuild(d)
        /\ UNCHANGED <<row, thr>>

\* The cycle goes on to the rebuild.
ReextractFails(d) ==
    /\ dream[d].at = "extract"
    /\ NextRebuild(d)
    /\ UNCHANGED <<row, graph, thr, skewed>>

Rebuilt(together, least) ==
    /\ count' = together
    /\ weight' = [p \in Pairs |-> IF together[p] >= least THEN together[p] ELSE 0]
    /\ skewed' = UNION {ToCount(h) : h \in Handlers}
    /\ UNCHANGED <<row, node, edge, typed, thr>>

RebuildFromActive(d) ==
    /\ dream[d].at = "rebuild"
    /\ Rebuilt([p \in Pairs |-> Cardinality(MentionedTogether(p) \cap Active)], 2)
    /\ dream' = [dream EXCEPT ![d] = Resting]

RebuildKeepsSingles(d) ==
    /\ dream[d].at = "rebuild"
    /\ Rebuilt([p \in Pairs |-> Cardinality(MentionedTogether(p))], 1)
    /\ dream' = [dream EXCEPT ![d] = Resting]

RebuildNeedsThree(d) ==
    /\ dream[d].at = "rebuild"
    /\ Rebuilt([p \in Pairs |-> Cardinality(MentionedTogether(p))], 3)
    /\ dream' = [dream EXCEPT ![d] = Resting]

\* Counts and related_to edges are deleted and computed from all entity_edges,
\* those of superseded memories included; typed edges stay.
RebuildGraph(d) ==
    /\ dream[d].at = "rebuild"
    /\ Rebuilt([p \in Pairs |-> Cardinality(MentionedTogether(p))], 2)
    /\ dream' = [dream EXCEPT ![d] = Resting]

RebuildFails(d) ==
    /\ dream[d].at = "rebuild"
    /\ dream' = [dream EXCEPT ![d] = Resting]
    /\ UNCHANGED <<row, graph, thr, skewed>>

-----------------------------------------------------------------------------
HandlerStep(h) ==
    \/ \E m \in Memories : Store(h, m)
    \/ \E e \in Entities : Mention(h, e) \/ MentionFails(h, e)
    \/ \E p \in Pairs : CountPair(h, p) \/ CountFails(h, p)
    \/ ReadCount(h) \/ Relate(h) \/ RelateFails(h)
    \/ InferTyped(h)
    \/ Die(h)

DreamStep(d) ==
    \/ ListMemories(d)
    \/ \E done \in SUBSET dream[d].listed : ReextractEntities(d, done)
    \/ ReextractFails(d)
    \/ RebuildGraph(d)
    \/ RebuildFails(d)

Next ==
    \/ \E h \in Handlers : HandlerStep(h)
    \/ \E d \in Dreamers : DreamStep(d)
    \/ \E m \in Memories : Supersede(m)

Spec == Init /\ [][Next]_vars

\* The loop of the Dream Cycle goes round, and its transactions, which other
\* writers hold up for some of the rounds, are not refused in all of them.
FairSpec ==
    /\ Spec
    /\ \A d \in Dreamers :
         /\ WF_vars(DreamStep(d))
         /\ SF_vars(ReextractEntities(d, dream[d].listed))
         /\ SF_vars(RebuildGraph(d))

-----------------------------------------------------------------------------
(* Properties *)

\* Every variable has its type; no related_to edge stands for a single memory.
TypeOK ==
    /\ row \in [Memories -> {"none", "active", "superseded"}]
    /\ node \subseteq Entities
    /\ edge \subseteq Memories \X Entities
    /\ count \in [Pairs -> Nat]
    /\ weight \in [Pairs -> Nat \ {1}]
    /\ typed \subseteq Entities \X Entities
    /\ thr \in [Handlers -> HandlerStates]
    /\ dream \in [Dreamers -> DreamStates]
    /\ skewed \subseteq Pairs

\* A pair's count is the number of memories that mention both its entities, less
\* the stores that have written their edges and are still to count it: however
\* stores, re-extractions and rebuilds interleave, a count is wrong only after a
\* failure, a death, a re-extraction or a rebuild that met a store, and only until
\* the next rebuild.
CountsAreCooccurrences ==
    \A p \in Pairs \ skewed :
        count[p] + Cardinality({h \in Handlers : p \in thr[h].pairs})
            = Cardinality(MentionedTogether(p))

\* A pair that two memories share has its related_to edge, unless a store is about
\* to write it or failed to: each store reads the count after it has added to it,
\* so that of two stores at once one sees both.
CountedTwiceIsRelated ==
    \A p \in Pairs \ skewed :
        count[p] >= 2 => weight[p] >= 2 \/ \E h \in Handlers : thr[h].pair = p

\* Whatever failed when a memory was stored, the Dream Cycle gives it its entities
\* as long as it is active.
EntitiesAreBackfilled ==
    \A m \in Memories : \A e \in Mentions[m] :
        row[m] = "active" ~> (<<m, e>> \in edge \/ row[m] # "active")

\* Two memories that share two entities relate them in the end.
SharedEntitiesAreRelated ==
    \A p \in Pairs : Cardinality(MentionedTogether(p)) >= 2 ~> weight[p] >= 2
=============================================================================
