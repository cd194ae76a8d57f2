------------------------- MODULE EntityGraphProofs -------------------------
(***************************************************************************)
(* Proofs about EntityGraph, for any number of memories, entities,         *)
(* handlers and Dream Cycles.                                              *)
(*                                                                         *)
(* GraphInv makes CountsAreCooccurrences inductive.  What has to be known  *)
(* is which edges are there while a store is under way: a pair that it     *)
(* is still to count, and that nothing has skewed, has exactly the edges   *)
(* that the store itself has written, so that the last of them adds the    *)
(* memory to those that mention the pair and the store to those that owe   *)
(* it a count, both at once.                                               *)
(***************************************************************************)
EXTENDS EntityGraph, FiniteSetTheorems, TLAPS

Busy(h) == thr[h].at # "idle"

\* A store is about a memory, and writes, then counts, what it mentions.
StoreSound(h) ==
    /\ ~Busy(h) => thr[h] = Idle
    /\ Busy(h) =>
         /\ thr[h].mem \in Memories
         /\ row[thr[h].mem] # "none"
         /\ thr[h].names \subseteq Mentions[thr[h].mem]
         /\ thr[h].ids \subseteq Mentions[thr[h].mem]
         /\ thr[h].names \cap thr[h].ids = {}
         /\ thr[h].pairs \subseteq PairsIn(thr[h].ids)
         /\ thr[h].names # {} => thr[h].pairs = PairsIn(thr[h].ids)
    /\ thr[h].at \in {"read", "relate"} => thr[h].pair \in Pairs
    /\ thr[h].at \in {"idle", "entities"} => thr[h].pair = NoPair
    /\ IsAt(h, "relate") => thr[h].seen >= 2

StoresSound == \A h \in Handlers : StoreSound(h)

StoresDistinct ==
    \A g, h \in Handlers : g # h /\ Busy(g) /\ Busy(h) => thr[g].mem # thr[h].mem

\* An edge that the store did not write came with all the others of its memory.
OthersCameTogether(h) ==
    Busy(h) =>
        \A x \in Mentions[thr[h].mem] \ thr[h].ids :
            <<thr[h].mem, x>> \in edge => \A y \in Mentions[thr[h].mem] : <<thr[h].mem, y>> \in edge

\* Edges and lists are of memories that were stored.
EdgesSound ==
    /\ \A m \in Memories, e \in Entities : <<m, e>> \in edge => row[m] # "none" /\ e \in Mentions[m]
    /\ \A d \in Dreamers : \A m \in dream[d].listed : row[m] # "none"
    /\ \A h \in Handlers : OthersCameTogether(h)

OwnEdgesOnly(h) ==
    \A p \in ToCount(h) \ skewed : \A x \in p : <<thr[h].mem, x>> \in edge <=> x \in thr[h].ids

UncountedHasOwnEdges == \A h \in Handlers : OwnEdgesOnly(h)

GraphInv ==
    TypeOK /\ StoresSound /\ StoresDistinct /\ EdgesSound /\ UncountedHasOwnEdges
    /\ CountsAreCooccurrences

-----------------------------------------------------------------------------
(* Pairs *)

\* The pairs of a set are its two-element subsets.
LEMMA PairsAre ==
    ASSUME NEW S, NEW p
    PROVE  p \in PairsIn(S) <=> \E x \in S, y \in S : x # y /\ p = {x, y}
<1>1. ASSUME NEW x \in S, NEW y \in S, x # y, p = {x, y}
      PROVE  p \in PairsIn(S)
  <2>1. \A z : {x, y} # {z}
    BY <1>1
  <2> QED
    BY <1>1, <2>1 DEF PairsIn
<1>2. ASSUME p \in PairsIn(S)
      PROVE  \E x \in S, y \in S : x # y /\ p = {x, y}
  <2>1. PICK x \in S, y \in S : p = {x, y}
    BY <1>2 DEF PairsIn
  <2>2. x # y
    BY <1>2, <2>1 DEF PairsIn
  <2> QED
    BY <2>1, <2>2
<1> QED
  BY <1>1, <1>2

\* A pair of one set is a pair of every set that contains both its elements.
LEMMA PairsMonotone ==
    ASSUME NEW S, NEW T, NEW p \in PairsIn(S)
    PROVE  /\ p \subseteq S /\ p # {}
           /\ p \subseteq T => p \in PairsIn(T)
<1>1. PICK x \in S, y \in S : x # y /\ p = {x, y}
  BY PairsAre
<1> QED
  BY <1>1, PairsAre

\* Adding an element adds the pairs it forms.
LEMMA PairsGrow ==
    ASSUME NEW S, NEW e, NEW p
    PROVE  p \in PairsIn(S \cup {e}) <=>
             p \in PairsIn(S) \/ \E x \in S : x # e /\ p = {x, e}
<1>1. ASSUME p \in PairsIn(S \cup {e})
      PROVE  p \in PairsIn(S) \/ \E x \in S : x # e /\ p = {x, e}
  <2>1. PICK x \in S \cup {e}, y \in S \cup {e} : x # y /\ p = {x, y}
    BY <1>1, PairsAre
  <2>2. CASE x = e
    <3>1. y \in S /\ y # e /\ p = {y, e}
      BY <2>1, <2>2
    <3> QED
      BY <3>1
  <2>3. CASE y = e
    BY <2>1, <2>3
  <2>4. CASE x # e /\ y # e
    BY <2>1, <2>4, PairsAre
  <2> QED
    BY <2>2, <2>3, <2>4
<1>2. ASSUME p \in PairsIn(S)
      PROVE  p \in PairsIn(S \cup {e})
  BY <1>2, PairsMonotone
<1>3. ASSUME NEW x \in S, x # e, p = {x, e}
      PROVE  p \in PairsIn(S \cup {e})
  BY <1>3, PairsAre
<1> QED
  BY <1>1, <1>2, <1>3

\* The sets that the counts compare are finite.
LEMMA CountedSetsFinite ==
    ASSUME NEW p
    PROVE  /\ IsFiniteSet(MentionedTogether(p))
           /\ Cardinality(MentionedTogether(p)) \in Nat
           /\ IsFiniteSet({h \in Handlers : p \in thr[h].pairs})
           /\ Cardinality({h \in Handlers : p \in thr[h].pairs}) \in Nat
<1>1. MentionedTogether(p) \in SUBSET Memories /\ {h \in Handlers : p \in thr[h].pairs} \in SUBSET Handlers
  BY DEF MentionedTogether
<1>2. IsFiniteSet(MentionedTogether(p)) /\ IsFiniteSet({h \in Handlers : p \in thr[h].pairs})
  BY <1>1, FS_Subset, FiniteAssumption
<1> QED
  BY <1>2, FS_CardinalityType

\* A store that is still to count a pair knows both its entities.
LEMMA ToCountBounds ==
    ASSUME TypeOK, StoresSound, NEW h \in Handlers
    PROVE  /\ thr[h].pairs \subseteq ToCount(h)
           /\ ToCount(h) \subseteq Pairs
           /\ \A p \in ToCount(h) : p \subseteq thr[h].ids \cup thr[h].names
           /\ ToCount(h) # {} => Busy(h)
<1> DEFINE S == thr[h].ids \cup thr[h].names
<1>1. S \subseteq Entities /\ thr[h].pairs \subseteq Pairs
  BY DEF TypeOK, HandlerStates
<1>2. thr[h].pairs \subseteq PairsIn(S)
  <2>1. CASE Busy(h)
    <3>1. thr[h].pairs \subseteq PairsIn(thr[h].ids)
      BY <2>1 DEF StoresSound, StoreSound
    <3> QED
      BY <3>1, PairsMonotone
  <2>2. CASE ~Busy(h)
    BY <2>2 DEF StoresSound, StoreSound, Idle
  <2> QED
    BY <2>1, <2>2
<1>3. PairsIn(S) \subseteq Pairs
  BY <1>1, PairsMonotone DEF Pairs
<1>4. \A p \in PairsIn(S) : p \subseteq S
  BY PairsMonotone
<1>5. ToCount(h) # {} => Busy(h)
  <2>1. ASSUME ~Busy(h) PROVE ToCount(h) = {}
    BY <2>1 DEF StoresSound, StoreSound, Idle, ToCount
  <2> QED
    BY <2>1
<1> QED
  BY <1>1, <1>2, <1>3, <1>4, <1>5 DEF ToCount

-----------------------------------------------------------------------------
(* The invariant is inductive: one lemma for each action. *)

\* The idle handler has the type of a handler.
LEMMA IdleIsState == Idle \in HandlerStates
BY DEF Idle, HandlerStates

\* The empty graph satisfies the inductive invariant.
LEMMA InitGraphInv == Init => GraphInv
<1> SUFFICES ASSUME Init PROVE GraphInv
  OBVIOUS
<1>1. TypeOK
  BY IdleIsState DEF Init, TypeOK, Resting, DreamStates
<1>2. \A h \in Handlers : thr[h] = Idle
  BY DEF Init
<1>3. StoresSound /\ StoresDistinct /\ EdgesSound
  BY <1>2 DEF Init, StoresSound, StoreSound, StoresDistinct, EdgesSound, OthersCameTogether, Busy, IsAt, Idle, Resting
<1>4. \A h \in Handlers : ToCount(h) = {}
  BY <1>2 DEF ToCount, Idle
<1>5. CountsAreCooccurrences
  <2> SUFFICES ASSUME NEW p \in Pairs \ skewed
               PROVE  count[p] + Cardinality({h \in Handlers : p \in thr[h].pairs})
                        = Cardinality(MentionedTogether(p))
    BY DEF CountsAreCooccurrences
  <2>1. {h \in Handlers : p \in thr[h].pairs} = {}
    BY <1>2 DEF Idle
  <2>2. MentionedTogether(p) = {}
    <3>1. p # {}
      BY PairsMonotone DEF Pairs
    <3> QED
      BY <3>1 DEF MentionedTogether, Init
  <2>3. Cardinality({h \in Handlers : p \in thr[h].pairs}) = 0 /\ Cardinality(MentionedTogether(p)) = 0
    BY <2>1, <2>2, FS_EmptySet
  <2> QED
    BY <2>3 DEF Init
<1> QED
  BY <1>1, <1>3, <1>4, <1>5 DEF GraphInv, UncountedHasOwnEdges, OwnEdgesOnly

\* Steps that leave counts and edges alone, and take nothing from the pairs that
\* are still to count, leave the counts as right as they were.
LEMMA CountsStay ==
    ASSUME CountsAreCooccurrences, count' = count, edge' = edge, skewed \subseteq skewed',
           \A p \in Pairs \ skewed' : \A h \in Handlers : p \in thr'[h].pairs <=> p \in thr[h].pairs
    PROVE  CountsAreCooccurrences'
<1> SUFFICES ASSUME NEW p \in Pairs \ skewed'
             PROVE  count'[p] + Cardinality({h \in Handlers : p \in thr'[h].pairs})
                      = Cardinality(MentionedTogether(p)')
  BY DEF CountsAreCooccurrences
<1>1. {h \in Handlers : p \in thr'[h].pairs} = {h \in Handlers : p \in thr[h].pairs}
  OBVIOUS
<1>2. MentionedTogether(p)' = MentionedTogether(p)
  BY DEF MentionedTogether
<1> QED
  BY <1>1, <1>2 DEF CountsAreCooccurrences

\* A new memory has no edges, and its store nothing to count yet.
LEMMA StoreGraphInv ==
    ASSUME GraphInv, NEW h \in Handlers, NEW m \in Memories, Store(h, m)
    PROVE  GraphInv'
<1> USE DEF GraphInv
<1> DEFINE start == [Idle EXCEPT !.at = "entities", !.mem = m, !.names = Mentions[m]]
<1>1. thr' = [thr EXCEPT ![h] = start] /\ row[m] = "none" /\ row' = [row EXCEPT ![m] = "active"]
  BY DEF Store
<1>2. /\ start.at = "entities" /\ start.mem = m /\ start.names = Mentions[m] /\ start.ids = {}
      /\ start.pairs = {} /\ start.pair = NoPair /\ start \in HandlerStates
  BY MentionsAssumption DEF Idle, HandlerStates
<1>3. /\ thr'[h] = start
      /\ \A g \in Handlers : g # h => thr'[g] = thr[g]
      /\ \A n \in Memories : n # m => row'[n] = row[n]
      /\ row'[m] = "active"
  BY <1>1 DEF TypeOK
<1>4. UNCHANGED <<node, edge, count, weight, typed, dream, skewed>>
  BY DEF Store, graph
<1>5. PairsIn({}) = {}
  BY PairsMonotone
<1> HIDE DEF start
<1>6. TypeOK'
  BY <1>1, <1>2, <1>4 DEF TypeOK
<1>7. \A g \in Handlers : Busy(g) => thr[g].mem # m
  BY <1>1 DEF StoresSound, StoreSound
<1>8. StoresSound'
  <2> SUFFICES ASSUME NEW g \in Handlers PROVE StoreSound(g)'
    BY DEF StoresSound
  <2>1. CASE g = h
    BY <2>1, <1>2, <1>3, <1>5 DEF StoreSound, Busy, IsAt
  <2>2. CASE g # h
    BY <2>2, <1>3, <1>7 DEF StoresSound, StoreSound, Busy, IsAt
  <2> QED
    BY <2>1, <2>2
<1>9. StoresDistinct'
  BY <1>2, <1>3, <1>7 DEF StoresDistinct, Busy
<1>10. \A e \in Entities : <<m, e>> \notin edge
  BY <1>1 DEF EdgesSound
<1>11. EdgesSound'
  <2>1. \A g \in Handlers : OthersCameTogether(g)'
    <3> SUFFICES ASSUME NEW g \in Handlers PROVE OthersCameTogether(g)'
      OBVIOUS
    <3>1. CASE g = h
      BY <3>1, <1>2, <1>3, <1>4, <1>10, MentionsAssumption DEF OthersCameTogether
    <3>2. CASE g # h
      BY <3>2, <1>3, <1>4 DEF EdgesSound, OthersCameTogether, Busy
    <3> QED
      BY <3>1, <3>2
  <2>2. \A n \in Memories, e \in Entities : <<n, e>> \in edge' => row'[n] # "none" /\ e \in Mentions[n]
    BY <1>3, <1>4 DEF EdgesSound
  <2>3. \A d \in Dreamers : \A n \in dream'[d].listed : row'[n] # "none"
    BY <1>3, <1>4 DEF EdgesSound, TypeOK, DreamStates
  <2> QED
    BY <2>1, <2>2, <2>3 DEF EdgesSound
<1>12. UncountedHasOwnEdges'
  <2> SUFFICES ASSUME NEW g \in Handlers, NEW p \in ToCount(g)' \ skewed', NEW x \in p
               PROVE  <<thr'[g].mem, x>> \in edge' <=> x \in thr'[g].ids
    BY DEF UncountedHasOwnEdges, OwnEdgesOnly
  <2>1. CASE g = h
    <3>1. p \in PairsIn(Mentions[m])
      <4>1. {} \cup Mentions[m] = Mentions[m]
        OBVIOUS
      <4> QED
        BY <2>1, <1>2, <1>3, <4>1 DEF ToCount
    <3>2. x \in Entities
      BY <3>1, PairsMonotone, MentionsAssumption
    <3> QED
      BY <3>2, <2>1, <1>2, <1>3, <1>4, <1>10
  <2>2. CASE g # h
    BY <2>2, <1>3, <1>4 DEF UncountedHasOwnEdges, OwnEdgesOnly, ToCount
  <2> QED
    BY <2>1, <2>2
<1>13. CountsAreCooccurrences'
  <2>1. thr[h].pairs = {}
    BY DEF StoresSound, StoreSound, Store, IsAt, Busy, Idle
  <2>2. \A g \in Handlers : thr'[g].pairs = thr[g].pairs
    BY <1>2, <1>3, <2>1
  <2> QED
    BY <2>2, <1>4, CountsStay
<1> QED
  BY <1>6, <1>8, <1>9, <1>11, <1>12, <1>13

\* A step of one handler that at most adds edges of its own memory leaves the
\* others as they were.
LEMMA OthersStay ==
    ASSUME GraphInv, NEW h \in Handlers, Busy(h), row' = row, dream' = dream,
           skewed \subseteq skewed', edge \subseteq edge',
           \A g \in Handlers : g # h => thr'[g] = thr[g],
           \A n \in Memories, e \in Entities :
              <<n, e>> \in edge' \ edge => n = thr[h].mem /\ e \in Mentions[n],
           thr'[h].mem = thr[h].mem \/ ~Busy(h)',
           StoreSound(h)', OthersCameTogether(h)', OwnEdgesOnly(h)'
    PROVE  StoresSound' /\ StoresDistinct' /\ EdgesSound' /\ UncountedHasOwnEdges'
<1> USE DEF GraphInv
<1>1. thr[h].mem \in Memories /\ row[thr[h].mem] # "none"
  BY DEF StoresSound, StoreSound
<1>2. ASSUME NEW g \in Handlers, g # h, NEW e \in Entities, Busy(g)
      PROVE  <<thr[g].mem, e>> \in edge' <=> <<thr[g].mem, e>> \in edge
  <2>1. thr[g].mem # thr[h].mem /\ thr[g].mem \in Memories
    BY <1>2 DEF StoresDistinct, StoresSound, StoreSound
  <2> QED
    BY <2>1, <1>2
<1>3. ASSUME NEW g \in Handlers, g # h
      PROVE  StoreSound(g)'
  BY <1>3 DEF StoresSound, StoreSound, Busy, IsAt
<1>4. ASSUME NEW g \in Handlers, g # h
      PROVE  OthersCameTogether(g)'
  <2> SUFFICES ASSUME Busy(g), NEW x \in Mentions[thr[g].mem] \ thr[g].ids, <<thr[g].mem, x>> \in edge',
                      NEW y \in Mentions[thr[g].mem]
               PROVE  <<thr[g].mem, y>> \in edge'
    BY <1>4 DEF OthersCameTogether, Busy
  <2>1. thr[g].mem \in Memories
    BY DEF StoresSound, StoreSound
  <2>2. x \in Entities /\ y \in Entities
    BY <2>1, MentionsAssumption
  <2> QED
    BY <2>2, <1>2, <1>4 DEF EdgesSound, OthersCameTogether
<1>5. ASSUME NEW g \in Handlers, g # h
      PROVE  OwnEdgesOnly(g)'
  <2> SUFFICES ASSUME NEW p \in ToCount(g) \ skewed, NEW x \in p
               PROVE  <<thr[g].mem, x>> \in edge' <=> x \in thr[g].ids
    BY <1>5 DEF OwnEdgesOnly, ToCount
  <2>1. Busy(g) /\ x \in Entities
    BY ToCountBounds, PairsMonotone DEF Pairs
  <2> QED
    BY <2>1, <1>2, <1>5 DEF UncountedHasOwnEdges, OwnEdgesOnly
<1>6. StoresDistinct'
  BY DEF StoresDistinct, Busy
<1>7. \A n \in Memories, e \in Entities : <<n, e>> \in edge' => row'[n] # "none" /\ e \in Mentions[n]
  BY <1>1 DEF EdgesSound
<1>8. \A d \in Dreamers : \A n \in dream'[d].listed : row'[n] # "none"
  BY DEF EdgesSound
<1> QED
  BY <1>3, <1>4, <1>5, <1>6, <1>7, <1>8 DEF StoresSound, EdgesSound, UncountedHasOwnEdges

\* The last edge of a pair adds the memory to those that mention the pair and the
\* store to those that owe it a count.
LEMMA MentionGraphInv ==
    ASSUME GraphInv, NEW h \in Handlers, NEW e \in Entities, Mention(h, e)
    PROVE  GraphInv'
<1> USE DEF GraphInv
<1> DEFINE m == thr[h].mem
           ids == thr[h].ids
           names == thr[h].names
<1>1. /\ e \in names /\ node' = node \cup {e} /\ edge' = edge \cup {<<m, e>>}
      /\ UNCHANGED <<row, count, weight, typed, dream, skewed>>
  BY DEF Mention
<1>2. /\ Busy(h) /\ StoreSound(h) /\ thr[h] \in HandlerStates
      /\ \A g \in Handlers : g # h => thr'[g] = thr[g]
      /\ thr'[h] = [thr[h] EXCEPT !.names = names \ {e}, !.ids = ids \cup {e},
                                  !.pairs = PairsIn(ids \cup {e})]
  BY <1>1 DEF Mention, TypeOK, StoresSound, StoreSound, Idle
<1>3. /\ m \in Memories /\ row[m] # "none" /\ names \subseteq Mentions[m] /\ ids \subseteq Mentions[m]
      /\ names \cap ids = {} /\ thr[h].pairs = PairsIn(ids)
  BY <1>1, <1>2 DEF StoreSound
<1>4. /\ thr'[h].at = thr[h].at /\ thr'[h].mem = m /\ thr'[h].names = names \ {e}
      /\ thr'[h].ids = ids \cup {e} /\ thr'[h].pairs = PairsIn(ids \cup {e})
      /\ thr'[h].pair = thr[h].pair /\ thr'[h].seen = thr[h].seen
  BY <1>2 DEF HandlerStates
<1>5. TypeOK'
  <2>1. Mentions[m] \subseteq Entities
    BY <1>3, MentionsAssumption
  <2>2. PairsIn(ids \cup {e}) \subseteq Pairs
    BY <1>3, <2>1, PairsMonotone DEF Pairs
  <2>3. thr'[h] \in HandlerStates
    <3>1. names \ {e} \in SUBSET Entities /\ ids \cup {e} \in SUBSET Entities
      BY <1>3, <2>1
    <3> HIDE DEF names, ids
    <3> QED
      BY <1>2, <2>2, <3>1 DEF HandlerStates
  <2>4. thr' \in [Handlers -> HandlerStates]
    BY <1>2, <2>3 DEF Mention, TypeOK
  <2> QED
    BY <1>1, <1>3, <2>4 DEF TypeOK
<1>6. StoreSound(h)'
  BY <1>1, <1>2, <1>3, <1>4 DEF StoreSound, Busy, IsAt
<1>7. OthersCameTogether(h)'
  BY <1>1, <1>2, <1>4 DEF EdgesSound, OthersCameTogether, Busy
<1>8. OwnEdgesOnly(h)'
  <2>1. ToCount(h)' \subseteq ToCount(h)
    <3>1. ToCount(h) = PairsIn(ids \cup names)
      BY <1>1 DEF ToCount
    <3>2. ToCount(h)' \subseteq PairsIn((ids \cup {e}) \cup (names \ {e}))
      <4>1. (ids \cup {e}) \cup {} = ids \cup {e}
        OBVIOUS
      <4> QED
        BY <1>4, <4>1 DEF ToCount
    <3>3. (ids \cup {e}) \cup (names \ {e}) = ids \cup names
      BY <1>1
    <3> QED
      BY <3>1, <3>2, <3>3
  <2> QED
    BY <2>1, <1>1, <1>4 DEF UncountedHasOwnEdges, OwnEdgesOnly
<1>9. StoresSound' /\ StoresDistinct' /\ EdgesSound' /\ UncountedHasOwnEdges'
  <2>1. \A n \in Memories, x \in Entities : <<n, x>> \in edge' \ edge => n = m /\ x \in Mentions[n]
    BY <1>1, <1>3
  <2> QED
    BY <2>1, <1>1, <1>2, <1>4, <1>6, <1>7, <1>8, OthersStay
<1>10. CountsAreCooccurrences'
  <2> SUFFICES ASSUME NEW p \in Pairs \ skewed
               PROVE  count[p] + Cardinality({g \in Handlers : p \in thr'[g].pairs})
                        = Cardinality(MentionedTogether(p)')
    BY <1>1 DEF CountsAreCooccurrences
  <2> DEFINE owing == {g \in Handlers : p \in thr[g].pairs}
             together == MentionedTogether(p)
             owing2 == {g \in Handlers : p \in thr'[g].pairs}
  <2>1. count[p] + Cardinality(owing) = Cardinality(together)
    BY DEF CountsAreCooccurrences
  <2>2. CASE \E x \in ids : x # e /\ p = {x, e}
    <3>1. PICK x \in ids : x # e /\ p = {x, e}
      BY <2>2
    <3>2. p \in ToCount(h)
      <4>1. x \in ids \cup names /\ e \in ids \cup names
        BY <1>1
      <4> QED
        BY <3>1, <4>1, <1>1, PairsAre DEF ToCount
    <3>3. <<m, x>> \in edge /\ <<m, e>> \notin edge
      BY <3>1, <3>2, <1>1, <1>3 DEF UncountedHasOwnEdges, OwnEdgesOnly
    <3>4. MentionedTogether(p)' = together \cup {m} /\ m \notin together
      BY <3>1, <3>3, <1>1, <1>3 DEF MentionedTogether
    <3>5. owing2 = owing \cup {h} /\ h \notin owing
      <4>1. p \in PairsIn(ids \cup {e})
        BY <2>2, PairsGrow
      <4>2. p \notin PairsIn(ids)
        BY <3>1, <1>1, <1>3, PairsMonotone
      <4>3. \A g \in Handlers : p \in thr'[g].pairs <=> g = h \/ p \in thr[g].pairs
        BY <4>1, <1>2, <1>4
      <4>4. p \notin thr[h].pairs
        BY <4>2, <1>3
      <4> QED
        BY <4>3, <4>4
    <3>6. /\ Cardinality(owing \cup {h}) = Cardinality(owing) + 1
          /\ Cardinality(together \cup {m}) = Cardinality(together) + 1
      BY <3>4, <3>5, CountedSetsFinite, FS_AddElement
    <3>7. count[p] \in Nat /\ Cardinality(owing) \in Nat
      BY CountedSetsFinite DEF TypeOK
    <3>8. Cardinality(owing2) = Cardinality(owing) + 1
      BY <3>5, <3>6
    <3>9. Cardinality(MentionedTogether(p)') = Cardinality(together) + 1
      BY <3>4, <3>6
    <3> QED
      BY <2>1, <3>7, <3>8, <3>9
  <2>3. CASE ~ \E x \in ids : x # e /\ p = {x, e}
    <3>1. p \in PairsIn(ids \cup {e}) <=> p \in PairsIn(ids)
      <4>1. p \in PairsIn(ids) => p \in PairsIn(ids \cup {e})
        BY PairsGrow
      <4>2. ASSUME p \in PairsIn(ids \cup {e})
            PROVE  p \in PairsIn(ids)
        <5>1. PICK x \in ids \cup {e}, y \in ids \cup {e} : x # y /\ p = {x, y}
          BY <4>2, PairsAre
        <5>2. x # e /\ y # e
          <6>1. CASE x = e
            BY <6>1, <5>1, <2>3
          <6>2. CASE y = e
            BY <6>2, <5>1, <2>3
          <6> QED
            BY <6>1, <6>2
        <5> QED
          BY <5>1, <5>2, PairsAre
      <4> QED
        BY <4>1, <4>2
    <3>2. owing2 = owing
      <4>1. \A g \in Handlers : p \in thr'[g].pairs <=> p \in thr[g].pairs
        BY <3>1, <1>2, <1>3, <1>4
      <4> QED
        BY <4>1
    <3>3. MentionedTogether(p)' = together
      <4>1. \A n \in Memories : n # m => (n \in MentionedTogether(p)' <=> n \in together)
        BY <1>1 DEF MentionedTogether
      <4>2. ASSUME e \in p, m \in MentionedTogether(p)'
            PROVE  <<m, e>> \in edge
        <5>1. PICK x \in Entities, y \in Entities : x # y /\ p = {x, y}
          BY PairsAre DEF Pairs
        <5>2. PICK z \in Entities : z # e /\ p = {z, e}
          BY <5>1, <4>2
        <5>3. z \notin ids
          BY <5>2, <2>3
        <5>4. <<m, z>> \in edge'
          BY <5>2, <4>2 DEF MentionedTogether
        <5>5. <<m, z>> \in edge
          BY <5>2, <5>4, <1>1
        <5>6. z \in Mentions[m]
          BY <5>5, <1>3 DEF EdgesSound
        <5> QED
          BY <5>3, <5>5, <5>6, <1>1, <1>2, <1>3 DEF EdgesSound, OthersCameTogether
      <4>3. m \in MentionedTogether(p)' <=> m \in together
        <5>1. CASE e \in p
          BY <5>1, <4>2, <1>1 DEF MentionedTogether
        <5>2. CASE e \notin p
          BY <5>2, <1>1 DEF MentionedTogether
        <5> QED
          BY <5>1, <5>2
      <4> QED
        BY <4>1, <4>3 DEF MentionedTogether
    <3> QED
      BY <2>1, <3>2, <3>3
  <2> QED
    BY <2>2, <2>3
<1> QED
  BY <1>5, <1>9, <1>10

\* A step of one handler that writes no edge and adds to no count keeps the
\* invariant when it skews each pair whose bookkeeping it changes.
LEMMA QuietGraphInv ==
    ASSUME GraphInv, NEW h \in Handlers, Busy(h), TypeOK', StoreSound(h)',
           UNCHANGED <<row, dream, edge, count>>, skewed \subseteq skewed',
           \A g \in Handlers : g # h => thr'[g] = thr[g],
           Busy(h)' => thr'[h].mem = thr[h].mem /\ thr[h].ids \subseteq thr'[h].ids,
           \A p \in ToCount(h)' \ skewed' :
              p \in ToCount(h) /\ \A x \in p : x \in thr'[h].ids <=> x \in thr[h].ids,
           \A p \in Pairs \ skewed' : p \in thr'[h].pairs <=> p \in thr[h].pairs
    PROVE  GraphInv'
<1> USE DEF GraphInv
<1>1. OthersCameTogether(h)'
  BY DEF EdgesSound, OthersCameTogether
<1>2. OwnEdgesOnly(h)'
  <2> SUFFICES ASSUME NEW p \in ToCount(h)' \ skewed', NEW x \in p
               PROVE  <<thr'[h].mem, x>> \in edge' <=> x \in thr'[h].ids
    BY DEF OwnEdgesOnly
  <2>1. Busy(h)'
    <3>1. ASSUME ~Busy(h)' PROVE ToCount(h)' = {}
      BY <3>1 DEF StoreSound, Idle, ToCount
    <3> QED
      BY <3>1
  <2> QED
    BY <2>1 DEF UncountedHasOwnEdges, OwnEdgesOnly
<1>3. StoresSound' /\ StoresDistinct' /\ EdgesSound' /\ UncountedHasOwnEdges'
  BY <1>1, <1>2, OthersStay
<1>4. CountsAreCooccurrences'
  <2>1. \A p \in Pairs \ skewed' : \A g \in Handlers : p \in thr'[g].pairs <=> p \in thr[g].pairs
    OBVIOUS
  <2> QED
    BY <2>1, CountsStay
<1> QED
  BY <1>3, <1>4

\* An entity whose edge fails skews the pairs it would have formed.
LEMMA MentionFailsGraphInv ==
    ASSUME GraphInv, NEW h \in Handlers, NEW e \in Entities, MentionFails(h, e)
    PROVE  GraphInv'
<1> DEFINE m == thr[h].mem
           ids == thr[h].ids
           names == thr[h].names
<1>1. /\ e \in names /\ UNCHANGED <<row, edge, count, weight, typed, dream>>
      /\ skewed \subseteq skewed' /\ node' \in {node, node \cup {e}}
  BY DEF MentionFails
<1>2. /\ Busy(h) /\ StoreSound(h) /\ thr[h] \in HandlerStates
      /\ \A g \in Handlers : g # h => thr'[g] = thr[g]
      /\ thr \in [Handlers -> HandlerStates]
  BY <1>1 DEF GraphInv, MentionFails, TypeOK, StoresSound, StoreSound, Idle
<1>3. /\ m \in Memories /\ row[m] # "none" /\ names \subseteq Mentions[m] /\ ids \subseteq Mentions[m]
      /\ names \cap ids = {} /\ thr[h].pairs = PairsIn(ids) /\ Mentions[m] \subseteq Entities
  BY <1>1, <1>2, MentionsAssumption DEF StoreSound
<1>4. ToCount(h) = PairsIn(ids \cup names)
  BY <1>1 DEF ToCount
<1>5. CASE skewed' = skewed /\ thr' = [thr EXCEPT ![h].names = @ \ {e}]
  <2>1. /\ thr'[h] = [thr[h] EXCEPT !.names = names \ {e}]
        /\ thr' = [thr EXCEPT ![h] = thr'[h]]
    BY <1>2, <1>5
  <2>2. /\ thr'[h].at = thr[h].at /\ thr'[h].mem = m /\ thr'[h].names = names \ {e}
        /\ thr'[h].ids = ids /\ thr'[h].pairs = thr[h].pairs
        /\ thr'[h].pair = thr[h].pair /\ thr'[h].seen = thr[h].seen
    BY <2>1, <1>2 DEF HandlerStates
  <2>3. TypeOK'
    <3>1. thr'[h] \in HandlerStates
      <4>1. names \ {e} \in SUBSET Entities
        BY <1>3
      <4> QED
        BY <4>1, <2>1, <1>2 DEF HandlerStates
    <3> QED
      BY <3>1, <2>1, <1>1, <1>2, <1>5 DEF GraphInv, TypeOK
  <2>4. StoreSound(h)'
    BY <2>2, <1>1, <1>2, <1>3 DEF StoreSound, Busy, IsAt
  <2>5. \A p \in ToCount(h)' : p \in ToCount(h)
    <3>1. ToCount(h)' \subseteq PairsIn(ids) \cup PairsIn(ids \cup (names \ {e}))
      BY <2>2, <1>3 DEF ToCount
    <3> QED
      BY <3>1, <1>4, PairsMonotone
  <2> QED
    BY <2>2, <2>3, <2>4, <2>5, <1>1, <1>2, QuietGraphInv DEF Busy
<1>6. CASE /\ skewed' = skewed \cup {p \in PairsIn(thr[h].ids \cup thr[h].names) : e \in p}
           /\ thr' = [thr EXCEPT ![h].names = @ \ {e},
                                 ![h].ids = @ \cup {e},
                                 ![h].pairs = PairsIn(thr[h].ids \cup {e})]
  <2>1. /\ thr'[h] = [thr[h] EXCEPT !.names = names \ {e}, !.ids = ids \cup {e},
                                    !.pairs = PairsIn(ids \cup {e})]
        /\ thr' = [thr EXCEPT ![h] = thr'[h]]
    BY <1>2, <1>6
  <2>2. /\ thr'[h].at = thr[h].at /\ thr'[h].mem = m /\ thr'[h].names = names \ {e}
        /\ thr'[h].ids = ids \cup {e} /\ thr'[h].pairs = PairsIn(ids \cup {e})
        /\ thr'[h].pair = thr[h].pair /\ thr'[h].seen = thr[h].seen
    BY <2>1, <1>2 DEF HandlerStates
  <2>3. TypeOK'
    <3>1. PairsIn(ids \cup {e}) \subseteq Pairs /\ PairsIn(ids \cup names) \subseteq Pairs
      BY <1>3, PairsMonotone DEF Pairs
    <3>2. thr'[h] \in HandlerStates
      <4>1. names \ {e} \in SUBSET Entities /\ ids \cup {e} \in SUBSET Entities
        BY <1>3
      <4> HIDE DEF names, ids
      <4> QED
        BY <4>1, <3>1, <2>1, <1>2 DEF HandlerStates
    <3> QED
      BY <3>1, <3>2, <2>1, <1>1, <1>2, <1>6 DEF GraphInv, TypeOK
  <2>4. StoreSound(h)'
    BY <2>2, <1>1, <1>2, <1>3 DEF StoreSound, Busy, IsAt
  <2>5. ToCount(h)' \subseteq ToCount(h)
    <3>1. ToCount(h)' \subseteq PairsIn(ids \cup {e}) \cup PairsIn((ids \cup {e}) \cup (names \ {e}))
      BY <2>2 DEF ToCount
    <3> QED
      BY <3>1, <1>1, <1>4, PairsMonotone
  <2>6. \A p \in ToCount(h) \ skewed' : e \notin p
    BY <1>4, <1>6
  <2>7. \A p \in Pairs \ skewed' : p \in thr'[h].pairs <=> p \in thr[h].pairs
    <3> SUFFICES ASSUME NEW p \in Pairs \ skewed'
                 PROVE  p \in PairsIn(ids \cup {e}) <=> p \in PairsIn(ids)
      BY <2>2, <1>3
    <3>1. ASSUME p \in PairsIn(ids \cup {e}) PROVE p \in PairsIn(ids)
      <4>1. p \in ToCount(h)
        BY <3>1, <1>1, <1>4, PairsMonotone
      <4>2. e \notin p
        BY <4>1, <2>6
      <4> QED
        BY <3>1, <4>2, PairsMonotone
    <3>2. ASSUME p \in PairsIn(ids) PROVE p \in PairsIn(ids \cup {e})
      BY <3>2, PairsMonotone
    <3> QED
      BY <3>1, <3>2
  <2> QED
    BY <2>2, <2>3, <2>4, <2>5, <2>6, <2>7, <1>1, <1>2, QuietGraphInv
<1> QED
  BY <1>5, <1>6 DEF MentionFails

\* A count that is added to has one store less that owes it.
LEMMA CountPairGraphInv ==
    ASSUME GraphInv, NEW h \in Handlers, NEW p \in Pairs, CountPair(h, p)
    PROVE  GraphInv'
<1> USE DEF GraphInv
<1>1. /\ IsAt(h, "entities") /\ thr[h].names = {} /\ p \in thr[h].pairs
      /\ count' = [count EXCEPT ![p] = @ + 1]
      /\ UNCHANGED <<row, node, edge, weight, typed, dream, skewed>>
  BY DEF CountPair, Counting
<1>2. /\ Busy(h) /\ StoreSound(h) /\ thr[h] \in HandlerStates
      /\ \A g \in Handlers : g # h => thr'[g] = thr[g]
      /\ thr'[h] = [thr[h] EXCEPT !.at = "read", !.pairs = thr[h].pairs \ {p}, !.pair = p]
      /\ thr' = [thr EXCEPT ![h] = thr'[h]]
  BY <1>1 DEF CountPair, TypeOK, StoresSound, IsAt, Busy
<1>3. /\ thr'[h].at = "read" /\ thr'[h].mem = thr[h].mem /\ thr'[h].names = thr[h].names
      /\ thr'[h].ids = thr[h].ids /\ thr'[h].pairs = thr[h].pairs \ {p} /\ thr'[h].pair = p
      /\ thr'[h].seen = thr[h].seen
  BY <1>2 DEF HandlerStates
<1>4. TypeOK'
  <2>1. thr'[h] \in HandlerStates
    <3>1. thr[h].pairs \ {p} \in SUBSET Pairs
      BY <1>2 DEF HandlerStates
    <3> QED
      BY <3>1, <1>2 DEF HandlerStates
  <2>2. thr' \in [Handlers -> HandlerStates]
    BY <1>2, <2>1 DEF TypeOK
  <2>3. count' \in [Pairs -> Nat]
    BY <1>1 DEF TypeOK
  <2> QED
    BY <1>1, <2>2, <2>3 DEF TypeOK
<1>5. StoreSound(h)'
  BY <1>1, <1>2, <1>3 DEF StoreSound, Busy, IsAt
<1>6. OthersCameTogether(h)'
  BY <1>1, <1>2, <1>3 DEF EdgesSound, OthersCameTogether, Busy
<1>7. OwnEdgesOnly(h)'
  BY <1>1, <1>3 DEF UncountedHasOwnEdges, OwnEdgesOnly, ToCount
<1>8. StoresSound' /\ StoresDistinct' /\ EdgesSound' /\ UncountedHasOwnEdges'
  BY <1>1, <1>2, <1>3, <1>5, <1>6, <1>7, OthersStay
<1>9. CountsAreCooccurrences'
  <2> SUFFICES ASSUME NEW q \in Pairs \ skewed
               PROVE  count'[q] + Cardinality({g \in Handlers : q \in thr'[g].pairs})
                        = Cardinality(MentionedTogether(q))
    BY <1>1 DEF CountsAreCooccurrences, MentionedTogether
  <2> DEFINE owing == {g \in Handlers : q \in thr[g].pairs}
             owing2 == {g \in Handlers : q \in thr'[g].pairs}
  <2>1. count[q] + Cardinality(owing) = Cardinality(MentionedTogether(q))
    BY DEF CountsAreCooccurrences
  <2>2. CASE q = p
    <3>1. owing2 = owing \ {h} /\ h \in owing
      BY <2>2, <1>1, <1>2, <1>3
    <3>2. Cardinality(owing \ {h}) = Cardinality(owing) - 1
      <4>1. IsFiniteSet(owing)
        BY CountedSetsFinite
      <4> HIDE DEF owing
      <4> QED
        BY <3>1, <4>1, FS_RemoveElement
    <3>3. count'[q] = count[q] + 1 /\ count[q] \in Nat
      BY <2>2, <1>1 DEF TypeOK
    <3>4. Cardinality(owing) \in Nat
      BY CountedSetsFinite
    <3>5. Cardinality(owing2) = Cardinality(owing) - 1
      BY <3>1, <3>2
    <3> QED
      BY <2>1, <3>3, <3>4, <3>5
  <2>3. CASE q # p
    <3>1. owing2 = owing
      BY <2>3, <1>2, <1>3
    <3>2. count'[q] = count[q]
      BY <2>3, <1>1 DEF TypeOK
    <3> QED
      BY <2>1, <3>1, <3>2
  <2> QED
    BY <2>2, <2>3
<1> QED
  BY <1>4, <1>8, <1>9

\* A pair whose count fails is skewed.
LEMMA CountFailsGraphInv ==
    ASSUME GraphInv, NEW h \in Handlers, NEW p \in Pairs, CountFails(h, p)
    PROVE  GraphInv'
<1>1. /\ IsAt(h, "entities") /\ thr[h].names = {} /\ p \in thr[h].pairs
      /\ skewed' = skewed \cup {p}
      /\ UNCHANGED <<row, node, edge, count, weight, typed, dream>>
  BY DEF CountFails, Counting, graph
<1>2. /\ Busy(h) /\ StoreSound(h) /\ thr[h] \in HandlerStates
      /\ \A g \in Handlers : g # h => thr'[g] = thr[g]
      /\ thr'[h] = [thr[h] EXCEPT !.pairs = thr[h].pairs \ {p}]
      /\ thr' = [thr EXCEPT ![h] = thr'[h]]
      /\ thr \in [Handlers -> HandlerStates]
  BY <1>1 DEF GraphInv, CountFails, TypeOK, StoresSound, IsAt, Busy
<1>3. /\ thr'[h].at = thr[h].at /\ thr'[h].mem = thr[h].mem /\ thr'[h].names = thr[h].names
      /\ thr'[h].ids = thr[h].ids /\ thr'[h].pairs = thr[h].pairs \ {p}
      /\ thr'[h].pair = thr[h].pair /\ thr'[h].seen = thr[h].seen
  BY <1>2 DEF HandlerStates
<1>4. TypeOK'
  <2>1. thr'[h] \in HandlerStates
    <3>1. thr[h].pairs \ {p} \in SUBSET Pairs
      BY <1>2 DEF HandlerStates
    <3> QED
      BY <3>1, <1>2 DEF HandlerStates
  <2> QED
    BY <1>1, <1>2, <2>1 DEF GraphInv, TypeOK
<1>5. StoreSound(h)'
  BY <1>1, <1>2, <1>3 DEF StoreSound, Busy, IsAt
<1>6. \A q \in ToCount(h)' : q \in ToCount(h)
  BY <1>1, <1>3 DEF ToCount
<1>7. \A q \in Pairs \ skewed' : q \in thr'[h].pairs <=> q \in thr[h].pairs
  BY <1>1, <1>3
<1> QED
  BY <1>1, <1>2, <1>3, <1>4, <1>5, <1>6, <1>7, QuietGraphInv DEF Busy

\* Reading a count and writing an edge change neither edges nor counts.
LEMMA RelateGraphInv ==
    ASSUME GraphInv, NEW h \in Handlers, ReadCount(h) \/ Relate(h) \/ RelateFails(h)
    PROVE  GraphInv'
<1>1. /\ thr[h].at \in {"read", "relate"} /\ UNCHANGED <<row, node, edge, count, typed, dream>>
      /\ skewed' \in {skewed, skewed \cup {thr[h].pair}}
  BY DEF ReadCount, Relate, RelateFails, IsAt, graph
<1>2. /\ Busy(h) /\ StoreSound(h) /\ thr[h] \in HandlerStates /\ thr[h].pair \in Pairs
      /\ thr \in [Handlers -> HandlerStates]
  BY <1>1 DEF GraphInv, TypeOK, StoresSound, StoreSound, Busy
<1>3. /\ \A g \in Handlers : g # h => thr'[g] = thr[g]
      /\ thr' = [thr EXCEPT ![h] = thr'[h]]
      /\ \/ /\ thr'[h] = [thr[h] EXCEPT !.at = "relate", !.seen = count[thr[h].pair]]
            /\ count[thr[h].pair] >= 2
         \/ thr'[h] = [thr[h] EXCEPT !.at = "entities", !.pair = NoPair, !.seen = 0]
  BY <1>2 DEF ReadCount, Relate, RelateFails, NextPair
<1>4. /\ thr'[h].mem = thr[h].mem /\ thr'[h].names = thr[h].names
      /\ thr'[h].ids = thr[h].ids /\ thr'[h].pairs = thr[h].pairs
      /\ \/ thr'[h].at = "relate" /\ thr'[h].pair = thr[h].pair /\ thr'[h].seen >= 2
         \/ thr'[h].at = "entities" /\ thr'[h].pair = NoPair
  BY <1>2, <1>3 DEF HandlerStates
<1>5. TypeOK'
  <2>1. thr'[h] \in HandlerStates
    <3>1. count[thr[h].pair] \in Nat
      BY <1>2 DEF GraphInv, TypeOK
    <3>2. CASE thr'[h] = [thr[h] EXCEPT !.at = "relate", !.seen = count[thr[h].pair]]
      BY <3>1, <3>2, <1>2 DEF HandlerStates
    <3>3. CASE thr'[h] = [thr[h] EXCEPT !.at = "entities", !.pair = NoPair, !.seen = 0]
      <4>1. NoPair \in Pairs \cup {NoPair} /\ 0 \in Nat /\ "entities" \in {"idle", "entities", "read", "relate"}
        OBVIOUS
      <4> QED
        BY <3>3, <4>1, <1>2, Zenon DEF HandlerStates
    <3> QED
      BY <3>2, <3>3, <1>3
  <2>2. weight' \in [Pairs -> Nat \ {1}]
    <3>1. CASE Relate(h)
      <4>1. thr[h].seen \in Nat \ {1}
        BY <3>1, <1>2 DEF Relate, StoreSound, HandlerStates
      <4> QED
        BY <3>1, <4>1 DEF Relate, GraphInv, TypeOK
    <3>2. CASE ReadCount(h) \/ RelateFails(h)
      BY <3>2 DEF ReadCount, RelateFails, graph, GraphInv, TypeOK
    <3> QED
      BY <3>1, <3>2
  <2> QED
    BY <2>1, <2>2, <1>1, <1>2, <1>3 DEF GraphInv, TypeOK
<1>6. StoreSound(h)'
  BY <1>1, <1>2, <1>4 DEF StoreSound, Busy, IsAt
<1>7. ToCount(h)' = ToCount(h)
  BY <1>4 DEF ToCount
<1> QED
  BY <1>1, <1>2, <1>3, <1>4, <1>5, <1>6, <1>7, QuietGraphInv

\* The typed edges end a store that has nothing left to count.
LEMMA InferTypedGraphInv ==
    ASSUME GraphInv, NEW h \in Handlers, InferTyped(h)
    PROVE  GraphInv'
<1>1. /\ IsAt(h, "entities") /\ thr[h].names = {} /\ thr[h].pairs = {}
      /\ thr' = [thr EXCEPT ![h] = Idle]
      /\ UNCHANGED <<row, edge, count, weight, dream, skewed>>
  BY DEF InferTyped
<1>2. /\ Busy(h) /\ StoreSound(h) /\ thr'[h] = Idle /\ thr[h].mem \in Memories
      /\ \A g \in Handlers : g # h => thr'[g] = thr[g]
  BY <1>1 DEF GraphInv, TypeOK, StoresSound, StoreSound, IsAt, Busy
<1>3. TypeOK'
  <2>1. PICK sourced \in SUBSET Claims[thr[h].mem], resolved \in SUBSET Claims[thr[h].mem],
             claims \in SUBSET Claims[thr[h].mem] :
          /\ resolved \subseteq sourced
          /\ typed' = typed \cup claims
          /\ node' = node \cup {c[1] : c \in sourced} \cup {c[2] : c \in resolved}
    <3>1. PICK sourced \in SUBSET Claims[thr[h].mem] : \E resolved \in SUBSET sourced :
            /\ node' = node \cup {c[1] : c \in sourced} \cup {c[2] : c \in resolved}
            /\ \E claims \in SUBSET resolved : typed' = typed \cup claims
      BY DEF InferTyped
    <3>2. PICK resolved \in SUBSET sourced :
            /\ node' = node \cup {c[1] : c \in sourced} \cup {c[2] : c \in resolved}
            /\ \E claims \in SUBSET resolved : typed' = typed \cup claims
      BY <3>1
    <3>3. PICK claims \in SUBSET resolved : typed' = typed \cup claims
      BY <3>2
    <3> QED
      BY <3>1, <3>2, <3>3
  <2>2. sourced \subseteq Entities \X Entities /\ claims \subseteq Entities \X Entities
    BY <1>2, <2>1, ClaimsAssumption
  <2>3. {c[1] : c \in sourced} \cup {c[2] : c \in resolved} \subseteq Entities
    <3>1. \A c \in sourced : c[1] \in Entities /\ c[2] \in Entities
      BY <2>2
    <3>2. \A c \in resolved : c \in sourced
      BY <2>1
    <3> QED
      BY <3>1, <3>2
  <2> QED
    BY <1>1, <2>1, <2>2, <2>3, IdleIsState DEF GraphInv, TypeOK
<1>4. StoreSound(h)' /\ ~Busy(h)' /\ ToCount(h)' = {} /\ thr'[h].pairs = {}
  BY <1>2 DEF StoreSound, Busy, IsAt, Idle, ToCount
<1> QED
  BY <1>1, <1>2, <1>3, <1>4, QuietGraphInv

\* A store that dies skews the pairs it owes a count or an edge.
LEMMA DieGraphInv ==
    ASSUME GraphInv, NEW h \in Handlers, Die(h)
    PROVE  GraphInv'
<1>1. /\ Busy(h) /\ thr' = [thr EXCEPT ![h] = Idle]
      /\ skewed' = skewed \cup thr[h].pairs \cup ({thr[h].pair} \ {NoPair})
      /\ UNCHANGED <<row, node, edge, count, weight, typed, dream>>
  BY DEF Die, Busy, IsAt, graph
<1>2. /\ thr[h] \in HandlerStates /\ thr'[h] = Idle
      /\ \A g \in Handlers : g # h => thr'[g] = thr[g]
  BY <1>1 DEF GraphInv, TypeOK
<1>3. TypeOK'
  <2>1. skewed' \subseteq Pairs
    BY <1>1, <1>2 DEF GraphInv, TypeOK, HandlerStates
  <2> QED
    BY <1>1, <2>1, IdleIsState DEF GraphInv, TypeOK
<1>4. StoreSound(h)' /\ ~Busy(h)' /\ ToCount(h)' = {} /\ thr'[h].pairs = {}
  BY <1>2 DEF StoreSound, Busy, IsAt, Idle, ToCount
<1> QED
  BY <1>1, <1>2, <1>3, <1>4, QuietGraphInv

\* Steps that leave edges, counts and stores alone, and whose lists are of stored
\* memories, keep the invariant.
LEMMA AsideGraphInv ==
    ASSUME GraphInv, TypeOK', UNCHANGED <<edge, count, thr, skewed>>,
           \A m \in Memories : row[m] # "none" => row'[m] # "none",
           \A d \in Dreamers : \A m \in dream'[d].listed : row'[m] # "none"
    PROVE  GraphInv'
<1> USE DEF GraphInv
<1>1. StoresSound'
  BY DEF StoresSound, StoreSound, Busy, IsAt
<1>2. StoresDistinct'
  BY DEF StoresDistinct, Busy
<1>3. EdgesSound'
  BY DEF EdgesSound, OthersCameTogether, Busy
<1>4. UncountedHasOwnEdges'
  BY DEF UncountedHasOwnEdges, OwnEdgesOnly, ToCount
<1>5. CountsAreCooccurrences'
  BY CountsStay
<1> QED
  BY <1>1, <1>2, <1>3, <1>4, <1>5

\* Superseding a memory leaves the graph alone.
LEMMA SupersedeGraphInv ==
    ASSUME GraphInv, NEW m \in Memories, Supersede(m)
    PROVE  GraphInv'
<1>1. row' = [row EXCEPT ![m] = "superseded"] /\ UNCHANGED <<node, edge, count, weight, typed, thr, dream, skewed>>
  BY DEF Supersede, graph
<1>2. TypeOK'
  BY <1>1 DEF GraphInv, TypeOK
<1>3. \A n \in Memories : row[n] # "none" => row'[n] # "none"
  BY <1>1 DEF GraphInv, TypeOK
<1>4. \A d \in Dreamers : \A n \in dream'[d].listed : row'[n] # "none"
  BY <1>1, <1>3 DEF GraphInv, EdgesSound, TypeOK, DreamStates
<1> QED
  BY <1>1, <1>2, <1>3, <1>4, AsideGraphInv

\* Listing the memories, and a transaction that fails, leave the graph alone.
LEMMA DreamAsideGraphInv ==
    ASSUME GraphInv, NEW d \in Dreamers, ListMemories(d) \/ ReextractFails(d) \/ RebuildFails(d)
    PROVE  GraphInv'
<1>1. UNCHANGED <<row, node, edge, count, weight, typed, thr, skewed>>
  BY DEF ListMemories, ReextractFails, RebuildFails, graph
<1>2. /\ dream' = [dream EXCEPT ![d] = dream'[d]]
      /\ dream'[d] \in DreamStates /\ dream'[d].listed \in {{}, Active}
  <2> DEFINE extract == [at |-> "extract", listed |-> Active]
             rebuild == [at |-> "rebuild", listed |-> {}]
  <2>1. /\ extract \in DreamStates /\ rebuild \in DreamStates /\ Resting \in DreamStates
        /\ extract.listed = Active /\ rebuild.listed = {} /\ Resting.listed = {}
    BY DEF DreamStates, Active, Resting
  <2>2. \/ dream' = [dream EXCEPT ![d] = extract]
        \/ dream' = [dream EXCEPT ![d] = rebuild]
        \/ dream' = [dream EXCEPT ![d] = Resting]
    BY DEF ListMemories, ReextractFails, RebuildFails, NextRebuild
  <2> HIDE DEF extract, rebuild
  <2> QED
    BY <2>1, <2>2 DEF GraphInv, TypeOK
<1>3. TypeOK'
  BY <1>1, <1>2 DEF GraphInv, TypeOK
<1>4. \A n \in Active : row[n] # "none"
  BY DEF Active
<1>5. \A c \in Dreamers : \A n \in dream'[c].listed : row'[n] # "none"
  <2> SUFFICES ASSUME NEW c \in Dreamers, NEW n \in dream'[c].listed PROVE row[n] # "none"
    BY <1>1
  <2>1. CASE c = d
    BY <2>1, <1>2, <1>4 DEF GraphInv, TypeOK
  <2>2. CASE c # d
    BY <2>2, <1>2 DEF GraphInv, TypeOK, EdgesSound
  <2> QED
    BY <2>1, <2>2
<1> QED
  BY <1>1, <1>3, <1>5, AsideGraphInv

\* A re-extraction skews the pairs it counts again, and gives a memory all of its
\* edges at once.
LEMMA ReextractGraphInv ==
    ASSUME GraphInv, NEW d \in Dreamers, NEW done \in SUBSET dream[d].listed, ReextractEntities(d, done)
    PROVE  GraphInv'
<1> USE DEF GraphInv
<1> DEFINE mentioning == {m \in done : Mentions[m] # {}}
           Again(p) == {m \in mentioning : p \subseteq Mentions[m]}
           total == [p \in Pairs |-> count[p] + Cardinality(Again(p))]
<1>1. /\ node' = node \cup UNION {Mentions[m] \cup EntitiesOf(Claims[m]) : m \in mentioning}
      /\ edge' = edge \cup UNION {{m} \X Mentions[m] : m \in mentioning}
      /\ count' = total
      /\ weight' = [p \in Pairs |-> IF Again(p) # {} /\ total[p] >= 2 THEN total[p] ELSE weight[p]]
      /\ typed' = typed \cup UNION {Claims[m] : m \in mentioning}
      /\ skewed' = skewed \cup {p \in Pairs : Again(p) # {}}
      /\ dream' = [dream EXCEPT ![d] = [at |-> "rebuild", listed |-> {}]]
      /\ UNCHANGED <<row, thr>>
  BY DEF ReextractEntities, NextRebuild
<1>2. done \subseteq Memories /\ \A m \in done : row[m] # "none"
  BY DEF TypeOK, DreamStates, EdgesSound
<1>3. \A p : IsFiniteSet(Again(p)) /\ Cardinality(Again(p)) \in Nat
  <2> SUFFICES ASSUME NEW p PROVE IsFiniteSet(Again(p))
    BY FS_CardinalityType
  <2>1. Again(p) \subseteq Memories
    BY <1>2
  <2> HIDE DEF Again
  <2> QED
    BY <2>1, FS_Subset, FiniteAssumption
<1>4. ASSUME NEW n \in Memories, NEW x \in Entities
      PROVE  <<n, x>> \in edge' <=> <<n, x>> \in edge \/ (n \in mentioning /\ x \in Mentions[n])
  <2>1. \A c : c \in UNION {{m} \X Mentions[m] : m \in mentioning}
             <=> \E m \in mentioning : c \in {m} \X Mentions[m]
    OBVIOUS
  <2>2. \A m : <<n, x>> \in {m} \X Mentions[m] <=> n = m /\ x \in Mentions[m]
    OBVIOUS
  <2> HIDE DEF mentioning
  <2> QED
    BY <2>1, <2>2, <1>1
<1>5. TypeOK'
  <2>1. node' \subseteq Entities /\ typed' \subseteq Entities \X Entities
    <3>1. \A m \in mentioning : Claims[m] \subseteq Entities \X Entities /\ Mentions[m] \subseteq Entities
      BY <1>2, ClaimsAssumption, MentionsAssumption
    <3>2. \A m \in mentioning : EntitiesOf(Claims[m]) \subseteq Entities
      BY <3>1 DEF EntitiesOf
    <3> HIDE DEF mentioning
    <3> QED
      BY <1>1, <3>1, <3>2 DEF TypeOK
  <2>2. edge' \subseteq Memories \X Entities
    <3>1. \A m \in mentioning : {m} \X Mentions[m] \subseteq Memories \X Entities
      BY <1>2, MentionsAssumption
    <3> HIDE DEF mentioning
    <3> QED
      BY <1>1, <3>1 DEF TypeOK
  <2>3. total \in [Pairs -> Nat]
    <3> HIDE DEF Again
    <3> QED
      BY <1>3 DEF TypeOK
  <2>4. weight' \in [Pairs -> Nat \ {1}]
    <3> HIDE DEF total, Again
    <3> QED
      BY <1>1, <2>3 DEF TypeOK
  <2>5. dream' \in [Dreamers -> DreamStates]
    BY <1>1 DEF TypeOK, DreamStates
  <2> HIDE DEF total, Again
  <2> QED
    BY <1>1, <2>1, <2>2, <2>3, <2>4, <2>5 DEF TypeOK
<1>6. StoresSound' /\ StoresDistinct'
  <2>1. UNCHANGED <<row, thr>>
    BY <1>1
  <2> QED
    BY <2>1 DEF StoresSound, StoreSound, StoresDistinct, Busy, IsAt
<1>7. EdgesSound'
  <2>1. \A n \in Memories, x \in Entities : <<n, x>> \in edge' => row'[n] # "none" /\ x \in Mentions[n]
    BY <1>1, <1>2, <1>4 DEF EdgesSound
  <2>2. \A c \in Dreamers : \A n \in dream'[c].listed : row'[n] # "none"
    BY <1>1 DEF EdgesSound, TypeOK
  <2>3. ASSUME NEW h \in Handlers, Busy(h), NEW x \in Mentions[thr[h].mem] \ thr[h].ids,
               <<thr[h].mem, x>> \in edge', NEW y \in Mentions[thr[h].mem]
        PROVE  <<thr[h].mem, y>> \in edge'
    <3>1. thr[h].mem \in Memories
      BY <2>3 DEF StoresSound, StoreSound
    <3>2. x \in Entities /\ y \in Entities
      BY <3>1, MentionsAssumption
    <3>3. CASE thr[h].mem \in mentioning
      BY <3>1, <3>2, <3>3, <1>4
    <3>4. CASE thr[h].mem \notin mentioning
      <4>1. <<thr[h].mem, x>> \in edge
        BY <2>3, <3>1, <3>2, <3>4, <1>4
      <4>2. <<thr[h].mem, y>> \in edge
        BY <2>3, <4>1 DEF EdgesSound, OthersCameTogether
      <4> QED
        BY <3>1, <3>2, <4>2, <1>4
    <3> QED
      BY <3>3, <3>4
  <2>4. \A h \in Handlers : OthersCameTogether(h)'
    <3>1. thr' = thr
      BY <1>1
    <3> QED
      BY <2>3, <3>1 DEF OthersCameTogether, Busy
  <2> QED
    BY <2>1, <2>2, <2>4 DEF EdgesSound
<1>8. UncountedHasOwnEdges'
  <2> SUFFICES ASSUME NEW h \in Handlers, NEW p \in ToCount(h) \ skewed', NEW x \in p
               PROVE  <<thr[h].mem, x>> \in edge' <=> x \in thr[h].ids
    <3>1. thr' = thr
      BY <1>1
    <3> QED
      BY <3>1 DEF UncountedHasOwnEdges, OwnEdgesOnly, ToCount
  <2>1. Busy(h) /\ p \in Pairs /\ p \subseteq thr[h].ids \cup thr[h].names
    BY ToCountBounds
  <2>2. thr[h].mem \in Memories /\ p \subseteq Mentions[thr[h].mem]
    BY <2>1 DEF StoresSound, StoreSound
  <2>3. thr[h].mem \notin Again(p)
    BY <2>1, <1>1
  <2>4. thr[h].mem \notin mentioning /\ x \in Entities
    BY <2>2, <2>3, MentionsAssumption
  <2> QED
    BY <2>2, <2>4, <1>1, <1>4 DEF UncountedHasOwnEdges, OwnEdgesOnly
<1>9. CountsAreCooccurrences'
  <2> SUFFICES ASSUME NEW p \in Pairs \ skewed'
               PROVE  count'[p] + Cardinality({h \in Handlers : p \in thr[h].pairs})
                        = Cardinality(MentionedTogether(p)')
    BY <1>1 DEF CountsAreCooccurrences
  <2>1. Again(p) = {} /\ p \notin skewed
    BY <1>1
  <2>2. count'[p] = count[p]
    <3>1. Cardinality(Again(p)) = 0
      BY <2>1, FS_EmptySet
    <3>2. count'[p] = count[p] + Cardinality(Again(p))
      BY <1>1
    <3> HIDE DEF Again
    <3> QED
      BY <3>1, <3>2 DEF TypeOK
  <2>3. MentionedTogether(p)' = MentionedTogether(p)
    <3>1. p # {} /\ p \subseteq Entities
      BY PairsMonotone DEF Pairs
    <3>2. ASSUME NEW n \in Memories
          PROVE  (\A x \in p : <<n, x>> \in edge') <=> \A x \in p : <<n, x>> \in edge
      <4>1. CASE n \in mentioning
        <5>1. PICK x \in p : x \notin Mentions[n]
          BY <4>1, <2>1
        <5>2. <<n, x>> \notin edge
          BY <5>1, <3>1 DEF EdgesSound
        <5>3. <<n, x>> \notin edge'
          BY <5>1, <5>2, <3>1, <1>4
        <5> QED
          BY <5>2, <5>3
      <4>2. CASE n \notin mentioning
        BY <4>2, <3>1, <1>4
      <4> QED
        BY <4>1, <4>2
    <3> QED
      BY <3>2 DEF MentionedTogether
  <2> QED
    BY <2>1, <2>2, <2>3 DEF CountsAreCooccurrences
<1> QED
  BY <1>5, <1>6, <1>7, <1>8, <1>9

\* A rebuild counts what the edges say, and skews the pairs that stores are still
\* to count.
LEMMA RebuildGraphInv ==
    ASSUME GraphInv, NEW d \in Dreamers, RebuildGraph(d)
    PROVE  GraphInv'
<1> USE DEF GraphInv
<1> DEFINE together == [p \in Pairs |-> Cardinality(MentionedTogether(p))]
<1>1. /\ count' = together
      /\ weight' = [p \in Pairs |-> IF together[p] >= 2 THEN together[p] ELSE 0]
      /\ skewed' = UNION {ToCount(h) : h \in Handlers}
      /\ dream' = [dream EXCEPT ![d] = Resting]
      /\ UNCHANGED <<row, node, edge, typed, thr>>
  BY DEF RebuildGraph, Rebuilt
<1>2. together \in [Pairs -> Nat]
  BY CountedSetsFinite
<1>3. \A h \in Handlers : ToCount(h) \subseteq skewed' /\ thr[h].pairs \subseteq skewed'
  BY <1>1, ToCountBounds
<1>4. TypeOK'
  <2>1. weight' \in [Pairs -> Nat \ {1}]
    <3> HIDE DEF together
    <3> QED
      BY <1>1, <1>2
  <2>2. skewed' \subseteq Pairs
    BY <1>1, ToCountBounds
  <2>3. Resting \in DreamStates
    BY DEF Resting, DreamStates
  <2>4. dream' \in [Dreamers -> DreamStates]
    BY <1>1, <2>3 DEF TypeOK
  <2> HIDE DEF together
  <2> QED
    BY <1>1, <1>2, <2>1, <2>2, <2>4 DEF TypeOK
<1>5. UNCHANGED <<row, edge, thr>>
  BY <1>1
<1>6. StoresSound' /\ StoresDistinct'
  BY <1>5 DEF StoresSound, StoreSound, StoresDistinct, Busy, IsAt
<1>7. EdgesSound'
  <2>1. \A c \in Dreamers : \A n \in dream'[c].listed : row'[n] # "none"
    BY <1>1 DEF EdgesSound, TypeOK, Resting
  <2> QED
    BY <1>5, <2>1 DEF EdgesSound, OthersCameTogether, Busy
<1>8. UncountedHasOwnEdges'
  BY <1>3, <1>5 DEF UncountedHasOwnEdges, OwnEdgesOnly, ToCount
<1>9. CountsAreCooccurrences'
  <2> SUFFICES ASSUME NEW p \in Pairs \ skewed'
               PROVE  together[p] + Cardinality({h \in Handlers : p \in thr[h].pairs})
                        = Cardinality(MentionedTogether(p))
    BY <1>1 DEF CountsAreCooccurrences, MentionedTogether
  <2>1. {h \in Handlers : p \in thr[h].pairs} = {}
    BY <1>3
  <2>2. Cardinality({h \in Handlers : p \in thr[h].pairs}) = 0
    BY <2>1, FS_EmptySet
  <2>3. Cardinality(MentionedTogether(p)) \in Nat
    BY CountedSetsFinite
  <2> QED
    BY <2>2, <2>3
<1> QED
  BY <1>4, <1>6, <1>7, <1>8, <1>9

-----------------------------------------------------------------------------
(* The theorems *)

\* Every step keeps the inductive invariant, so that every state satisfies it.
THEOREM GraphInvariant == Spec => []GraphInv
<1>1. ASSUME GraphInv, [Next]_vars
      PROVE  GraphInv'
  <2>1. CASE \E h \in Handlers : HandlerStep(h)
    <3>1. PICK h \in Handlers : HandlerStep(h)
      BY <2>1
    <3> QED
      BY <1>1, <3>1, StoreGraphInv, MentionGraphInv, MentionFailsGraphInv, CountPairGraphInv,
         CountFailsGraphInv, RelateGraphInv, InferTypedGraphInv, DieGraphInv DEF HandlerStep
  <2>2. CASE \E d \in Dreamers : DreamStep(d)
    <3>1. PICK d \in Dreamers : DreamStep(d)
      BY <2>2
    <3> QED
      BY <1>1, <3>1, DreamAsideGraphInv, ReextractGraphInv, RebuildGraphInv DEF DreamStep
  <2>3. CASE \E m \in Memories : Supersede(m)
    BY <1>1, <2>3, SupersedeGraphInv
  <2>4. CASE UNCHANGED vars
    <3>1. UNCHANGED <<row, node, edge, count, weight, typed, thr, dream, skewed>>
      BY <2>4 DEF vars, graph
    <3>2. TypeOK'
      BY <1>1, <3>1 DEF GraphInv, TypeOK
    <3>3. \A d \in Dreamers : \A m \in dream'[d].listed : row'[m] # "none"
      BY <1>1, <3>1 DEF GraphInv, EdgesSound
    <3> QED
      BY <1>1, <3>1, <3>2, <3>3, AsideGraphInv
  <2> QED
    BY <1>1, <2>1, <2>2, <2>3, <2>4 DEF Next
<1> QED
  BY <1>1, InitGraphInv, PTL DEF Spec

\* Every variable has its type; no related_to edge has the weight of one memory.
THEOREM TypeCorrect == Spec => []TypeOK
<1>1. GraphInv => TypeOK
  BY DEF GraphInv
<1> QED
  BY <1>1, GraphInvariant, PTL

\* A pair's count is the number of memories that mention it, less the stores that
\* are still to count it.
THEOREM CountsCorrect == Spec => []CountsAreCooccurrences
<1>1. GraphInv => CountsAreCooccurrences
  BY DEF GraphInv
<1> QED
  BY <1>1, GraphInvariant, PTL

-----------------------------------------------------------------------------
(* Pairs counted twice are related *)

\* A pair that is related, or that a store is about to relate.
Attended(p) == weight[p] >= 2 \/ \E h \in Handlers : thr[h].pair = p

\* Steps that do not raise a count, and do not let go of a pair that was counted
\* twice, keep the pairs attended to.
LEMMA AttendedStays ==
    ASSUME CountedTwiceIsRelated, skewed \subseteq skewed',
           \A p \in Pairs \ skewed' :
              /\ count'[p] >= 2 => count[p] >= 2
              /\ Attended(p) /\ count[p] >= 2 => Attended(p)'
    PROVE  CountedTwiceIsRelated'
BY DEF CountedTwiceIsRelated, Attended

\* A step of a handler keeps the pairs attended to: the store that raises a count
\* attends to it, until it has written the edge or the count turns out too small.
LEMMA HandlerStepRelated ==
    ASSUME GraphInv, CountedTwiceIsRelated, NEW h \in Handlers, HandlerStep(h)
    PROVE  CountedTwiceIsRelated'
<1> USE DEF GraphInv
<1>1. thr \in [Handlers -> HandlerStates] /\ StoreSound(h) /\ \A p \in Pairs : p # NoPair
  <2>1. \A p \in Pairs : p # {}
    BY PairsMonotone DEF Pairs
  <2> QED
    BY <2>1 DEF TypeOK, StoresSound, NoPair
<1>2. ASSUME skewed \subseteq skewed', UNCHANGED <<count, weight>>,
             \A g \in Handlers : g # h => thr'[g] = thr[g],
             \A p \in Pairs \ skewed' : thr[h].pair = p /\ count[p] >= 2 => thr'[h].pair = p
      PROVE  CountedTwiceIsRelated'
  <2>1. \A p \in Pairs \ skewed' : Attended(p) /\ count[p] >= 2 => Attended(p)'
    BY <1>2 DEF Attended
  <2> QED
    BY <2>1, <1>2, AttendedStays
<1>3. CASE \E m \in Memories : Store(h, m)
  BY <1>1, <1>2, <1>3 DEF Store, graph, IsAt, StoreSound
<1>4. CASE \E e \in Entities : Mention(h, e) \/ MentionFails(h, e)
  <2>1. /\ skewed \subseteq skewed' /\ UNCHANGED <<count, weight>>
        /\ \A g \in Handlers : g # h => thr'[g] = thr[g]
    BY <1>1, <1>4 DEF Mention, MentionFails
  <2>2. thr'[h].pair = thr[h].pair
    BY <1>1, <1>4 DEF Mention, MentionFails, HandlerStates
  <2> QED
    BY <1>2, <2>1, <2>2
<1>5. CASE \E p \in Pairs : CountPair(h, p)
  <2>1. PICK p \in Pairs : CountPair(h, p)
    BY <1>5
  <2>2. /\ IsAt(h, "entities") /\ count' = [count EXCEPT ![p] = @ + 1] /\ UNCHANGED <<weight, skewed>>
        /\ \A g \in Handlers : g # h => thr'[g] = thr[g]
        /\ thr'[h].pair = p
    BY <1>1, <2>1 DEF CountPair, Counting, HandlerStates
  <2>3. thr[h].pair = NoPair
    BY <1>1, <2>2 DEF StoreSound, IsAt
  <2> SUFFICES ASSUME NEW q \in Pairs \ skewed', count'[q] >= 2
               PROVE  Attended(q)'
    BY DEF CountedTwiceIsRelated, Attended
  <2>4. CASE q = p
    BY <2>2, <2>4 DEF Attended
  <2>5. CASE q # p
    <3>1. count[q] >= 2
      BY <2>2, <2>5 DEF TypeOK
    <3>2. weight[q] >= 2 \/ \E g \in Handlers : thr[g].pair = q
      BY <3>1, <2>2 DEF CountedTwiceIsRelated
    <3> QED
      BY <1>1, <3>2, <2>2, <2>3 DEF Attended
  <2> QED
    BY <2>4, <2>5
<1>6. CASE \E p \in Pairs : CountFails(h, p)
  <2>1. /\ skewed \subseteq skewed' /\ UNCHANGED <<count, weight>>
        /\ \A g \in Handlers : g # h => thr'[g] = thr[g]
    BY <1>1, <1>6 DEF CountFails, graph
  <2>2. thr'[h].pair = thr[h].pair
    BY <1>1, <1>6 DEF CountFails, HandlerStates
  <2> QED
    BY <1>2, <2>1, <2>2
<1>7. CASE ReadCount(h)
  <2>1. /\ UNCHANGED <<count, weight, skewed>>
        /\ \A g \in Handlers : g # h => thr'[g] = thr[g]
    BY <1>1, <1>7 DEF ReadCount, NextPair, graph
  <2>2. count[thr[h].pair] >= 2 => thr'[h].pair = thr[h].pair
    BY <1>1, <1>7 DEF ReadCount, HandlerStates
  <2> QED
    BY <1>2, <2>1, <2>2
<1>8. CASE Relate(h)
  <2>1. /\ thr[h].at = "relate" /\ weight' = [weight EXCEPT ![thr[h].pair] = thr[h].seen]
        /\ UNCHANGED <<count, skewed>>
        /\ \A g \in Handlers : g # h => thr'[g] = thr[g]
    BY <1>1, <1>8 DEF Relate, NextPair, IsAt
  <2>2. thr[h].seen >= 2 /\ thr[h].pair \in Pairs
    BY <1>1, <2>1 DEF StoreSound, IsAt
  <2>3. ASSUME NEW p \in Pairs \ skewed', Attended(p)
        PROVE  Attended(p)'
    <3>1. CASE p = thr[h].pair
      BY <3>1, <2>1, <2>2 DEF Attended, TypeOK
    <3>2. CASE p # thr[h].pair
      BY <3>2, <2>1, <2>2, <2>3 DEF Attended, TypeOK
    <3> QED
      BY <3>1, <3>2
  <2> QED
    BY <2>1, <2>3, AttendedStays
<1>9. CASE RelateFails(h)
  <2>1. /\ skewed' = skewed \cup {thr[h].pair} /\ UNCHANGED <<count, weight>>
        /\ \A g \in Handlers : g # h => thr'[g] = thr[g]
    BY <1>1, <1>9 DEF RelateFails, NextPair, graph
  <2> QED
    BY <1>2, <2>1
<1>10. CASE InferTyped(h)
  <2>1. /\ thr[h].at = "entities" /\ UNCHANGED <<count, weight, skewed>>
        /\ \A g \in Handlers : g # h => thr'[g] = thr[g]
    BY <1>1, <1>10 DEF InferTyped, IsAt
  <2> QED
    BY <1>1, <1>2, <2>1 DEF StoreSound
<1>11. CASE Die(h)
  <2>1. /\ skewed' = skewed \cup thr[h].pairs \cup ({thr[h].pair} \ {NoPair})
        /\ UNCHANGED <<count, weight>>
        /\ \A g \in Handlers : g # h => thr'[g] = thr[g]
    BY <1>1, <1>11 DEF Die, graph
  <2> QED
    BY <1>1, <1>2, <2>1
<1> QED
  BY <1>3, <1>4, <1>5, <1>6, <1>7, <1>8, <1>9, <1>10, <1>11 DEF HandlerStep

\* A transaction of the Dream Cycle relates the pairs it counts twice itself.
LEMMA DreamStepRelated ==
    ASSUME GraphInv, CountedTwiceIsRelated, NEW d \in Dreamers, DreamStep(d)
    PROVE  CountedTwiceIsRelated'
<1> USE DEF GraphInv
<1>1. CASE ListMemories(d) \/ ReextractFails(d) \/ RebuildFails(d)
  BY <1>1 DEF ListMemories, ReextractFails, RebuildFails, graph, CountedTwiceIsRelated
<1>2. CASE \E done \in SUBSET dream[d].listed : ReextractEntities(d, done)
  <2>1. PICK done \in SUBSET dream[d].listed : ReextractEntities(d, done)
    BY <1>2
  <2> DEFINE Again(p) == {m \in {m \in done : Mentions[m] # {}} : p \subseteq Mentions[m]}
             total == [p \in Pairs |-> count[p] + Cardinality(Again(p))]
  <2>2. /\ count' = total
        /\ weight' = [p \in Pairs |-> IF Again(p) # {} /\ total[p] >= 2 THEN total[p] ELSE weight[p]]
        /\ skewed' = skewed \cup {p \in Pairs : Again(p) # {}}
        /\ thr' = thr
    BY <2>1 DEF ReextractEntities
  <2> SUFFICES ASSUME NEW p \in Pairs \ skewed', count'[p] >= 2
               PROVE  weight'[p] >= 2 \/ \E h \in Handlers : thr[h].pair = p
    BY <2>2 DEF CountedTwiceIsRelated
  <2>3. Again(p) = {}
    BY <2>2
  <2>4. count'[p] = count[p] + Cardinality(Again(p)) /\ weight'[p] = weight[p]
    BY <2>2, <2>3
  <2>5. count'[p] = count[p]
    <3>1. Cardinality(Again(p)) = 0
      BY <2>3, FS_EmptySet
    <3> HIDE DEF Again
    <3> QED
      BY <2>4, <3>1 DEF TypeOK
  <2> QED
    BY <2>2, <2>4, <2>5 DEF CountedTwiceIsRelated
<1>3. CASE RebuildGraph(d)
  <2> DEFINE together == [p \in Pairs |-> Cardinality(MentionedTogether(p))]
  <2>1. /\ count' = together
        /\ weight' = [p \in Pairs |-> IF together[p] >= 2 THEN together[p] ELSE 0]
    BY <1>3 DEF RebuildGraph, Rebuilt
  <2> HIDE DEF together
  <2> QED
    BY <2>1 DEF CountedTwiceIsRelated
<1> QED
  BY <1>1, <1>2, <1>3 DEF DreamStep

\* A pair that two memories share has its related_to edge, unless a store is about
\* to write it.
THEOREM RelatedWhenCountedTwice == Spec => []CountedTwiceIsRelated
<1>1. Init => CountedTwiceIsRelated
  BY DEF Init, CountedTwiceIsRelated
<1>2. ASSUME GraphInv, CountedTwiceIsRelated, [Next]_vars
      PROVE  CountedTwiceIsRelated'
  <2>1. CASE \E m \in Memories : Supersede(m)
    BY <1>2, <2>1 DEF Supersede, graph, CountedTwiceIsRelated
  <2>2. CASE UNCHANGED vars
    BY <1>2, <2>2 DEF vars, graph, CountedTwiceIsRelated
  <2> QED
    BY <1>2, <2>1, <2>2, HandlerStepRelated, DreamStepRelated DEF Next
<1> QED
  BY <1>1, <1>2, GraphInvariant, PTL DEF Spec
=============================================================================
