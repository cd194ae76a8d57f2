----------------------------- MODULE MCVectors -----------------------------
(***************************************************************************)
(* The vectors of one gateway from the inside, the links of its index, and *)
(* from the outside, the memories they belong to and the file they are     *)
(* saved in.  The two share no variable, as an index is a set of ids to    *)
(* MemoryStore: a behaviour exercises one of them, so that the states add  *)
(* up and do not multiply.                                                 *)
(***************************************************************************)
EXTENDS MCHnswIndex, MemoryStore, TLC

CONSTANTS gateway, handler1, handler2, dream

VARIABLE part

MCHome == [t \in Threads |-> gateway]
HandlersAndDream ==
    [t \in Threads |-> IF t = dream THEN {"evict", "dedup"} ELSE {"store", "forget"}]

VectorsInit ==
    /\ part \in {"links", "memories"}
    /\ MCInit /\ (part = "memories" => appendOnly)
    /\ InitStore

VectorsNext ==
    /\ UNCHANGED part
    /\ \/ part = "links" /\ MCNext /\ UNCHANGED storeVars
       \/ part = "memories" /\ NextStore /\ UNCHANGED <<vars, appendOnly>>

VectorsSpec == VectorsInit /\ [][VectorsNext]_<<part, vars, appendOnly, storeVars>>

\* Every variable of either part has its type (the parts' own type invariants).
TypeOKVectors == TypeOK /\ TypeOKStore

MemorySymmetry == Permutations(Memories)
=============================================================================
