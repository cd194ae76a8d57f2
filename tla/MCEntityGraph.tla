--------------------------- MODULE MCEntityGraph ---------------------------
(* Memories and graph builds for model checking EntityGraph.                 *)
EXTENDS EntityGraph, TLC

CONSTANTS a, b

\* Every memory mentions every entity; each claims the same typed edge.
AllMentioned == [m \in Memories |-> Entities]
SameClaim == [m \in Memories |-> {<<a, b>>}]

StoreSymmetry == Permutations(Memories) \cup Permutations(Handlers)
=============================================================================
