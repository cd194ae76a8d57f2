---------------------------- MODULE MCHnswIndex ----------------------------
(* Constants for model checking HnswIndex: ids sit on a line at positions    *)
(* whose distances from any one of them all differ; two clusters of three,   *)
(* far apart.  A behaviour is that of an index in which deletes are or are   *)
(* not allowed; without them it satisfies GrowSpec.                          *)
EXTENDS HnswIndex

CONSTANT Modes
VARIABLE appendOnly

Position == [i \in 1 .. 6 |-> <<0, 1, 4, 20, 22, 27>>[i]]

MCDist == [a \in Ids |-> [b \in Ids |->
              IF Position[a] > Position[b] THEN Position[a] - Position[b]
                                           ELSE Position[b] - Position[a]]]

\* On a line too: 2 and 3 are equal, as equal texts are.
Tied == [i \in 1 .. 4 |-> <<0, 1, 1, 4>>[i]]
MCTiedDist == [a \in Ids |-> [b \in Ids |-> IF Tied[a] > Tied[b] THEN Tied[a] - Tied[b] ELSE Tied[b] - Tied[a]]]

MCInit == Init /\ appendOnly \in Modes
MCNext == Next /\ (appendOnly => nodes \subseteq nodes') /\ UNCHANGED appendOnly
MCSpec == MCInit /\ [][MCNext]_<<vars, appendOnly>>

\* An index without deletes answers exactly while it is small: SmallIndexIsExact
\* of the behaviours of GrowSpec.
AppendOnlyIsExact == [][appendOnly => ExactWhenSmall]_vars
=============================================================================
