------------------------------ MODULE MCRecall ------------------------------
(* Memories, queries and rankings for model checking Recall.                 *)
EXTENDS Recall, TLC

CONSTANTS m1, m2, x1, h1, h2, home, work, note, rule, fact, both, one, time, t

\* Both memories match the keywords of the only text, a chunk is nearest to its
\* vector, and the graph leads from its entity to m2, which another namespace
\* holds.
MCNamespace == (m1 :> home) @@ (m2 :> work)
MCKind == (m1 :> note) @@ (m2 :> rule)
MCCreated == (m1 :> 1) @@ (m2 :> 2)
MCBoost == (m1 :> 10) @@ (m2 :> 12)
MCMatches == t :> <<m1, m2>>
MCNearest == t :> <<x1, m2, m1>>
MCLinked == t :> ((m1 :> 0) @@ (m2 :> 1))

MCQuery == [text |-> t, ns |-> AnyNs, limit |-> 1, floor |-> 0, without |-> <<>>, at |-> NoTime]

\* A type whose name is two others' with a comma between: nothing has it, and a
\* query that excludes it has the key of one that excludes the two.
MCKinds == {note, rule, fact, both}
MCParts == (note :> <<note>>) @@ (rule :> <<rule>>) @@ (fact :> <<fact>>) @@ (both :> <<rule, fact>>)
MCDigits == 1 :> one
MCStamp == 1 :> time
MCLoose == [MCQuery EXCEPT !.without = <<both>>]
MCStrict == [MCQuery EXCEPT !.without = <<rule, fact>>]

MCFewer == {MCQuery, [MCQuery EXCEPT !.floor = 1, !.at = 1], [MCQuery EXCEPT !.ns = home, !.limit = 2]}
MCQueries == MCFewer \cup {MCLoose, MCStrict}
MCLoads == {[asks |-> (h1 :> {MCLoose}) @@ (h2 :> {MCStrict}), faults |-> 0],
            [asks |-> (h1 :> MCFewer) @@ (h2 :> {}), faults |-> 1]}
MCHomeQuery == {[MCQuery EXCEPT !.ns = home, !.limit = 2]}
MCHomeLoads == {[asks |-> (h1 :> MCHomeQuery) @@ (h2 :> {}), faults |-> 0]}
=============================================================================
