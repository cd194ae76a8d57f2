---------------------------- MODULE MCDreamCycle ----------------------------
(* Texts and bounds for model checking DreamCycle.                           *)
EXTENDS DreamCycle, TLC

CONSTANTS m1, m2, m3, s1, w1, w2, w3, w4

\* At a threshold of 60% m2 overlaps m1, from which it has two words of three, and
\* m3 overlaps m2, but not m1: what 13 words do at 92%.
MCSays == (m1 :> [head |-> {w1, w2, w3}, rest |-> {}])
       @@ (m2 :> [head |-> {w1, w2, w4}, rest |-> {}])
       @@ (m3 :> [head |-> {w2}, rest |-> {w4}])

MCArrivals == <<m1, m2, m3>>
MCContradictory == {<<m1, m3>>}
MCAccessed == {m2}
MCMaxAge == [x \in Ids |-> IF x = m1 THEN 2 ELSE IF x \in {m2, s1} THEN 1 ELSE 0]
=============================================================================
