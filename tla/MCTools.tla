------------------------------ MODULE MCTools ------------------------------
(***************************************************************************)
(* Four parts of the gateway that share no state, each with its own        *)
(* clients and faults: the searches of the entity graph, the compaction of *)
(* conversations, the RAG store, the embedders.  A behaviour exercises one *)
(* of them, so that the states add up and do not multiply, and what holds  *)
(* of each holds of any interleaving of the four.                          *)
(***************************************************************************)
EXTENDS GraphSearch, Compaction, Rag, EmbedderChain, TLC

CONSTANTS
    Tools,                    \* the parts that a run exercises
    e1, e2, e3, e4, n1,       \* entities and a memory
    bge, ollama, api          \* embedders

VARIABLE tool

\* e1, e2 and e3 form a cycle, e4 hangs on e3; the memory mentions two of them.
MCPossible == {<<e1, e2>>, <<e2, e3>>, <<e3, e1>>, <<e3, e4>>}
MCTyped == {<<e2, e3>>}
MCMentioned == {<<n1, e2>>, <<n1, e3>>}

\* A long tool result, words, and a content that is not a string.
Utterance(t, isTool, isLong, isText) == [tool |-> isTool, long |-> isLong, text |-> isText, turns |-> {t}]
MCUtterances ==
    <<{Utterance(1, TRUE, TRUE, TRUE)}, {Utterance(2, FALSE, FALSE, TRUE)}, {Utterance(3, FALSE, FALSE, FALSE)}>>

Setting(keep, size, overlap, dry, logs) ==
    [keep |-> keep, size |-> size, overlap |-> overlap, dry |-> dry, logs |-> logs]

\* Defaults for what is absent; a dry run; an overlap that the size does not allow.
MCSettings == {Setting(0, 2, -1, FALSE, TRUE), Setting(1, 3, 0, TRUE, FALSE), Setting(1, 1, 1, FALSE, FALSE)}

\* In chunks of 5 it is cut after the full stop, before a blank.
MCFiles == {<<"x", "x", "x", ".", " ", " ", "x">>}

MCWidth == (bge :> 384) @@ (ollama :> 768) @@ (api :> 384)
MCChains == {<<bge, ollama>>, <<api>>}

\* Handlers of stores and recalls are alike.
MCHandlers == Permutations(Callers)

vars == <<tool, graphVars, compactVars, ragVars, chainVars>>

Init ==
    /\ tool \in Tools
    /\ InitCompact /\ InitRag
    /\ InitSearch /\ (tool # "graph" => edges = {} /\ mentions = {})
    /\ InitChain /\ (tool # "embedders" => alive = {} /\ chain = <<api>>)

Next ==
    /\ UNCHANGED tool
    /\ \/ tool = "graph" /\ NextSearch /\ UNCHANGED <<compactVars, ragVars, chainVars>>
       \/ tool = "compaction" /\ NextCompact /\ UNCHANGED <<graphVars, ragVars, chainVars>>
       \/ tool = "rag" /\ NextRag /\ UNCHANGED <<graphVars, compactVars, chainVars>>
       \/ tool = "embedders" /\ NextChain /\ UNCHANGED <<graphVars, compactVars, ragVars>>

Spec == Init /\ [][Next]_vars
FairSpec == Spec /\ FairCompact /\ FairChain

\* Every part's variables have their types (the parts' own type invariants).
TypeOKTools == TypeOKSearch /\ TypeOKCompact /\ TypeOKRag /\ TypeOKChain
=============================================================================
