--------------------------- MODULE EmbedderChain ---------------------------
(***************************************************************************)
(* The embedders of the memory store (internal/embedder, getEmbedder in    *)
(* cmd/nyawa/main.go) and what a vector of the wrong width does to stores  *)
(* and recalls (embeddingForInsert and NewStore in internal/store, Search  *)
(* in internal/search).  The chain is used by every handler of the gateway *)
(* and by the health checker without a lock: `current' may change between  *)
(* the comparison with nil and the call, which then panics.                *)
(*                                                                         *)
(* A vector is its width.  Embedders fail and come back at any time; the   *)
(* gateway is started again, maybe with another chain, while the index     *)
(* stays.                                                                  *)
(*                                                                         *)
(* FirstOfAll, AnyWidth, GivesUp and AskNobody are slips of the            *)
(* definitions that follow them, which the properties notice; the          *)
(* specification does not use them.                                        *)
(***************************************************************************)
EXTENDS Integers, Sequences, FiniteSets

CONSTANTS
    Embedders,
    Width,     \* [Embedders -> widths]
    Local,     \* available once their process has reported that it is ready (BGE)
    Api,       \* available whenever they are configured, and check the width
    Chains,    \* chains that the gateway may be started with
    Callers,   \* handlers of stores and recalls
    Health,    \* the health checker
    None

Goroutines == Callers \cup {Health}
Mismatch == -1
Widths == {Width[e] : e \in Embedders}

ASSUME EmbedderAssumption ==
    /\ Width \in [Embedders -> Nat \ {0}]
    /\ Local \cup Api \subseteq Embedders /\ Local \cap Api = {}
    /\ None \notin Embedders
ASSUME ChainAssumption == Chains \subseteq Seq(Embedders) \ {<<>>}
ASSUME GoroutineAssumption == Health \notin Callers

VARIABLES
    up,       \* the gateway runs
    chain,    \* its embedders, by priority
    current,  \* the one it prefers
    ready,    \* Local ones whose process has started; never taken back
    alive,    \* embedders that would answer now
    width,    \* Dim of the index in memory
    indexed,  \* widths of the vectors in the index, and in its file
    call      \* what every goroutine is at

chainVars == <<up, chain, current, ready, alive, width, indexed, call>>

-----------------------------------------------------------------------------
InChain(e) == \E i \in DOMAIN chain : chain[i] = e

IsAvailable(e, started, answering) == IF e \in Local THEN e \in started ELSE e \in Api \/ e \in answering
Available(e) == IsAvailable(e, ready, alive)

Firsts(c, A) == {i \in DOMAIN c : c[i] \in A /\ \A j \in 1..(i - 1) : c[j] \notin A}

\* Whichever is configured, not only the chain's.
FirstOfAll(c, A) == IF A = {} THEN {None} ELSE A

\* The selection of NewPriorityChain, which nobody disturbs, as a set.
FirstAvailable(c, A) == IF \E i \in DOMAIN c : c[i] \in A THEN {c[i] : i \in Firsts(c, A)} ELSE {None}

Dims(c, e) == IF e # None THEN Width[e] ELSE Width[c[1]]

\* kind: "store", "recall", "health"; i: the place in the chain of a selection or
\* a fallback; refused: the last error was a mismatch; odd: something answered, but
\* not with a vector of its width (history); could: embedders that were available
\* and answered all the time since the call began (history); undone: another
\* goroutine has written nil over what the call selected, before it read it back
\* (history).
NoCall == [at |-> "idle", kind |-> "health", i |-> 0, vec |-> 0, refused |-> FALSE,
           odd |-> FALSE, could |-> {}, undone |-> FALSE, result |-> "none"]

InitChain ==
    /\ up = FALSE
    /\ chain \in Chains
    /\ current = None
    /\ ready = {}
    /\ alive \in SUBSET Embedders
    /\ width = Width[chain[1]]
    /\ indexed = {}
    /\ call = [g \in Goroutines |-> NoCall]

-----------------------------------------------------------------------------
(* The surroundings *)

AnyWidth(w) == TRUE
Fits(w) == w = width

\* getEmbedder and NewStore, which refuses a chain whose width is not that of the
\* vectors in the index, and lets an empty index follow the chain.
Start(c) ==
  LET started == {e \in Local : (\E i \in DOMAIN c : c[i] = e) /\ e \in alive} IN
    /\ ~up
    /\ \E active \in FirstAvailable(c, {e \in Embedders : IsAvailable(e, started, alive)}) :
        /\ indexed = {} \/ Dims(c, active) \in indexed
        /\ current' = active
        /\ width' = Dims(c, active)
    /\ up' = TRUE
    /\ chain' = c
    /\ ready' = started
    /\ call' = [g \in Goroutines |-> IF g = Health THEN [NoCall EXCEPT !.at = "look"] ELSE NoCall]
    /\ UNCHANGED <<alive, indexed>>

Down ==
    /\ up' = FALSE
    /\ current' = None
    /\ ready' = {}
    /\ call' = [g \in Goroutines |-> NoCall]
    /\ UNCHANGED <<chain, alive, width, indexed>>

Stop == up /\ Down

Fails(e) ==
    /\ e \in alive
    /\ alive' = alive \ {e}
    /\ call' = [g \in Goroutines |-> [call[g] EXCEPT !.could = @ \ {e}]]
    /\ UNCHANGED <<up, chain, current, ready, width, indexed>>

\* A local process is not started again by a gateway that runs.
Recovers(e) ==
    /\ e \notin alive
    /\ ~(up /\ e \in Local)
    /\ alive' = alive \cup {e}
    /\ UNCHANGED <<up, chain, current, ready, width, indexed, call>>

-----------------------------------------------------------------------------
(* The chain *)

Goes(g, c) == call' = [call EXCEPT ![g] = c]
Elsewhere == UNCHANGED <<up, chain, ready, alive, width, indexed>>

Begin(g, kind) ==
    /\ up
    /\ g \in Callers
    /\ call[g].at = "idle"
    /\ Goes(g, [NoCall EXCEPT !.at = IF kind = "store" THEN "look" ELSE "embed", !.kind = kind,
                              !.could = {e \in alive : InChain(e) /\ Available(e)}])
    /\ Elsewhere /\ UNCHANGED current

\* Every use of `current' reads it anew; a nil is dereferenced in the handlers'
\* goroutines, whose panics the HTTP server recovers, or in the health checker's.
Panic(g) ==
    /\ call[g].at \in {"probe", "name", "probeEmbed", "try"}
    /\ current = None
    /\ IF g = Health THEN Down
       ELSE Goes(g, [NoCall EXCEPT !.kind = call[g].kind, !.result = "panic"]) /\ Elsewhere /\ UNCHANGED current

Selects(c) == [c EXCEPT !.at = "select", !.i = 1]
Selected(c) == [c EXCEPT !.at = "report", !.i = 0]

\* HealthCheck: what is current is kept as long as it is available.
Look(g) ==
    /\ call[g].at = "look"
    /\ Goes(g, IF current # None THEN [call[g] EXCEPT !.at = "probe"] ELSE Selects(call[g]))
    /\ Elsewhere /\ UNCHANGED current

Probe(g) ==
    /\ call[g].at = "probe"
    /\ current # None
    /\ Goes(g, IF Available(current) THEN [call[g] EXCEPT !.at = "name"] ELSE Selects(call[g]))
    /\ Elsewhere /\ UNCHANGED current

AskNobody(g) ==
    /\ call[g].at = "select"
    /\ Goes(g, Selected(call[g]))
    /\ Elsewhere /\ UNCHANGED current

\* selectActive: one embedder after the other is asked, and what was found, or nil,
\* is written at the end, over whatever others have written meanwhile.
AskInTurn(g) ==
    /\ call[g].at = "select"
    /\ call[g].i \in DOMAIN chain
    /\ Goes(g, IF Available(chain[call[g].i]) THEN [call[g] EXCEPT !.at = "prefer"] ELSE [call[g] EXCEPT !.i = @ + 1])
    /\ Elsewhere /\ UNCHANGED current

Prefer(g) ==
    /\ call[g].at = "prefer"
    /\ current' = chain[call[g].i]
    /\ Goes(g, Selected(call[g]))
    /\ Elsewhere

PreferNone(g) ==
    /\ call[g].at = "select"
    /\ call[g].i \notin DOMAIN chain
    /\ current' = None
    /\ call' = [h \in Goroutines |-> IF h = g THEN Selected(call[h])
                                   ELSE [call[h] EXCEPT !.undone = @ \/ call[h].at = "report"]]
    /\ Elsewhere

\* What is still told of a call that has ended.
Ended(c, result) ==
    IF result = "keyword" THEN [NoCall EXCEPT !.kind = c.kind, !.result = result, !.odd = c.odd,
                                             !.could = c.could, !.undone = c.undone]
    ELSE [NoCall EXCEPT !.kind = c.kind, !.result = result]

\* The checker looks again at its next tick; a store without an embedder goes on
\* with the keywords alone.
Checked(g, ok) ==
    Goes(g, IF g = Health THEN [NoCall EXCEPT !.at = "look"]
            ELSE IF ok THEN [call[g] EXCEPT !.at = "embed"]
            ELSE Ended(call[g], "keyword"))

Report(g) ==
    /\ call[g].at = "report"
    /\ IF current # None THEN Goes(g, [call[g] EXCEPT !.at = "name"]) ELSE Checked(g, FALSE)
    /\ Elsewhere /\ UNCHANGED current

Name(g) ==
    /\ call[g].at = "name"
    /\ current # None
    /\ Checked(g, TRUE)
    /\ Elsewhere /\ UNCHANGED current

\* Embed: the current one if it is available, else the chain from its start.
LookToEmbed(g) ==
    /\ call[g].at = "embed"
    /\ Goes(g, IF current # None THEN [call[g] EXCEPT !.at = "probeEmbed"] ELSE [call[g] EXCEPT !.at = "fall", !.i = 1])
    /\ Elsewhere /\ UNCHANGED current

ProbeToEmbed(g) ==
    /\ call[g].at = "probeEmbed"
    /\ current # None
    /\ Goes(g, IF Available(current) THEN [call[g] EXCEPT !.at = "try"] ELSE [call[g] EXCEPT !.at = "fall", !.i = 1])
    /\ Elsewhere /\ UNCHANGED current

\* What e answers: an error, a vector of its width; an API's of another width is
\* an error of its own; what is neither may send an empty one.
Answers(e) ==
    IF e \notin alive THEN {}
    ELSE {Width[e]} \cup (IF e \in Api THEN {Mismatch} ELSE IF e \in Local THEN {} ELSE {0})

Noted(c, e, w) == [c EXCEPT !.odd = @ \/ w # Width[e]]

Try(g) ==
    /\ call[g].at = "try"
    /\ current # None
    /\ \/ /\ Answers(current) = {}
          /\ Goes(g, [call[g] EXCEPT !.at = "fall", !.i = 1])
       \/ \E w \in Answers(current) :
            Goes(g, LET c == Noted(call[g], current, w) IN
                    IF w = Mismatch THEN [c EXCEPT !.at = "fall", !.i = 1] ELSE [c EXCEPT !.at = "vector", !.vec = w])
    /\ Elsewhere /\ UNCHANGED current

GoesOn(c) == [c EXCEPT !.at = "fall", !.i = @ + 1]

\* The first embedder that is not available ends the search.
GivesUp(g) ==
    /\ call[g].at = "fall"
    /\ call[g].i \in DOMAIN chain
    /\ Goes(g, IF Available(chain[call[g].i]) THEN [call[g] EXCEPT !.at = "ask"] ELSE [call[g] EXCEPT !.i = Len(chain) + 1])
    /\ Elsewhere /\ UNCHANGED current

\* tryFallback: the first in the chain that is available and answers becomes the
\* current one; of the errors the last one counts.
Fall(g) ==
    /\ call[g].at = "fall"
    /\ call[g].i \in DOMAIN chain
    /\ Goes(g, IF Available(chain[call[g].i]) THEN [call[g] EXCEPT !.at = "ask"] ELSE GoesOn(call[g]))
    /\ Elsewhere /\ UNCHANGED current

AskToFall(g) ==
  LET e == chain[call[g].i] IN
    /\ call[g].at = "ask"
    /\ \/ Answers(e) = {} /\ Goes(g, [GoesOn(call[g]) EXCEPT !.refused = FALSE])
       \/ Mismatch \in Answers(e) /\ Goes(g, [GoesOn(Noted(call[g], e, Mismatch)) EXCEPT !.refused = TRUE])
       \/ \E w \in Answers(e) \ {Mismatch} : Goes(g, [Noted(call[g], e, w) EXCEPT !.at = "adopt", !.vec = w])
    /\ Elsewhere /\ UNCHANGED current

Adopt(g) ==
    /\ call[g].at = "adopt"
    /\ current' = chain[call[g].i]
    /\ Goes(g, [call[g] EXCEPT !.at = "vector", !.i = 0, !.refused = FALSE])
    /\ Elsewhere

Done(g, result) == Goes(g, Ended(call[g], result))

\* Embed returns an error: a store goes on without a vector unless the width was
\* wrong, a recall always does.
NoVector(g) ==
    /\ call[g].at = "fall"
    /\ call[g].i \notin DOMAIN chain
    /\ Done(g, IF call[g].kind = "store" /\ call[g].refused THEN "refused" ELSE "keyword")
    /\ Elsewhere /\ UNCHANGED current

\* The store validates the vector before it writes anything.
Stores(g) ==
  LET c == call[g] IN
    /\ c.at = "vector" /\ c.kind = "store"
    /\ Done(g, IF c.vec = 0 THEN "keyword" ELSE IF Fits(c.vec) THEN "stored" ELSE "refused")
    /\ indexed' = IF c.vec # 0 /\ Fits(c.vec) THEN indexed \cup {c.vec} ELSE indexed
    /\ UNCHANGED <<up, chain, current, ready, alive, width>>

\* The index answers when it is empty and refuses a vector of another width.
Recalls(g) ==
  LET c == call[g] IN
    /\ c.at = "vector" /\ c.kind = "recall"
    /\ Done(g, IF c.vec = 0 THEN "keyword" ELSE IF indexed = {} \/ Fits(c.vec) THEN "hybrid" ELSE "refused")
    /\ Elsewhere /\ UNCHANGED current

-----------------------------------------------------------------------------
SelectActive(g) == AskInTurn(g) \/ Prefer(g) \/ PreferNone(g)
HealthCheck(g) == Look(g) \/ Probe(g) \/ SelectActive(g) \/ Report(g) \/ Name(g)
Embed(g) == LookToEmbed(g) \/ ProbeToEmbed(g) \/ Try(g) \/ Fall(g) \/ AskToFall(g) \/ Adopt(g) \/ NoVector(g)

NextChain ==
    \/ \E c \in Chains : Start(c)
    \/ Stop
    \/ \E e \in Embedders : Fails(e) \/ Recovers(e)
    \/ \E g \in Callers : \E kind \in {"store", "recall"} : Begin(g, kind)
    \/ \E g \in Goroutines : HealthCheck(g) \/ Panic(g)
    \/ \E g \in Callers : Embed(g) \/ Stores(g) \/ Recalls(g)

SpecChain == InitChain /\ [][NextChain]_chainVars

\* The health checker goes on, to the next tick or to its panic.
FairChain == WF_chainVars(HealthCheck(Health) \/ Panic(Health))

-----------------------------------------------------------------------------
(* Properties *)

Calls ==
    [at : {"idle", "look", "probe", "select", "prefer", "report", "name",
           "embed", "probeEmbed", "try", "fall", "ask", "adopt", "vector"},
     kind : {"store", "recall", "health"}, i : Nat, vec : Widths \cup {0}, refused : BOOLEAN, odd : BOOLEAN,
     could : SUBSET Embedders, undone : BOOLEAN, result : {"none", "keyword", "stored", "hybrid", "refused", "panic"}]

\* Every variable has its type; the current embedder is one of the chain's.
TypeOKChain ==
    /\ up \in BOOLEAN
    /\ chain \in Chains
    /\ current = None \/ InChain(current)
    /\ ready \subseteq Local /\ alive \subseteq Embedders
    /\ width \in Widths /\ indexed \subseteq Widths
    /\ call \in [Goroutines -> Calls]

\* Through failures, fallbacks and restarts with another chain, the vectors of the
\* index keep one width, that of the index while the gateway runs
\* (hnsw.go:145-216, sqlite.go:290-312).
IndexHasOneWidth ==
    /\ Cardinality(indexed) <= 1
    /\ up /\ indexed # {} => indexed = {width}

\* A store or a recall does without a vector only if every embedder of the chain
\* was unavailable or failed at some time during the call, or one has answered
\* with something else: whichever answers all along is found, though other calls
\* and the health checker change the current one meanwhile.  There is one way to
\* miss it, and only for a store: a goroutine that asked the embedders before the
\* call began writes its nil between the store's selection and its reading back
\* (interface.go:32-79).
NoEmbedderIsPassedOver ==
    \A g \in Callers : call[g].result = "keyword" =>
        call[g].could = {} \/ call[g].odd \/ (call[g].undone /\ call[g].kind = "store")

\* While the gateway runs on and some embedder of the chain stays available, the
\* chain comes to have a current one and keeps one (health.go:25-46,
\* interface.go:59-79).
AvailableIsAdopted ==
    <>[](up /\ \E e \in Embedders : InChain(e) /\ Available(e)) => <>[](current # None)

\* README.md:144: "Nyawa falls back to FTS5 keyword-only search when no compatible
\* embedder is available".
RecallFallsBack == \A g \in Callers : call[g].kind = "recall" => call[g].result # "refused"
=============================================================================
