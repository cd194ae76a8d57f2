---------------------------- MODULE Compaction ----------------------------
(***************************************************************************)
(* Context compaction: internal/compact and the handlers of POST           *)
(* /v1/compact and of the MCP tool.  A client keeps a conversation, sends  *)
(* it, and goes on with the block it gets back, which the next compaction  *)
(* summarises in turn.  Every segment is summarised by a call of its own,  *)
(* which may fail; then the summary and a line of the log are written, and *)
(* either write may fail without the client being told.  A client that has *)
(* waited for too long gives up and may send the conversation again, while *)
(* the handler goes on with the first request.                             *)
(*                                                                         *)
(* A message is told apart by what may happen to it and by the turns of    *)
(* the conversation that can still be learnt from it.  A summary tells     *)
(* what its segment tells, unless the model has answered with nothing.     *)
(*                                                                         *)
(* SegmentsTail, StepTooShort, WholeSegments and IdsAnyway are slips of    *)
(* the definitions that follow them, which the properties notice; the      *)
(* specification does not use them.                                        *)
(***************************************************************************)
EXTENDS Integers, Sequences, FiniteSets

CONSTANTS
    MaxTurns,     \* bound: things said
    Utterances,   \* Utterances[t]: messages that turn t may be, turns = {t}
    Settings,     \* records [keep, size, overlap, dry, logs] of requests, 0 (or a
                  \* negative overlap) for the default; logs: they name a session
    DefaultKeep, DefaultSize, DefaultOverlap,
    Requests,
    NoRequest

Turns == 1..MaxTurns
MessageRecords == [tool : BOOLEAN, long : BOOLEAN, text : BOOLEAN, turns : SUBSET Turns]

ASSUME TurnAssumption == MaxTurns \in Nat
ASSUME UtteranceAssumption == \A t \in Turns : \A u \in Utterances[t] : u \in MessageRecords /\ u.turns = {t}
ASSUME SettingAssumption ==
    Settings \subseteq [keep : Nat, size : Nat, overlap : Int, dry : BOOLEAN, logs : BOOLEAN]
ASSUME DefaultAssumption ==
    /\ {DefaultKeep, DefaultSize} \subseteq Nat \ {0}
    /\ DefaultOverlap \in Nat
ASSUME RequestAssumption == NoRequest \notin Requests

VARIABLES
    talk,       \* the client's conversation
    waiting,    \* the request it waits for
    req,        \* requests
    kept,       \* requests under way whose summary is stored as a memory
    logged,     \* and those that the log names
    said,       \* history: turns said
    forgotten   \* history: turns that pruning, parsing or an empty summary has lost

compactVars == <<talk, waiting, req, kept, logged, said, forgotten>>

-----------------------------------------------------------------------------
TurnsOf(s) == UNION {s[i].turns : i \in DOMAIN s}
Smaller(a, b) == IF a < b THEN a ELSE b

\* start: messages before the next segment; told: what the summaries so far tell;
\* lost: what has been lost so far; noop: the answer is the conversation.
NoRequestYet == [at |-> "idle", msgs |-> <<>>, keep |-> 0, size |-> 0, overlap |-> 0, dry |-> FALSE, logs |-> FALSE,
                 start |-> 0, told |-> {}, lost |-> {}, noop |-> FALSE, ids |-> {}, out |-> <<>>]

InitCompact ==
    /\ talk = <<>>
    /\ waiting = NoRequest
    /\ req = [r \in Requests |-> NoRequestYet]
    /\ kept = {}
    /\ logged = {}
    /\ said = {}
    /\ forgotten = {}

\* A content that is not a string becomes an empty one.
FromOpenAI(m) == IF m.text THEN m ELSE [m EXCEPT !.text = TRUE, !.long = FALSE, !.turns = {}]
PruneToolResult(m) == IF m.tool /\ m.long THEN [m EXCEPT !.long = FALSE, !.turns = {}] ELSE m

Parsed(s) == [i \in DOMAIN s |-> FromOpenAI(s[i])]
Pruned(s) == [i \in DOMAIN s |-> PruneToolResult(s[i])]

Plain(turns) == [tool |-> FALSE, long |-> FALSE, text |-> TRUE, turns |-> turns]

\* Boundary, summary, continuation.
BuildSummaryBlock(told) == <<Plain({}), Plain(told), Plain({})>>

Resolved(n, default) == IF n <= 0 THEN default ELSE n
ResolvedOverlap(n) == IF n < 0 THEN DefaultOverlap ELSE n

-----------------------------------------------------------------------------
(* The client *)

Say(t, u) ==
    /\ waiting = NoRequest
    /\ t \notin said /\ 1..(t - 1) \subseteq said
    /\ talk' = Append(talk, u)
    /\ said' = said \cup {t}
    /\ UNCHANGED <<waiting, req, kept, logged, forgotten>>

\* It gives up, and may ask again.
GiveUp ==
    /\ waiting # NoRequest
    /\ waiting' = NoRequest
    /\ UNCHANGED <<talk, req, kept, logged, said, forgotten>>

\* An answer that it still waits for becomes its conversation; any other is lost.
Receive(r) ==
    /\ req[r].at = "reply"
    /\ IF waiting = r
       THEN talk' = req[r].out /\ forgotten' = forgotten \cup req[r].lost /\ waiting' = NoRequest
       ELSE UNCHANGED <<talk, forgotten, waiting>>
    /\ req' = [req EXCEPT ![r] = NoRequestYet]
    /\ kept' = kept \ {r}
    /\ logged' = logged \ {r}
    /\ UNCHANGED said

-----------------------------------------------------------------------------
(* The handler *)

SegmentsTail(n, keep, size, overlap) == size >= 1 /\ overlap >= 0 /\ overlap < size /\ keep <= n
MaySegment(n, keep, size, overlap) == size >= 1 /\ overlap >= 0 /\ overlap < size /\ keep < n

\* Parse, prune and segment; nothing to segment is answered with what was parsed.
Compact(r, s) ==
  LET msgs == Parsed(talk)
      keep == Resolved(s.keep, DefaultKeep)
      size == Resolved(s.size, DefaultSize)
      overlap == ResolvedOverlap(s.overlap)
      asked == [NoRequestYet EXCEPT !.keep = keep, !.size = size, !.overlap = overlap, !.dry = s.dry, !.logs = s.logs]
  IN
    /\ waiting = NoRequest
    /\ req[r].at = "idle"
    /\ talk # <<>>
    /\ waiting' = r
    /\ req' = [req EXCEPT ![r] =
                 IF MaySegment(Len(talk), keep, size, overlap)
                 THEN [asked EXCEPT !.at = "summarize", !.msgs = Pruned(msgs),
                                    !.lost = TurnsOf(talk) \ TurnsOf(Pruned(msgs))]
                 ELSE [asked EXCEPT !.at = "reply", !.noop = TRUE, !.out = msgs,
                                    !.lost = TurnsOf(talk) \ TurnsOf(msgs)]]
    /\ UNCHANGED <<talk, kept, logged, said, forgotten>>

Segmentable(q) == Len(q.msgs) - q.keep
SegmentEnd(q) == Smaller(q.start + q.size, Segmentable(q))

StepTooShort(q) == q.size - q.overlap - 1
Step(q) == IF q.size - q.overlap < 1 THEN 1 ELSE q.size - q.overlap

\* The rest that fills no segment is left out.
WholeSegments(q) == q.start + Step(q) + q.size > Segmentable(q)
LastSegment(q) == SegmentEnd(q) = Segmentable(q)

RecentTail(q) == SubSeq(q.msgs, Len(q.msgs) - q.keep + 1, Len(q.msgs))

\* The summary of the next segment is the model's, or the segment itself when the
\* call fails; the model may answer with nothing.
SummarizeSegment(r) ==
  LET q == req[r]
      segment == UNION {q.msgs[i].turns : i \in (q.start + 1)..SegmentEnd(q)}
  IN
    /\ q.at = "summarize"
    /\ \E empty \in BOOLEAN :
        req' = [req EXCEPT ![r] =
          [q EXCEPT !.told = IF empty THEN @ ELSE @ \cup segment,
                    !.lost = IF empty THEN @ \cup segment ELSE @,
                    !.at = IF ~LastSegment(q) THEN @ ELSE IF q.dry THEN "answer" ELSE "store",
                    !.start = IF LastSegment(q) THEN @ ELSE @ + Step(q)]]
    /\ UNCHANGED <<talk, waiting, kept, logged, said, forgotten>>

IdsAnyway(stored, r) == {r}
Ids(stored, r) == IF stored THEN {r} ELSE {}

\* InsertMemory; a failure is passed over.
StoreSummary(r) ==
    /\ req[r].at = "store"
    /\ \E stored \in BOOLEAN :
        /\ kept' = IF stored THEN kept \cup {r} ELSE kept
        /\ req' = [req EXCEPT ![r].ids = Ids(stored, r), ![r].at = IF req[r].logs THEN "log" ELSE "answer"]
    /\ UNCHANGED <<talk, waiting, logged, said, forgotten>>

\* InsertMemory panics on a dangling link of the index: the client gets an error and
\* keeps its conversation, and a row that was written belongs to no answer.
InsertPanics(r) ==
    /\ req[r].at = "store"
    /\ req' = [req EXCEPT ![r] = NoRequestYet]
    /\ waiting' = IF waiting = r THEN NoRequest ELSE waiting
    /\ UNCHANGED <<talk, kept, logged, said, forgotten>>

\* LogCompaction, whether the summary was stored or not; a failure is passed over.
Log(r) ==
    /\ req[r].at = "log"
    /\ logged' \in {logged, logged \cup {r}}
    /\ req' = [req EXCEPT ![r].at = "answer"]
    /\ UNCHANGED <<talk, waiting, kept, said, forgotten>>

Answer(r) ==
    /\ req[r].at = "answer"
    /\ req' = [req EXCEPT ![r].at = "reply", ![r].out = BuildSummaryBlock(req[r].told) \o RecentTail(req[r])]
    /\ UNCHANGED <<talk, waiting, kept, logged, said, forgotten>>

-----------------------------------------------------------------------------
Handle(r) == SummarizeSegment(r) \/ StoreSummary(r) \/ Log(r) \/ Answer(r)

NextCompact ==
    \/ \E t \in Turns : \E u \in Utterances[t] : Say(t, u)
    \/ GiveUp
    \/ \E r \in Requests : Handle(r) \/ InsertPanics(r) \/ Receive(r) \/ \E s \in Settings : Compact(r, s)

SpecCompact == InitCompact /\ [][NextCompact]_compactVars

\* Calls of the model and writes come back, with an answer or an error.
FairCompact == \A r \in Requests : WF_compactVars(Handle(r))

-----------------------------------------------------------------------------
(* Properties *)

\* Every variable has its type, and a request that is under way has a segment
\* to start at.
TypeOKCompact ==
    /\ talk \in Seq(MessageRecords)
    /\ waiting \in Requests \cup {NoRequest}
    /\ kept \subseteq Requests /\ logged \subseteq Requests
    /\ said \subseteq Turns /\ forgotten \subseteq Turns
    /\ req \in [Requests ->
         [at : {"idle", "summarize", "store", "log", "answer", "reply"}, msgs : Seq(MessageRecords),
          keep : Nat, size : Nat, overlap : Nat, dry : BOOLEAN, logs : BOOLEAN, start : Nat,
          told : SUBSET Turns, lost : SUBSET Turns, noop : BOOLEAN, ids : SUBSET Requests,
          out : Seq(MessageRecords)]]
    /\ \A r \in Requests : req[r].at = "summarize" => req[r].start < Segmentable(req[r])

\* Whatever was said can still be learnt from the conversation, after any number
\* of compactions of compactions, of failed calls and of answers given up on: from
\* a message, or from a summary of the segments it was in, unless it was a tool
\* result that was pruned, not a string, or the model answered with nothing
\* (compact.go:80-112, compact_handler.go:94-133).
NothingIsDropped == said \subseteq TurnsOf(talk) \cup forgotten

\* An answer names a memory only if it was stored, and a dry run names none and
\* writes nothing (compact_handler.go:153-176).
AnswersNameStored ==
    \A r \in Requests : req[r].at # "idle" =>
        /\ req[r].ids \subseteq kept
        /\ req[r].dry => req[r].ids = {} /\ req[r].at \notin {"store", "log"}

\* Compaction "must never hard-fail" (summarize.go:134): every request comes to an
\* answer, whatever overlap and size it asks for.
EveryRequestIsAnswered == \A r \in Requests : req[r].at # "idle" ~> req[r].at \in {"reply", "idle"}
=============================================================================
