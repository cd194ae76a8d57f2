---------------------------- MODULE ToolsProofs ----------------------------
(*****************************************************************************)
(* Proofs about two parts of the gateway (the two others have modules of     *)
(* their own, GraphSearchProofs and RagProofs): Compaction, for              *)
(* conversations of any length, any settings of requests and any number of   *)
(* them; EmbedderChain, for any embedders, widths, chains and number of      *)
(* handlers; and the parts together, a behaviour of which is one of each.    *)
(*                                                                           *)
(* NothingIsDropped speaks of the client alone; it is inductive together     *)
(* with what the request that the client waits for will still tell: the      *)
(* summaries so far, what has been lost, and the messages from the next      *)
(* segment on (Carries).  The segments overlap and never leave a gap         *)
(* because a step is at most a segment long.                                 *)
(*                                                                           *)
(* ChainInv makes NoEmbedderIsPassedOver inductive: an embedder that a       *)
(* call can count on is alive and available; a selection and a fallback have *)
(* passed none, so that a nil that the call reads back after its selection   *)
(* is another goroutine's, written over what the call selected (undone).     *)
(*****************************************************************************)
EXTENDS MCTools, GraphSearchProofs, RagProofs, FiniteSetTheorems, TLAPS

-----------------------------------------------------------------------------
(* Compaction *)

\* What the messages of s from place i on tell.
Rest(s, i) == UNION {s[k].turns : k \in {j \in DOMAIN s : j >= i}}

RequestRecords ==
    [at : {"idle", "summarize", "store", "log", "answer", "reply"}, msgs : Seq(MessageRecords),
     keep : Nat, size : Nat, overlap : Nat, dry : BOOLEAN, logs : BOOLEAN, start : Nat,
     told : SUBSET Turns, lost : SUBSET Turns, noop : BOOLEAN, ids : SUBSET Requests,
     out : Seq(MessageRecords)]

Handled == {"summarize", "store", "log", "answer"}

Shape(q) ==
    /\ q.at \in Handled => q.size >= 1 /\ q.keep < Len(q.msgs)
    /\ q.at = "summarize" => q.start < Segmentable(q)

Carries(q) ==
    CASE q.at = "summarize" -> q.told \cup q.lost \cup Rest(q.msgs, q.start + 1)
      [] q.at \in {"store", "log", "answer"} -> q.told \cup q.lost \cup Rest(q.msgs, Segmentable(q) + 1)
      [] q.at = "reply" -> TurnsOf(q.out) \cup q.lost
      [] OTHER -> Turns

Names(r) ==
    req[r].at # "idle" =>
        /\ req[r].ids \subseteq kept /\ req[r].ids \subseteq {r}
        /\ req[r].dry => req[r].ids = {} /\ req[r].at \notin {"store", "log"}

TypeInv ==
    /\ talk \in Seq(MessageRecords)
    /\ waiting \in Requests \cup {NoRequest}
    /\ kept \subseteq Requests /\ logged \subseteq Requests
    /\ said \subseteq Turns /\ forgotten \subseteq Turns
    /\ req \in [Requests -> RequestRecords]

CompactInv ==
    /\ TypeInv
    /\ NothingIsDropped
    /\ \A r \in Requests : Shape(req[r]) /\ Names(r)
    /\ waiting # NoRequest => TurnsOf(talk) \subseteq Carries(req[waiting])

-----------------------------------------------------------------------------
(* Messages *)

\* A conversation tells turns.
LEMMA TurnsTyped ==
    ASSUME NEW s \in Seq(MessageRecords)
    PROVE  /\ TurnsOf(s) \subseteq Turns
           /\ \A i \in DOMAIN s : s[i] \in MessageRecords /\ s[i].turns \subseteq Turns
           /\ DOMAIN s = 1..Len(s) /\ Len(s) \in Nat
<1>1. /\ \A i \in DOMAIN s : s[i] \in MessageRecords
      /\ DOMAIN s = 1..Len(s) /\ Len(s) \in Nat
  OBVIOUS
<1>2. \A m \in MessageRecords : m.turns \subseteq Turns
  BY DEF MessageRecords
<1> QED
  BY <1>1, <1>2 DEF TurnsOf

\* Two conversations one after the other tell what each of them tells.
LEMMA TurnsOfConcat ==
    ASSUME NEW s \in Seq(MessageRecords), NEW t \in Seq(MessageRecords)
    PROVE  s \o t \in Seq(MessageRecords) /\ TurnsOf(s \o t) = TurnsOf(s) \cup TurnsOf(t)
<1>1. /\ s \o t \in Seq(MessageRecords) /\ Len(s \o t) = Len(s) + Len(t)
      /\ DOMAIN (s \o t) = 1..(Len(s) + Len(t))
      /\ DOMAIN s = 1..Len(s) /\ DOMAIN t = 1..Len(t) /\ Len(s) \in Nat /\ Len(t) \in Nat
      /\ \A i \in 1..Len(s) : (s \o t)[i] = s[i]
  OBVIOUS
<1>2. \A i \in 1..Len(t) : (s \o t)[Len(s) + i] = t[i] /\ Len(s) + i \in DOMAIN (s \o t)
  BY <1>1
<1>3. \A i \in DOMAIN (s \o t) : i \in DOMAIN s \/ \E j \in DOMAIN t : i = Len(s) + j
  <2> SUFFICES ASSUME NEW i \in DOMAIN (s \o t), i \notin DOMAIN s
               PROVE  \E j \in DOMAIN t : i = Len(s) + j
    OBVIOUS
  <2>1. i - Len(s) \in 1..Len(t) /\ i = Len(s) + (i - Len(s))
    BY <1>1
  <2> QED
    BY <1>1, <2>1
<1>4. \A i \in DOMAIN s : i \in DOMAIN (s \o t) /\ (s \o t)[i] = s[i]
  BY <1>1
<1>5. TurnsOf(s) \subseteq TurnsOf(s \o t)
  BY <1>4 DEF TurnsOf
<1>6. TurnsOf(t) \subseteq TurnsOf(s \o t)
  BY <1>1, <1>2 DEF TurnsOf
<1>7. TurnsOf(s \o t) \subseteq TurnsOf(s) \cup TurnsOf(t)
  BY <1>1, <1>2, <1>3, <1>4 DEF TurnsOf
<1> QED
  BY <1>1, <1>5, <1>6, <1>7

\* The tail of a conversation tells what is told from its first place on.
LEMMA TurnsOfTail ==
    ASSUME NEW s \in Seq(MessageRecords), NEW k \in Nat, k < Len(s)
    PROVE  LET tail == SubSeq(s, Len(s) - k + 1, Len(s))
           IN  tail \in Seq(MessageRecords) /\ TurnsOf(tail) = Rest(s, Len(s) - k + 1)
<1> DEFINE m == Len(s) - k + 1
           tail == SubSeq(s, m, Len(s))
<1>1. Len(s) \in Nat /\ DOMAIN s = 1..Len(s) /\ m \in Nat /\ m >= 1 /\ m <= Len(s) + 1 /\ Len(s) - m + 1 = k
  OBVIOUS
<1>2. tail = [i \in 1..k |-> s[m + i - 1]]
  BY <1>1
<1>3. \A i \in 1..k : m + i - 1 \in DOMAIN s /\ m + i - 1 >= m /\ tail[i] = s[m + i - 1]
  BY <1>1, <1>2
<1>4. tail \in Seq(MessageRecords) /\ DOMAIN tail = 1..k
  BY <1>1, <1>2, <1>3, TurnsTyped
<1>5. \A j \in DOMAIN s : j >= m => j - m + 1 \in 1..k /\ m + (j - m + 1) - 1 = j
  BY <1>1
<1>6. \A j \in DOMAIN s : j >= m => \E i \in 1..k : tail[i] = s[j]
  BY <1>3, <1>5
<1>7. TurnsOf(tail) \subseteq Rest(s, m)
  <2> SUFFICES ASSUME NEW i \in 1..k
               PROVE  \E j \in {l \in DOMAIN s : l >= m} : tail[i] = s[j]
    BY <1>4 DEF TurnsOf, Rest
  <2> QED
    BY <1>3
<1>8. Rest(s, m) \subseteq TurnsOf(tail)
  BY <1>4, <1>6 DEF TurnsOf, Rest
<1> QED
  BY <1>4, <1>7, <1>8

\* Parsing and pruning keep the messages, in their order.
LEMMA ParsedTyped ==
    ASSUME NEW s \in Seq(MessageRecords)
    PROVE  /\ Parsed(s) \in Seq(MessageRecords) /\ Len(Parsed(s)) = Len(s)
           /\ Pruned(s) \in Seq(MessageRecords) /\ Len(Pruned(s)) = Len(s)
<1>1. \A m \in MessageRecords : FromOpenAI(m) \in MessageRecords /\ PruneToolResult(m) \in MessageRecords
  BY DEF FromOpenAI, PruneToolResult, MessageRecords
<1>2. DOMAIN s = 1..Len(s) /\ Len(s) \in Nat /\ \A i \in 1..Len(s) : s[i] \in MessageRecords
  OBVIOUS
<1>3. /\ \A i \in 1..Len(s) : FromOpenAI(s[i]) \in MessageRecords
      /\ \A i \in 1..Len(s) : PruneToolResult(s[i]) \in MessageRecords
  BY <1>1, <1>2
<1>4. /\ Parsed(s) = [i \in 1..Len(s) |-> FromOpenAI(s[i])]
      /\ Pruned(s) = [i \in 1..Len(s) |-> PruneToolResult(s[i])]
  BY <1>2 DEF Parsed, Pruned
<1> QED
  BY <1>2, <1>3, <1>4

-----------------------------------------------------------------------------
(* The invariant *)

LEMMA NoRequestYetTyped == NoRequestYet \in RequestRecords /\ Shape(NoRequestYet) /\ NoRequestYet.at = "idle"
  BY DEF NoRequestYet, RequestRecords, Shape, Handled, MessageRecords

\* Nothing has been said.
LEMMA InitCompactInv == InitCompact => CompactInv
<1> SUFFICES ASSUME InitCompact
             PROVE  CompactInv
  OBVIOUS
<1>1. TypeInv
  BY NoRequestYetTyped DEF InitCompact, TypeInv
<1>2. NothingIsDropped
  BY DEF InitCompact, NothingIsDropped
<1>3. \A r \in Requests : Shape(req[r]) /\ Names(r)
  BY NoRequestYetTyped DEF InitCompact, Names
<1> QED
  BY <1>1, <1>2, <1>3 DEF InitCompact, CompactInv

\* A step of the handler of r that keeps what r carries keeps the invariant.
LEMMA StepsInv ==
    ASSUME CompactInv, NEW r \in Requests, NEW q \in RequestRecords, req' = [req EXCEPT ![r] = q],
           UNCHANGED <<talk, waiting, said, forgotten>>,
           kept' = kept \/ kept' = kept \cup {r}, logged' = logged \/ logged' = logged \cup {r},
           Shape(q), Carries(req[r]) \subseteq Carries(q),
           q.at # "idle" => q.ids \subseteq kept' /\ q.ids \subseteq {r},
           q.at # "idle" /\ q.dry => q.ids = {} /\ q.at \notin {"store", "log"}
    PROVE  CompactInv'
<1>0. req'[r] = q /\ \A o \in Requests : o # r => req'[o] = req[o]
  BY DEF CompactInv, TypeInv
<1>1. TypeInv'
  BY DEF CompactInv, TypeInv
<1>2. NothingIsDropped'
  BY DEF CompactInv, NothingIsDropped, TurnsOf
<1>3. ASSUME NEW o \in Requests
      PROVE  Shape(req[o])' /\ Names(o)'
  <2>1. CASE o = r
    BY <1>0, <2>1 DEF Names, Shape, Segmentable
  <2>2. CASE o # r
    <3>1. Shape(req[o]) /\ Names(o) /\ req'[o] = req[o]
      BY <1>0, <2>2 DEF CompactInv
    <3> QED
      BY <3>1 DEF Names, Shape, Segmentable
  <2> QED
    BY <2>1, <2>2
<1>4. waiting' # NoRequest => TurnsOf(talk') \subseteq Carries(req'[waiting'])
  <2>1. CASE waiting = r
    BY <1>0, <2>1, RequestAssumption DEF CompactInv
  <2>2. CASE waiting # r
    BY <1>0, <2>2 DEF CompactInv, TypeInv
  <2> QED
    BY <2>1, <2>2
<1>5. (waiting # NoRequest => TurnsOf(talk) \subseteq Carries(req[waiting]))'
  BY <1>4 DEF TurnsOf, Carries, Rest, Segmentable
<1> QED
  BY <1>1, <1>2, <1>3, <1>5 DEF CompactInv

\* The next segment ends before the tail or at it, and the one after it begins
\* at most where it ends.
LEMMA SummarizeSegmentInv ==
    ASSUME CompactInv, NEW r \in Requests, SummarizeSegment(r)
    PROVE  CompactInv'
<1> DEFINE q == req[r]
           end == SegmentEnd(q)
           segment == UNION {q.msgs[i].turns : i \in (q.start + 1)..end}
<1>0. /\ q \in RequestRecords /\ q.at = "summarize" /\ Shape(q) /\ Names(r)
      /\ q.msgs \in Seq(MessageRecords)
      /\ q.start \in Nat /\ q.size \in Nat /\ q.size >= 1 /\ q.overlap \in Nat /\ q.keep \in Nat
      /\ q.keep < Len(q.msgs) /\ Len(q.msgs) \in Nat /\ DOMAIN q.msgs = 1..Len(q.msgs)
      /\ q.start < Len(q.msgs) - q.keep /\ q.told \subseteq Turns /\ q.lost \subseteq Turns
  <2>1. q \in RequestRecords /\ q.at = "summarize" /\ Shape(q) /\ Names(r)
    BY DEF CompactInv, TypeInv, SummarizeSegment
  <2>2. q.msgs \in Seq(MessageRecords)
    BY <2>1 DEF RequestRecords
  <2> QED
    BY <2>1, <2>2 DEF RequestRecords, Shape, Handled, Segmentable
<1>1. /\ Segmentable(q) \in Nat /\ Segmentable(q) = Len(q.msgs) - q.keep
      /\ end \in Nat /\ end > q.start /\ end <= Segmentable(q)
      /\ end # Segmentable(q) => end = q.start + q.size
  <2>1. Segmentable(q) = Len(q.msgs) - q.keep
    BY DEF Segmentable
  <2>2. Segmentable(q) \in Nat /\ q.start < Segmentable(q)
    BY <1>0, <2>1
  <2>3. end = IF q.start + q.size < Segmentable(q) THEN q.start + q.size ELSE Segmentable(q)
    BY DEF SegmentEnd, Smaller
  <2> HIDE DEF end, q
  <2> QED
    BY <1>0, <2>1, <2>2, <2>3
<1>2. Step(q) \in Nat /\ Step(q) >= 1 /\ Step(q) <= q.size
  BY <1>0 DEF Step
<1>3. segment \subseteq Turns
  <2>1. \A i \in (q.start + 1)..end : i \in DOMAIN q.msgs
    BY <1>0, <1>1
  <2> QED
    BY <1>0, <2>1, TurnsTyped
\* What comes after the segment, or begins before it ends, is still to be told.
<1>4. ASSUME NEW i \in Nat, i <= end
      PROVE  Rest(q.msgs, q.start + 1) \subseteq segment \cup Rest(q.msgs, i + 1)
  <2>1. \A k \in DOMAIN q.msgs : k >= q.start + 1 => k \in (q.start + 1)..end \/ k >= i + 1
    BY <1>0, <1>1, <1>4
  <2> QED
    BY <2>1 DEF Rest
<1>5. PICK empty \in BOOLEAN :
        req' = [req EXCEPT ![r] =
          [q EXCEPT !.told = IF empty THEN @ ELSE @ \cup segment,
                    !.lost = IF empty THEN @ \cup segment ELSE @,
                    !.at = IF ~LastSegment(q) THEN @ ELSE IF q.dry THEN "answer" ELSE "store",
                    !.start = IF LastSegment(q) THEN @ ELSE @ + Step(q)]]
  BY DEF SummarizeSegment
<1> DEFINE told == IF empty THEN q.told ELSE q.told \cup segment
           lost == IF empty THEN q.lost \cup segment ELSE q.lost
           at == IF ~LastSegment(q) THEN "summarize" ELSE IF q.dry THEN "answer" ELSE "store"
           start == IF LastSegment(q) THEN q.start ELSE q.start + Step(q)
           n == [q EXCEPT !.told = told, !.lost = lost, !.at = at, !.start = start]
<1>6. req' = [req EXCEPT ![r] = n]
  BY <1>0, <1>5
<1>7. /\ told \subseteq Turns /\ lost \subseteq Turns /\ told \cup lost = q.told \cup q.lost \cup segment
      /\ at \in {"summarize", "answer", "store"} /\ start \in Nat
  BY <1>0, <1>2, <1>3
<1>8. /\ n \in RequestRecords /\ n.told = told /\ n.lost = lost /\ n.at = at /\ n.start = start
      /\ n.msgs = q.msgs /\ n.keep = q.keep /\ n.size = q.size /\ n.dry = q.dry /\ n.ids = q.ids
  <2> HIDE DEF told, lost, at, start
  <2> QED
    BY <1>0, <1>7 DEF RequestRecords
<1>9. Segmentable(n) = Segmentable(q)
  BY <1>8 DEF Segmentable
<1>10. Shape(n)
  <2>1. n.size >= 1 /\ n.keep < Len(n.msgs)
    BY <1>0, <1>8
  <2>2. at = "summarize" => start < Segmentable(q)
    <3>1. CASE LastSegment(q)
      BY <3>1
    <3>2. CASE ~LastSegment(q)
      BY <1>0, <1>1, <1>2, <3>2 DEF LastSegment
    <3> QED
      BY <3>1, <3>2
  <2> QED
    BY <1>8, <1>9, <2>1, <2>2 DEF Shape
<1>11. Carries(q) = q.told \cup q.lost \cup Rest(q.msgs, q.start + 1)
  BY <1>0 DEF Carries
<1>12. Carries(q) \subseteq Carries(n)
  <2>1. CASE ~LastSegment(q)
    <3>1. end = q.start + q.size /\ start = q.start + Step(q) /\ start <= end
      BY <1>0, <1>1, <1>2, <2>1 DEF LastSegment
    <3>2. n.at = "summarize"
      BY <1>8, <2>1
    <3>3. Carries(n) = told \cup lost \cup Rest(q.msgs, start + 1)
      BY <1>8, <3>2 DEF Carries
    <3>4. Rest(q.msgs, q.start + 1) \subseteq segment \cup Rest(q.msgs, start + 1)
      BY <1>4, <1>7, <3>1
    <3> HIDE DEF told, lost, start, segment
    <3> QED
      BY <1>7, <1>11, <3>3, <3>4
  <2>2. CASE LastSegment(q)
    <3>1. end = Segmentable(q)
      BY <2>2 DEF LastSegment
    <3>2. n.at \in {"answer", "store"}
      BY <1>8, <2>2
    <3>3. Carries(n) = told \cup lost \cup Rest(q.msgs, Segmentable(q) + 1)
      BY <1>8, <1>9, <3>2 DEF Carries
    <3>4. Rest(q.msgs, q.start + 1) \subseteq segment \cup Rest(q.msgs, Segmentable(q) + 1)
      BY <1>1, <1>4, <3>1
    <3> HIDE DEF told, lost, segment
    <3> QED
      BY <1>7, <1>11, <3>3, <3>4
  <2> QED
    BY <2>1, <2>2
<1>13. q.ids \subseteq kept /\ q.ids \subseteq {r} /\ (q.dry => q.ids = {})
  BY <1>0 DEF Names
<1>14. n.ids \subseteq kept /\ n.ids \subseteq {r} /\ (n.dry => n.ids = {} /\ n.at \notin {"store", "log"})
  <2>1. n.dry => n.at \notin {"store", "log"}
    BY <1>8
  <2> QED
    BY <1>8, <1>13, <2>1
<1>15. UNCHANGED <<talk, waiting, kept, logged, said, forgotten>>
  BY DEF SummarizeSegment
<1> HIDE DEF n
<1> QED
  BY <1>6, <1>8, <1>10, <1>12, <1>14, <1>15, StepsInv

\* Storing the summary and logging it change nothing that is told.
LEMMA WritesInv ==
    ASSUME CompactInv, NEW r \in Requests, StoreSummary(r) \/ Log(r)
    PROVE  CompactInv'
<1> DEFINE q == req[r]
<1>0. q \in RequestRecords /\ Shape(q) /\ Names(r)
  BY DEF CompactInv, TypeInv
<1>1. ASSUME NEW at \in {"log", "answer"}, NEW ids \in SUBSET {r}, q.at \in {"store", "log"},
             q.at = "log" => at = "answer",
             req' = [req EXCEPT ![r] = [q EXCEPT !.ids = ids, !.at = at]],
             UNCHANGED <<talk, waiting, said, forgotten>>,
             kept' = kept \/ kept' = kept \cup {r}, logged' = logged \/ logged' = logged \cup {r},
             ids \subseteq kept'
      PROVE  CompactInv'
  <2> DEFINE n == [q EXCEPT !.ids = ids, !.at = at]
  <2>1. /\ n \in RequestRecords /\ n.ids = ids /\ n.at = at /\ n.told = q.told /\ n.lost = q.lost
        /\ n.msgs = q.msgs /\ n.keep = q.keep /\ n.size = q.size /\ n.start = q.start /\ n.dry = q.dry
    BY <1>0, <1>1 DEF RequestRecords
  <2>2. Segmentable(n) = Segmentable(q)
    BY <2>1 DEF Segmentable
  <2>3. Shape(n)
    BY <1>0, <1>1, <2>1 DEF Shape, Handled
  <2>4. Carries(q) \subseteq Carries(n)
    BY <1>1, <2>1, <2>2 DEF Carries
  <2>5. ~n.dry
    BY <1>0, <1>1, <2>1 DEF Names
  <2>6. req' = [req EXCEPT ![r] = n]
    BY <1>1
  <2> HIDE DEF n
  <2> QED
    BY <1>1, <2>1, <2>3, <2>4, <2>5, <2>6, StepsInv
<1>2. CASE StoreSummary(r)
  <2>1. PICK stored \in BOOLEAN :
          /\ kept' = IF stored THEN kept \cup {r} ELSE kept
          /\ req' = [req EXCEPT ![r].ids = Ids(stored, r), ![r].at = IF req[r].logs THEN "log" ELSE "answer"]
    BY <1>2 DEF StoreSummary
  <2> DEFINE ids == Ids(stored, r)
             at == IF q.logs THEN "log" ELSE "answer"
  <2>2. ids \in SUBSET {r} /\ ids \subseteq kept' /\ at \in {"log", "answer"}
    BY <2>1 DEF Ids
  <2>3. req' = [req EXCEPT ![r] = [q EXCEPT !.ids = ids, !.at = at]]
    BY <1>0, <2>1 DEF CompactInv, TypeInv
  <2>4. q.at = "store" /\ UNCHANGED <<talk, waiting, logged, said, forgotten>> /\ (kept' = kept \/ kept' = kept \cup {r})
    BY <1>2, <2>1 DEF StoreSummary
  <2> HIDE DEF ids, at
  <2> QED
    BY <1>1, <2>2, <2>3, <2>4
<1>3. CASE Log(r)
  <2>1. q.at = "log" /\ UNCHANGED <<talk, waiting, kept, said, forgotten>> /\ (logged' = logged \/ logged' = logged \cup {r})
    BY <1>3 DEF Log
  <2>2. [q EXCEPT !.at = "answer"] = [q EXCEPT !.ids = q.ids, !.at = "answer"]
    BY <1>0 DEF RequestRecords
  <2>3. req' = [req EXCEPT ![r] = [q EXCEPT !.ids = q.ids, !.at = "answer"]]
    BY <1>3, <2>2 DEF Log, CompactInv, TypeInv
  <2>4. q.ids \in SUBSET {r} /\ q.ids \subseteq kept'
    BY <1>0, <2>1 DEF Names
  <2> QED
    BY <1>1, <2>1, <2>3, <2>4
<1> QED
  BY <1>2, <1>3

\* The answer is the summaries and the tail.
LEMMA AnswerInv ==
    ASSUME CompactInv, NEW r \in Requests, Answer(r)
    PROVE  CompactInv'
<1> DEFINE q == req[r]
           out == BuildSummaryBlock(q.told) \o RecentTail(q)
           n == [q EXCEPT !.at = "reply", !.out = out]
<1>0. /\ q \in RequestRecords /\ q.at = "answer" /\ Shape(q) /\ Names(r)
      /\ q.msgs \in Seq(MessageRecords) /\ q.keep \in Nat /\ q.told \subseteq Turns
  <2>1. q \in RequestRecords /\ q.at = "answer" /\ Shape(q) /\ Names(r)
    BY DEF CompactInv, TypeInv, Answer
  <2> QED
    BY <2>1 DEF RequestRecords
<1>1. /\ RecentTail(q) \in Seq(MessageRecords)
      /\ TurnsOf(RecentTail(q)) = Rest(q.msgs, Segmentable(q) + 1)
  <2>1. q.keep < Len(q.msgs)
    BY <1>0 DEF Shape, Handled
  <2> QED
    BY <1>0, <2>1, TurnsOfTail DEF RecentTail, Segmentable
<1>2. BuildSummaryBlock(q.told) \in Seq(MessageRecords) /\ q.told \subseteq TurnsOf(BuildSummaryBlock(q.told))
  <2> DEFINE b == BuildSummaryBlock(q.told)
  <2>1. \A turns \in SUBSET Turns : Plain(turns) \in MessageRecords /\ Plain(turns).turns = turns
    BY DEF Plain, MessageRecords
  <2>2. b = <<Plain({}), Plain(q.told), Plain({})>>
    BY DEF BuildSummaryBlock
  <2>3. b \in Seq(MessageRecords)
    BY <1>0, <2>1, <2>2
  <2>4. 2 \in DOMAIN b /\ b[2] = Plain(q.told)
    BY <2>2
  <2>5. b[2].turns = q.told
    BY <1>0, <2>1, <2>4
  <2> QED
    BY <2>3, <2>4, <2>5 DEF TurnsOf
<1>3. out \in Seq(MessageRecords) /\ TurnsOf(out) = TurnsOf(BuildSummaryBlock(q.told)) \cup TurnsOf(RecentTail(q))
  BY <1>1, <1>2, TurnsOfConcat
<1>4. /\ n \in RequestRecords /\ n.at = "reply" /\ n.out = out /\ n.lost = q.lost /\ n.ids = q.ids /\ n.dry = q.dry
  <2> HIDE DEF out
  <2> QED
    BY <1>0, <1>3 DEF RequestRecords
<1>5. Shape(n)
  BY <1>4 DEF Shape, Handled
<1>6. Carries(q) \subseteq Carries(n)
  <2>1. Carries(q) = q.told \cup q.lost \cup Rest(q.msgs, Segmentable(q) + 1)
    BY <1>0 DEF Carries
  <2>2. Carries(n) = TurnsOf(out) \cup q.lost
    BY <1>4 DEF Carries
  <2> HIDE DEF out
  <2> QED
    BY <1>1, <1>2, <1>3, <2>1, <2>2
<1>7. req' = [req EXCEPT ![r] = n] /\ UNCHANGED <<talk, waiting, kept, logged, said, forgotten>>
  <2>1. req' = [req EXCEPT ![r].at = "reply", ![r].out = out]
    BY DEF Answer
  <2> QED
    BY <1>0, <2>1 DEF Answer, CompactInv, TypeInv
<1>8. n.ids \subseteq kept /\ n.ids \subseteq {r} /\ (n.dry => n.ids = {} /\ n.at \notin {"store", "log"})
  BY <1>0, <1>4 DEF Names
<1> HIDE DEF n
<1> QED
  BY <1>4, <1>5, <1>6, <1>7, <1>8, StepsInv

\* A request that begins carries the conversation, without what parsing and
\* pruning lose.
LEMMA CompactBeginsInv ==
    ASSUME CompactInv, NEW r \in Requests, NEW s \in Settings, Compact(r, s)
    PROVE  CompactInv'
<1> DEFINE keep == Resolved(s.keep, DefaultKeep)
           size == Resolved(s.size, DefaultSize)
           overlap == ResolvedOverlap(s.overlap)
           msgs == Parsed(talk)
           request == [NoRequestYet EXCEPT !.keep = keep, !.size = size, !.overlap = overlap, !.dry = s.dry, !.logs = s.logs]
           lost == TurnsOf(talk) \ TurnsOf(Pruned(msgs))
           lostNoop == TurnsOf(talk) \ TurnsOf(msgs)
           work == [request EXCEPT !.at = "summarize", !.msgs = Pruned(msgs), !.lost = lost]
           noop == [request EXCEPT !.at = "reply", !.noop = TRUE, !.out = msgs, !.lost = lostNoop]
           may == MaySegment(Len(talk), keep, size, overlap)
           q == IF may THEN work ELSE noop
<1>0. /\ talk \in Seq(MessageRecords) /\ waiting = NoRequest /\ waiting' = r
      /\ req' = [req EXCEPT ![r] = q] /\ UNCHANGED <<talk, kept, logged, said, forgotten>>
  <2>1. req' = [req EXCEPT ![r] = IF may THEN work ELSE noop]
    BY DEF Compact
  <2> QED
    BY <2>1 DEF Compact, CompactInv, TypeInv
<1>1. /\ msgs \in Seq(MessageRecords) /\ Len(msgs) = Len(talk)
      /\ Pruned(msgs) \in Seq(MessageRecords) /\ Len(Pruned(msgs)) = Len(talk)
      /\ TurnsOf(talk) \subseteq Turns
  <2>1. msgs \in Seq(MessageRecords) /\ Len(msgs) = Len(talk)
    BY <1>0, ParsedTyped
  <2>2. Pruned(msgs) \in Seq(MessageRecords) /\ Len(Pruned(msgs)) = Len(msgs)
    BY <2>1, ParsedTyped
  <2> QED
    BY <1>0, <2>1, <2>2, TurnsTyped
<1>2. keep \in Nat /\ size \in Nat /\ size >= 1 /\ s.dry \in BOOLEAN /\ s.logs \in BOOLEAN
  BY SettingAssumption, DefaultAssumption DEF Resolved
<1>3. overlap \in Nat
  BY SettingAssumption, DefaultAssumption DEF ResolvedOverlap
<1>4. /\ request \in RequestRecords /\ request.keep = keep /\ request.size = size /\ request.start = 0
      /\ request.told = {} /\ request.ids = {}
  <2> HIDE DEF keep, size, overlap
  <2> QED
    BY <1>2, <1>3, NoRequestYetTyped DEF NoRequestYet, RequestRecords
<1>5. ASSUME may
      PROVE  q \in RequestRecords /\ Shape(q) /\ q.ids = {} /\ q.at \in {"summarize", "reply"} /\ TurnsOf(talk) \subseteq Carries(q)
  <2>1. /\ work \in RequestRecords /\ work.at = "summarize" /\ work.msgs = Pruned(msgs) /\ work.keep = keep
        /\ work.size = size /\ work.start = 0 /\ work.lost = lost /\ work.ids = {} /\ work.told = {}
    <3>1. lost \in SUBSET Turns
      BY <1>1
    <3> HIDE DEF request, msgs, lost, keep, size
    <3> QED
      BY <1>1, <1>4, <3>1 DEF RequestRecords
  <2>2. keep < Len(talk)
    BY <1>5 DEF MaySegment
  <2>3. Shape(work)
    <3>1. Len(talk) \in Nat
      BY <1>0
    <3>2. Segmentable(work) = Len(talk) - keep /\ Segmentable(work) > 0
      BY <1>1, <1>2, <2>1, <2>2, <3>1 DEF Segmentable
    <3> HIDE DEF work, keep, size, msgs
    <3> QED
      BY <1>1, <1>2, <2>1, <2>2, <3>2 DEF Shape, Handled
  <2>4. TurnsOf(talk) \subseteq Carries(work)
    <3>1. Carries(work) = work.told \cup work.lost \cup Rest(work.msgs, work.start + 1)
      BY <2>1 DEF Carries
    <3>2. Rest(Pruned(msgs), 0 + 1) = TurnsOf(Pruned(msgs))
      <4> HIDE DEF msgs
      <4>1. DOMAIN Pruned(msgs) = 1..Len(talk) /\ Len(talk) \in Nat
        BY <1>0, <1>1
      <4>2. {j \in DOMAIN Pruned(msgs) : j >= 0 + 1} = DOMAIN Pruned(msgs)
        BY <4>1
      <4> QED
        BY <4>2 DEF Rest, TurnsOf
    <3> HIDE DEF work, msgs
    <3> QED
      BY <2>1, <3>1, <3>2
  <2>5. q = work
    BY <1>5
  <2> HIDE DEF work, noop, may, q
  <2> QED
    BY <2>1, <2>3, <2>4, <2>5
<1>6. ASSUME ~may
      PROVE  q \in RequestRecords /\ Shape(q) /\ q.ids = {} /\ q.at \in {"summarize", "reply"} /\ TurnsOf(talk) \subseteq Carries(q)
  <2>1. /\ noop \in RequestRecords /\ noop.at = "reply" /\ noop.out = msgs /\ noop.lost = lostNoop /\ noop.ids = {}
    <3>1. lostNoop \in SUBSET Turns
      BY <1>1
    <3> HIDE DEF request, msgs, lostNoop, keep, size
    <3> QED
      BY <1>1, <1>4, <3>1 DEF RequestRecords
  <2>2. Shape(noop)
    BY <2>1 DEF Shape, Handled
  <2>3. TurnsOf(talk) \subseteq Carries(noop)
    BY <2>1 DEF Carries
  <2> QED
    BY <1>6, <2>1, <2>2, <2>3
<1>7. q \in RequestRecords /\ Shape(q) /\ q.ids = {} /\ q.at \in {"summarize", "reply"} /\ TurnsOf(talk) \subseteq Carries(q)
  BY <1>5, <1>6
<1> HIDE DEF q
<1>8. req'[r] = q /\ \A o \in Requests : o # r => req'[o] = req[o]
  BY <1>0 DEF CompactInv, TypeInv
<1>9. TypeInv'
  BY <1>0, <1>7 DEF CompactInv, TypeInv
<1>10. NothingIsDropped'
  BY <1>0 DEF CompactInv, NothingIsDropped, TurnsOf
<1>11. ASSUME NEW o \in Requests
       PROVE  Shape(req[o])' /\ Names(o)'
  <2>1. CASE o = r
    BY <1>7, <1>8, <2>1 DEF Names, Shape, Segmentable
  <2>2. CASE o # r
    <3>1. Shape(req[o]) /\ Names(o) /\ req'[o] = req[o] /\ kept' = kept
      BY <1>0, <1>8, <2>2 DEF CompactInv
    <3> QED
      BY <3>1 DEF Names, Shape, Segmentable
  <2> QED
    BY <2>1, <2>2
<1>12. TurnsOf(talk)' \subseteq Carries(req[waiting])'
  BY <1>0, <1>7, <1>8 DEF TurnsOf, Carries, Rest, Segmentable
<1> QED
  BY <1>9, <1>10, <1>11, <1>12 DEF CompactInv

\* What the client says, gives up on and receives keeps it, an error included.
LEMMA ClientInv ==
    ASSUME CompactInv,
           \/ \E t \in Turns : \E u \in Utterances[t] : Say(t, u)
           \/ GiveUp
           \/ \E r \in Requests : Receive(r) \/ InsertPanics(r)
    PROVE  CompactInv'
<1>0. TypeInv /\ NothingIsDropped /\ \A r \in Requests : Shape(req[r]) /\ Names(r)
  BY DEF CompactInv
<1>1. ASSUME NEW t \in Turns, NEW u \in Utterances[t], Say(t, u)
      PROVE  CompactInv'
  <2>1. u \in MessageRecords /\ u.turns = {t} /\ talk \in Seq(MessageRecords)
    BY <1>0, UtteranceAssumption DEF TypeInv
  <2>2. <<u>> \in Seq(MessageRecords) /\ TurnsOf(<<u>>) = {t}
    <3>1. <<u>> \in Seq(MessageRecords) /\ DOMAIN <<u>> = {1} /\ <<u>>[1] = u
      BY <2>1
    <3> QED
      BY <2>1, <3>1 DEF TurnsOf
  <2>3. /\ talk' = Append(talk, u) /\ said' = said \cup {t} /\ waiting = NoRequest
        /\ UNCHANGED <<waiting, req, kept, logged, forgotten>>
    BY <1>1 DEF Say
  <2>4. talk' = talk \o <<u>>
    BY <2>1, <2>2, <2>3
  <2>5. talk' \in Seq(MessageRecords) /\ TurnsOf(talk') = TurnsOf(talk) \cup {t}
    BY <2>1, <2>2, <2>4, TurnsOfConcat
  <2>6. TypeInv'
    BY <1>0, <2>3, <2>5 DEF TypeInv
  <2>7. NothingIsDropped'
    <3>1. said' \subseteq TurnsOf(talk') \cup forgotten'
      BY <1>0, <2>3, <2>5 DEF NothingIsDropped
    <3> QED
      BY <3>1 DEF NothingIsDropped, TurnsOf
  <2>8. \A r \in Requests : Shape(req[r])' /\ Names(r)'
    BY <1>0, <2>3 DEF Names, Shape, Segmentable
  <2> QED
    BY <2>3, <2>6, <2>7, <2>8 DEF CompactInv
<1>2. CASE GiveUp
  <2>1. TypeInv' /\ NothingIsDropped' /\ waiting' = NoRequest
    BY <1>0, <1>2 DEF GiveUp, TypeInv, NothingIsDropped, TurnsOf
  <2>2. \A r \in Requests : Shape(req[r])' /\ Names(r)'
    BY <1>0, <1>2 DEF GiveUp, Names, Shape, Segmentable
  <2> QED
    BY <2>1, <2>2 DEF CompactInv
<1>3. ASSUME NEW r \in Requests, Receive(r)
      PROVE  CompactInv'
  <2>0. /\ req[r] \in RequestRecords /\ req[r].at = "reply" /\ UNCHANGED said
        /\ req' = [req EXCEPT ![r] = NoRequestYet] /\ kept' = kept \ {r} /\ logged' = logged \ {r}
    BY <1>0, <1>3 DEF Receive, TypeInv
  <2>1. req'[r] = NoRequestYet /\ \A o \in Requests : o # r => req'[o] = req[o]
    BY <1>0, <2>0 DEF TypeInv
  <2>2. ASSUME NEW o \in Requests
        PROVE  Shape(req[o])' /\ Names(o)'
    <3>1. CASE o = r
      BY <2>1, <3>1, NoRequestYetTyped DEF Names, Shape, Segmentable
    <3>2. CASE o # r
      <4>1. Shape(req[o]) /\ Names(o) /\ req'[o] = req[o]
        BY <1>0, <2>1, <3>2
      <4> QED
        BY <2>0, <3>2, <4>1 DEF Names, Shape, Segmentable
    <3> QED
      BY <3>1, <3>2
  <2>3. /\ kept' \subseteq Requests /\ logged' \subseteq Requests /\ said' \subseteq Turns
        /\ req' \in [Requests -> RequestRecords]
    BY <1>0, <2>0, NoRequestYetTyped DEF TypeInv
  <2>4. CASE waiting = r
    <3>1. talk' = req[r].out /\ forgotten' = forgotten \cup req[r].lost /\ waiting' = NoRequest
      BY <1>3, <2>4 DEF Receive
    <3>2. talk' \in Seq(MessageRecords) /\ req[r].lost \subseteq Turns
      BY <2>0, <3>1 DEF RequestRecords
    <3>3. TypeInv'
      BY <1>0, <2>3, <3>1, <3>2 DEF TypeInv
    <3>4. TurnsOf(talk) \subseteq TurnsOf(req[r].out) \cup req[r].lost
      <4>1. TurnsOf(talk) \subseteq Carries(req[r])
        BY <2>4, RequestAssumption DEF CompactInv
      <4> QED
        BY <2>0, <4>1 DEF Carries
    <3>5. said' \subseteq TurnsOf(talk') \cup forgotten'
      BY <1>0, <2>0, <3>1, <3>4 DEF NothingIsDropped
    <3>6. NothingIsDropped'
      BY <3>5 DEF NothingIsDropped, TurnsOf
    <3> QED
      BY <2>2, <3>1, <3>3, <3>6 DEF CompactInv
  <2>5. CASE waiting # r
    <3>1. UNCHANGED <<talk, forgotten, waiting>>
      BY <1>3, <2>5 DEF Receive
    <3>2. TypeInv'
      BY <1>0, <2>3, <3>1 DEF TypeInv
    <3>3. NothingIsDropped'
      BY <1>0, <2>0, <3>1 DEF NothingIsDropped, TurnsOf
    <3>4. waiting' # NoRequest => TurnsOf(talk)' \subseteq Carries(req[waiting])'
      <4>1. waiting # NoRequest => TurnsOf(talk) \subseteq Carries(req[waiting]) /\ req'[waiting] = req[waiting]
        BY <2>1, <2>5 DEF CompactInv, TypeInv
      <4> QED
        BY <3>1, <4>1 DEF TurnsOf, Carries, Rest, Segmentable
    <3> QED
      BY <2>2, <3>2, <3>3, <3>4 DEF CompactInv
  <2> QED
    BY <2>4, <2>5
<1>4. ASSUME NEW r \in Requests, InsertPanics(r)
      PROVE  CompactInv'
  <2>0. /\ req[r].at = "store" /\ req' = [req EXCEPT ![r] = NoRequestYet]
        /\ waiting' = IF waiting = r THEN NoRequest ELSE waiting
        /\ UNCHANGED <<talk, kept, logged, said, forgotten>>
    BY <1>4 DEF InsertPanics
  <2>1. req'[r] = NoRequestYet /\ \A o \in Requests : o # r => req'[o] = req[o]
    BY <1>0, <2>0 DEF TypeInv
  <2>2. ASSUME NEW o \in Requests
        PROVE  Shape(req[o])' /\ Names(o)'
    <3>1. CASE o = r
      BY <2>1, <3>1, NoRequestYetTyped DEF Names, Shape, Segmentable
    <3>2. CASE o # r
      <4>1. Shape(req[o]) /\ Names(o) /\ req'[o] = req[o]
        BY <1>0, <2>1, <3>2
      <4> QED
        BY <2>0, <3>2, <4>1 DEF Names, Shape, Segmentable
    <3> QED
      BY <3>1, <3>2
  <2>3. TypeInv'
    BY <1>0, <2>0, NoRequestYetTyped DEF TypeInv
  <2>4. NothingIsDropped'
    BY <1>0, <2>0 DEF NothingIsDropped, TurnsOf
  <2>5. waiting' # NoRequest => TurnsOf(talk)' \subseteq Carries(req[waiting])'
    <3>1. waiting' # NoRequest =>
            waiting' = waiting /\ TurnsOf(talk) \subseteq Carries(req[waiting]) /\ req'[waiting] = req[waiting]
      BY <2>0, <2>1 DEF CompactInv, TypeInv
    <3> QED
      BY <2>0, <3>1 DEF TurnsOf, Carries, Rest, Segmentable
  <2> QED
    BY <2>2, <2>3, <2>4, <2>5 DEF CompactInv
<1> QED
  BY <1>1, <1>2, <1>3, <1>4

\* Every step keeps the invariant, and so does a step that changes nothing.
LEMMA NextCompactInv == CompactInv /\ [NextCompact]_compactVars => CompactInv'
<1> SUFFICES ASSUME CompactInv, [NextCompact]_compactVars
             PROVE  CompactInv'
  OBVIOUS
<1>1. CASE \/ \E t \in Turns : \E u \in Utterances[t] : Say(t, u)
           \/ GiveUp
           \/ \E r \in Requests : Receive(r) \/ InsertPanics(r)
  BY <1>1, ClientInv
<1>2. ASSUME NEW r \in Requests, Handle(r)
      PROVE  CompactInv'
  BY <1>2, SummarizeSegmentInv, WritesInv, AnswerInv DEF Handle
<1>3. ASSUME NEW r \in Requests, NEW s \in Settings, Compact(r, s)
      PROVE  CompactInv'
  BY <1>3, CompactBeginsInv
<1>4. CASE UNCHANGED compactVars
  <2>1. TypeInv' /\ NothingIsDropped'
    BY <1>4 DEF compactVars, CompactInv, TypeInv, NothingIsDropped, TurnsOf
  <2>2. \A r \in Requests : Shape(req[r])' /\ Names(r)'
    BY <1>4 DEF compactVars, CompactInv, Names, Shape, Segmentable
  <2>3. (waiting # NoRequest => TurnsOf(talk) \subseteq Carries(req[waiting]))'
    BY <1>4 DEF compactVars, CompactInv, TurnsOf, Carries, Rest, Segmentable
  <2> QED
    BY <2>1, <2>2, <2>3 DEF CompactInv
<1> QED
  BY <1>1, <1>2, <1>3, <1>4 DEF NextCompact

LEMMA SpecCompactInv == SpecCompact => []CompactInv
BY InitCompactInv, NextCompactInv, PTL DEF SpecCompact

-----------------------------------------------------------------------------
(* The theorems *)

\* Every variable has its type, and a request under way has a segment to start at
\* (summarize.go:139-151).
THEOREM CompactTypeCorrect == SpecCompact => []TypeOKCompact
<1>1. CompactInv => TypeOKCompact
  BY DEF CompactInv, TypeInv, Shape, RequestRecords, TypeOKCompact
<1> QED
  BY <1>1, SpecCompactInv, PTL

\* Whatever was said can still be learnt from the conversation or was lost where
\* NothingIsDropped says, for every segment size, overlap and tail
\* (compact.go:80-112, compact_handler.go:94-133).
THEOREM NothingDropped == SpecCompact => []NothingIsDropped
<1>1. CompactInv => NothingIsDropped
  BY DEF CompactInv
<1> QED
  BY <1>1, SpecCompactInv, PTL

\* An answer names no memory that was not stored (compact_handler.go:153-176).
THEOREM NamesStored == SpecCompact => []AnswersNameStored
<1>1. CompactInv => AnswersNameStored
  BY DEF CompactInv, Names, AnswersNameStored
<1> QED
  BY <1>1, SpecCompactInv, PTL

-----------------------------------------------------------------------------
(* EmbedderChain *)

OneWidth ==
    /\ indexed = {} \/ \E w \in Widths : indexed = {w}
    /\ up => indexed \subseteq {width}

Checking == {"look", "probe", "select", "prefer", "report", "name"}

\* What c has asked so far cannot be counted on, whoever c is at.
NonePassed(c) == \A k \in DOMAIN chain : k < c.i => chain[k] \notin c.could

\* Whoever uses a place of the chain has one.
Placed(c) == c.at \in {"prefer", "ask", "adopt"} => c.i \in DOMAIN chain

\* What holds of a call wherever it is, the current embedder left aside.
CallKnown(c) ==
    /\ c.at = "select" => c.i >= 1 /\ NonePassed(c)
    /\ c.at \in {"fall", "ask"} => c.i >= 1 /\ (c.odd \/ NonePassed(c))
    /\ c.at \in {"adopt", "vector"} /\ c.vec = 0 => c.odd
    /\ c.result = "keyword" => c.could = {} \/ c.odd \/ c.undone
    /\ c.at \in Checking \/ c.undone => c.kind = "store"
    /\ c.at # "idle" => up

CallSound(g) ==
    /\ \A e \in call[g].could : e \in alive /\ InChain(e) /\ Available(e)
    /\ call[g].at = "report" => call[g].could = {} \/ call[g].undone \/ current # None
    /\ CallKnown(call[g])

ChainInv ==
    /\ TypeOKChain /\ OneWidth
    /\ \A g \in Goroutines : Placed(call[g])
    /\ \A g \in Callers : CallSound(g)

-----------------------------------------------------------------------------
\* A chain is a non-empty sequence of embedders, whose widths are positive.
LEMMA ChainFacts ==
    ASSUME NEW c \in Chains
    PROVE  /\ c \in Seq(Embedders) /\ Len(c) \in Nat /\ DOMAIN c = 1..Len(c) /\ 1 \in DOMAIN c
           /\ \A i \in DOMAIN c : c[i] \in Embedders /\ c[i] # None /\ Width[c[i]] \in Widths
<1>1. c \in Seq(Embedders) /\ c # <<>>
  BY ChainAssumption
<1>2. Len(c) \in Nat /\ DOMAIN c = 1..Len(c) /\ \A i \in DOMAIN c : c[i] \in Embedders
  BY <1>1
<1>3. 1 \in DOMAIN c
  BY <1>1, <1>2
<1> QED
  BY <1>1, <1>2, <1>3, EmbedderAssumption DEF Widths

\* Widths are positive numbers.
LEMMA WidthFacts == \A e \in Embedders : Width[e] \in Nat \ {0} /\ Width[e] # 0 /\ Width[e] # Mismatch /\ Width[e] \in Widths
  BY EmbedderAssumption DEF Widths, Mismatch

\* What selectActive finds is of the chain, and it finds something available.
LEMMA ActiveFacts ==
    ASSUME NEW c \in Chains, NEW A, NEW e \in FirstAvailable(c, A)
    PROVE  /\ e = None \/ \E i \in DOMAIN c : c[i] = e
           /\ Dims(c, e) \in Widths
           /\ (\E i \in DOMAIN c : c[i] \in A) => e # None
<1>1. CASE \E i \in DOMAIN c : c[i] \in A
  <2>1. PICK i \in DOMAIN c : e = c[i]
    BY <1>1 DEF FirstAvailable, Firsts
  <2> QED
    BY <2>1, ChainFacts DEF Dims
<1>2. CASE ~\E i \in DOMAIN c : c[i] \in A
  BY <1>2, ChainFacts DEF FirstAvailable, Dims
<1> QED
  BY <1>1, <1>2

LEMMA NoCallTyped ==
    NoCall \in Calls /\ NoCall.could = {} /\ NoCall.at = "idle" /\ NoCall.result = "none" /\ NoCall.undone = FALSE
  BY DEF NoCall, Calls

\* What a call ends with is a call.
LEMMA EndedTyped ==
    ASSUME NEW c \in Calls, NEW result \in {"none", "keyword", "stored", "hybrid", "refused", "panic"}
    PROVE  /\ Ended(c, result) \in Calls
           /\ Ended(c, result).at = "idle" /\ Ended(c, result).result = result
           /\ Ended(c, result).could \subseteq c.could
           /\ Ended(c, result).kind = c.kind /\ (Ended(c, result).undone => c.undone)
           /\ result = "keyword" => /\ Ended(c, result).odd = c.odd /\ Ended(c, result).could = c.could
                                    /\ Ended(c, result).undone = c.undone
<1>1. CASE result = "keyword"
  <2>1. Ended(c, result) = [NoCall EXCEPT !.kind = c.kind, !.result = result, !.odd = c.odd,
                                         !.could = c.could, !.undone = c.undone]
    BY <1>1 DEF Ended
  <2>2. Ended(c, result).undone = c.undone
    BY <2>1 DEF NoCall
  <2>3. Ended(c, result).odd = c.odd /\ Ended(c, result).could = c.could
    BY <2>1 DEF NoCall
  <2>4. Ended(c, result) \in Calls
    <3>1. c.kind \in {"store", "recall", "health"} /\ c.odd \in BOOLEAN /\ c.could \in SUBSET Embedders /\ c.undone \in BOOLEAN
      BY DEF Calls
    <3>2. PICK odd \in BOOLEAN, undone \in BOOLEAN : odd = c.odd /\ undone = c.undone
      BY <3>1
    <3>3. Ended(c, result) = [at |-> "idle", kind |-> c.kind, i |-> 0, vec |-> 0, refused |-> FALSE,
                              odd |-> odd, could |-> c.could, undone |-> undone, result |-> result]
      BY <2>1, <3>2 DEF NoCall
    <3>4. 0 \in Nat
      OBVIOUS
    <3> QED
      BY <3>1, <3>2, <3>3, <3>4 DEF Calls
  <2>5. Ended(c, result).at = "idle" /\ Ended(c, result).result = result /\ Ended(c, result).kind = c.kind
    BY <2>1 DEF NoCall
  <2> QED
    BY <2>2, <2>3, <2>4, <2>5
<1>2. CASE result # "keyword"
  BY <1>2 DEF Ended, NoCall, Calls
<1> QED
  BY <1>1, <1>2

\* A step that changes the call of one goroutine, and leaves the surroundings
\* alone, keeps the type of everything and what is known of the other calls.
LEMMA GoesSound ==
    ASSUME ChainInv, NEW g \in Goroutines, NEW c \in Calls, Goes(g, c),
           UNCHANGED <<up, chain, ready, alive, width>>, Placed(c),
           current' = current \/ \E i \in DOMAIN chain : current' = chain[i],
           indexed' = indexed \/ (up /\ indexed' = indexed \cup {width})
    PROVE  /\ TypeOKChain' /\ call'[g] = c
           /\ \A h \in Goroutines : Placed(call[h])'
           /\ \A h \in Callers : h # g => CallSound(h)'
<1>1. call \in [Goroutines -> Calls] /\ chain \in Chains
  BY DEF ChainInv, TypeOKChain
<1>2. call' \in [Goroutines -> Calls] /\ call'[g] = c /\ \A h \in Goroutines : h # g => call'[h] = call[h]
  BY <1>1 DEF Goes
<1>3. TypeOKChain'
  BY <1>1, <1>2 DEF ChainInv, TypeOKChain, InChain
<1>4. current # None => current' # None
  BY <1>1, ChainFacts
<1>5. ASSUME NEW h \in Callers, h # g
      PROVE  CallSound(h)'
  <2>1. call'[h] = call[h] /\ CallSound(h)
    BY <1>2, <1>5 DEF ChainInv, Goroutines
  <2> QED
    BY <2>1, <1>4 DEF CallSound, CallKnown, NonePassed, InChain, Available
<1>6. \A h \in Goroutines : Placed(call[h])'
  BY <1>2 DEF ChainInv, Placed
<1> QED
  BY <1>2, <1>3, <1>5, <1>6

-----------------------------------------------------------------------------
(* The invariant *)

\* The gateway is down when it starts to exist.
LEMMA InitChainInv == InitChain => ChainInv
<1> SUFFICES ASSUME InitChain
             PROVE  ChainInv
  OBVIOUS
<1>1. TypeOKChain
  BY NoCallTyped, ChainFacts DEF InitChain, TypeOKChain
<1>2. OneWidth
  BY DEF InitChain, OneWidth
<1>3. \A g \in Goroutines : Placed(call[g])
  BY NoCallTyped DEF InitChain, Placed
<1>4. \A g \in Callers : CallSound(g)
  BY NoCallTyped DEF InitChain, CallSound, CallKnown, Checking, Goroutines
<1> QED
  BY <1>1, <1>2, <1>3, <1>4 DEF ChainInv

\* Starts, stops, failures and recoveries keep it.
LEMMA SurroundingsInv ==
    ASSUME ChainInv,
           \/ \E c \in Chains : Start(c)
           \/ Down
           \/ \E e \in Embedders : Fails(e) \/ Recovers(e)
    PROVE  ChainInv'
<1>0. /\ call \in [Goroutines -> Calls] /\ chain \in Chains /\ indexed \subseteq Widths
      /\ ready \subseteq Local /\ alive \subseteq Embedders /\ width \in Widths
      /\ current = None \/ InChain(current)
      /\ TypeOKChain
  BY DEF ChainInv, TypeOKChain
<1>1. ASSUME NEW c \in Chains, Start(c)
      PROVE  ChainInv'
  <2> DEFINE started == {e \in Local : (\E i \in DOMAIN c : c[i] = e) /\ e \in alive}
  <2> DEFINE A == {e \in Embedders : IsAvailable(e, started, alive)}
  <2>1. PICK active \in FirstAvailable(c, A) :
          (indexed = {} \/ Dims(c, active) \in indexed) /\ current' = active /\ width' = Dims(c, active)
    BY <1>1 DEF Start
  <2>2. (active = None \/ \E i \in DOMAIN c : c[i] = active) /\ Dims(c, active) \in Widths
    BY ActiveFacts
  <2>3. up' = TRUE /\ chain' = c /\ ready' \subseteq Local /\ alive' = alive /\ indexed' = indexed
    BY <1>1 DEF Start
  <2>4. /\ call' \in [Goroutines -> Calls]
        /\ \A g \in Goroutines : call'[g].at \in {"idle", "look"}
        /\ \A g \in Callers : call'[g] = NoCall
    BY <1>1, NoCallTyped, GoroutineAssumption DEF Start, Calls, Goroutines
  <2>5. TypeOKChain'
    BY <1>0, <2>1, <2>2, <2>3, <2>4 DEF TypeOKChain, InChain
  <2>6. OneWidth'
    BY <2>1, <2>3 DEF ChainInv, OneWidth
  <2>7. \A g \in Goroutines : Placed(call[g])'
    BY <2>4 DEF Placed
  <2>8. \A g \in Callers : CallSound(g)'
    BY <2>4, NoCallTyped DEF CallSound, CallKnown, Checking
  <2> QED
    BY <2>5, <2>6, <2>7, <2>8 DEF ChainInv
<1>2. CASE Down
  <2>1. TypeOKChain'
    BY <1>0, <1>2, NoCallTyped DEF Down, TypeOKChain
  <2>2. OneWidth'
    BY <1>2 DEF Down, ChainInv, OneWidth
  <2>3. \A g \in Goroutines : Placed(call[g])'
    BY <1>2, NoCallTyped DEF Down, Placed
  <2>4. \A g \in Callers : CallSound(g)'
    BY <1>2, NoCallTyped DEF Down, CallSound, CallKnown, Checking, Goroutines
  <2> QED
    BY <2>1, <2>2, <2>3, <2>4 DEF ChainInv
<1>3. ASSUME NEW e \in Embedders, Fails(e)
      PROVE  ChainInv'
  <2>1. \A g \in Goroutines : call'[g] = [call[g] EXCEPT !.could = @ \ {e}]
    BY <1>3 DEF Fails
  <2>2. \A c \in Calls : /\ [c EXCEPT !.could = @ \ {e}] \in Calls
                         /\ [c EXCEPT !.could = @ \ {e}].could = c.could \ {e}
                         /\ [c EXCEPT !.could = @ \ {e}].at = c.at
                         /\ [c EXCEPT !.could = @ \ {e}].i = c.i
                         /\ [c EXCEPT !.could = @ \ {e}].odd = c.odd
                         /\ [c EXCEPT !.could = @ \ {e}].vec = c.vec
                         /\ [c EXCEPT !.could = @ \ {e}].result = c.result
                         /\ [c EXCEPT !.could = @ \ {e}].kind = c.kind
                         /\ [c EXCEPT !.could = @ \ {e}].undone = c.undone
    BY DEF Calls
  <2>3. call' \in [Goroutines -> Calls]
    BY <1>0, <1>3, <2>2 DEF Fails
  <2>4. TypeOKChain'
    BY <1>0, <1>3, <2>3 DEF Fails, TypeOKChain, InChain
  <2>5. OneWidth'
    BY <1>3 DEF Fails, ChainInv, OneWidth
  <2>6. ASSUME NEW g \in Callers
        PROVE  CallSound(g)'
    <3>1. /\ call'[g].could = call[g].could \ {e} /\ call'[g].at = call[g].at /\ call'[g].i = call[g].i
          /\ call'[g].odd = call[g].odd /\ call'[g].vec = call[g].vec /\ call'[g].result = call[g].result
          /\ call'[g].kind = call[g].kind /\ call'[g].undone = call[g].undone
      BY <1>0, <2>1, <2>2 DEF Goroutines
    <3>2. CallSound(g) /\ alive' = alive \ {e} /\ UNCHANGED <<up, chain, current, ready>>
      BY <1>3 DEF ChainInv, Fails
    <3>3. CallKnown(call[g])'
      BY <3>1, <3>2 DEF CallSound, CallKnown, NonePassed
    <3>4. \A x \in call'[g].could : x \in alive' /\ InChain(x)' /\ Available(x)'
      BY <3>1, <3>2 DEF CallSound, InChain, Available, IsAvailable
    <3> QED
      BY <3>1, <3>2, <3>3, <3>4 DEF CallSound
  <2>7. \A g \in Goroutines : Placed(call[g])'
    <3>1. \A g \in Goroutines : call'[g].at = call[g].at /\ call'[g].i = call[g].i
      BY <1>0, <2>1, <2>2
    <3> QED
      BY <1>3, <3>1 DEF Fails, ChainInv, Placed
  <2> QED
    BY <2>4, <2>5, <2>6, <2>7 DEF ChainInv
<1>4. ASSUME NEW e \in Embedders, Recovers(e)
      PROVE  ChainInv'
  <2>1. TypeOKChain' /\ OneWidth'
    BY <1>0, <1>4 DEF Recovers, ChainInv, TypeOKChain, OneWidth, InChain
  <2>2. \A g \in Callers : CallSound(g)'
    BY <1>4 DEF Recovers, ChainInv, CallSound, CallKnown, NonePassed, InChain, Available, IsAvailable
  <2>3. \A g \in Goroutines : Placed(call[g])'
    BY <1>4 DEF Recovers, ChainInv, Placed
  <2> QED
    BY <2>1, <2>2, <2>3 DEF ChainInv
<1> QED
  BY <1>1, <1>2, <1>3, <1>4

\* What a call is known to have missed when it ends is known of it afterwards.
LEMMA EndsKnown ==
    ASSUME NEW c \in Calls, CallKnown(c),
           NEW result \in {"keyword", "stored", "hybrid", "refused"}, result = "keyword" => c.could = {} \/ c.odd
    PROVE  CallKnown(Ended(c, result)) /\ Placed(Ended(c, result))
<1> DEFINE n == Ended(c, result)
<1>1. n.at = "idle" /\ n.result = result /\ n.kind = c.kind
  BY EndedTyped
<1>2. n.undone => c.undone
  BY EndedTyped
<1>3. result = "keyword" => n.odd = c.odd /\ n.could = c.could
  BY EndedTyped
<1> HIDE DEF n
<1>4. CallKnown(n) /\ Placed(n)
  BY <1>1, <1>2, <1>3 DEF CallKnown, Placed, Checking
<1> QED
  BY <1>4 DEF n

\* What a step of a call makes of it holds, and the rest is as it was.
LEMMA GoesInv ==
    ASSUME ChainInv, NEW g \in Goroutines, NEW c \in Calls, Goes(g, c), Elsewhere, Placed(c),
           current' = current \/ \E i \in DOMAIN chain : current' = chain[i],
           g \in Callers => /\ CallKnown(c) /\ c.could \subseteq call[g].could
                            /\ c.at = "report" => c.could = {} \/ c.undone \/ current' # None
    PROVE  ChainInv'
<1>1. /\ TypeOKChain' /\ call'[g] = c /\ \A h \in Goroutines : Placed(call[h])'
      /\ \A h \in Callers : h # g => CallSound(h)'
  BY GoesSound DEF Elsewhere
<1>2. OneWidth'
  BY DEF Elsewhere, ChainInv, OneWidth
<1>3. ASSUME g \in Callers
      PROVE  CallSound(g)'
  <2>1. CallSound(g)
    BY <1>3 DEF ChainInv
  <2>2. CallKnown(call[g])'
    BY <1>1, <1>3 DEF Elsewhere, CallKnown, NonePassed
  <2>3. \A e \in call'[g].could : e \in alive' /\ InChain(e)' /\ Available(e)'
    BY <1>1, <1>3, <2>1 DEF Elsewhere, CallSound, InChain, Available
  <2> QED
    BY <1>1, <1>3, <2>2, <2>3 DEF CallSound
<1> QED
  BY <1>1, <1>2, <1>3 DEF ChainInv

\* Every step of HealthCheck keeps it, whoever takes it.
LEMMA HealthCheckInv ==
    ASSUME ChainInv, NEW g \in Goroutines, HealthCheck(g)
    PROVE  ChainInv'
<1>0. /\ call[g] \in Calls /\ chain \in Chains /\ TypeOKChain
      /\ call[g].at \in Checking /\ Placed(call[g])
      /\ DOMAIN chain = 1..Len(chain) /\ Len(chain) \in Nat
  BY ChainFacts DEF ChainInv, TypeOKChain, HealthCheck, SelectActive, Look, Probe, AskInTurn, Prefer, PreferNone, Report, Name, Checking
<1>a. g \in Callers => /\ CallSound(g) /\ CallKnown(call[g]) /\ call[g].kind = "store" /\ up
  <2>1. ASSUME g \in Callers
        PROVE  CallSound(g) /\ CallKnown(call[g])
    BY <2>1 DEF ChainInv, CallSound
  <2> QED
    BY <1>0, <2>1 DEF CallKnown, Checking
<1>1. ASSUME NEW a \in {"probe", "name", "embed"}, Goes(g, [call[g] EXCEPT !.at = a]), Elsewhere, UNCHANGED current
      PROVE  ChainInv'
  <2> DEFINE c == [call[g] EXCEPT !.at = a]
  <2>1. /\ c \in Calls /\ c.at = a /\ c.could = call[g].could /\ c.result = call[g].result /\ c.odd = call[g].odd
        /\ c.undone = call[g].undone /\ c.kind = call[g].kind
    BY <1>0 DEF Calls
  <2>2. Placed(c) /\ Goes(g, c)
    BY <1>1, <2>1 DEF Placed
  <2>3. g \in Callers => CallKnown(c)
    BY <1>a, <2>1 DEF CallKnown
  <2> HIDE DEF c
  <2> QED
    BY <1>1, <2>1, <2>2, <2>3, GoesInv
<1>2. ASSUME Goes(g, Selects(call[g])), Elsewhere, UNCHANGED current
      PROVE  ChainInv'
  <2> DEFINE c == Selects(call[g])
  <2>1. /\ c \in Calls /\ c.at = "select" /\ c.i = 1 /\ c.could = call[g].could /\ c.result = call[g].result
        /\ c.odd = call[g].odd /\ c.undone = call[g].undone /\ c.kind = call[g].kind
    BY <1>0 DEF Calls, Selects
  <2>2. Placed(c) /\ Goes(g, c)
    BY <1>2, <2>1 DEF Placed
  <2>3. c.i >= 1 /\ NonePassed(c)
    BY <1>0, <2>1 DEF NonePassed
  <2>4. g \in Callers => CallKnown(c)
    BY <1>a, <2>1, <2>3 DEF CallKnown
  <2> HIDE DEF c
  <2> QED
    BY <1>2, <2>1, <2>2, <2>4, GoesInv
<1>3. CASE Look(g)
  BY <1>1, <1>2, <1>3 DEF Look
<1>4. CASE Probe(g)
  BY <1>1, <1>2, <1>4 DEF Probe
<1>5. CASE AskInTurn(g)
  <2>0. call[g].at = "select" /\ call[g].i \in DOMAIN chain /\ call[g].i \in Nat /\ Elsewhere /\ UNCHANGED current
    BY <1>0, <1>5 DEF AskInTurn
  <2>1. CASE Available(chain[call[g].i])
    <3> DEFINE c == [call[g] EXCEPT !.at = "prefer"]
    <3>1. /\ c \in Calls /\ c.at = "prefer" /\ c.i = call[g].i /\ c.could = call[g].could /\ c.result = call[g].result
          /\ c.odd = call[g].odd /\ c.undone = call[g].undone /\ c.kind = call[g].kind
      BY <1>0 DEF Calls
    <3>2. Placed(c) /\ Goes(g, c)
      BY <1>5, <2>0, <2>1, <3>1 DEF Placed, AskInTurn
    <3>3. g \in Callers => CallKnown(c)
      BY <1>a, <3>1 DEF CallKnown
    <3> HIDE DEF c
    <3> QED
      BY <2>0, <3>1, <3>2, <3>3, GoesInv
  <2>2. CASE ~Available(chain[call[g].i])
    <3> DEFINE c == [call[g] EXCEPT !.i = @ + 1]
    <3>1. /\ c \in Calls /\ c.at = "select" /\ c.i = call[g].i + 1 /\ c.could = call[g].could /\ c.result = call[g].result
          /\ c.odd = call[g].odd /\ c.undone = call[g].undone /\ c.kind = call[g].kind
      BY <1>0, <2>0 DEF Calls
    <3>2. Placed(c) /\ Goes(g, c)
      BY <1>5, <2>2, <3>1 DEF Placed, AskInTurn
    <3>3. ASSUME g \in Callers
          PROVE  c.i >= 1 /\ NonePassed(c)
      <4>1. call[g].i >= 1 /\ NonePassed(call[g]) /\ chain[call[g].i] \notin call[g].could
        BY <1>a, <2>0, <2>2, <3>3 DEF CallKnown, CallSound
      <4>2. \A k \in DOMAIN chain : k < call[g].i + 1 => k < call[g].i \/ k = call[g].i
        BY <1>0, <2>0
      <4>3. c.i >= 1
        BY <2>0, <3>1, <4>1
      <4> HIDE DEF c
      <4> QED
        BY <3>1, <4>1, <4>2, <4>3 DEF NonePassed
    <3>4. g \in Callers => CallKnown(c)
      BY <1>a, <3>1, <3>3 DEF CallKnown
    <3> HIDE DEF c
    <3> QED
      BY <2>0, <3>1, <3>2, <3>4, GoesInv
  <2> QED
    BY <2>1, <2>2
<1>6. /\ Selected(call[g]) \in Calls /\ Selected(call[g]).at = "report" /\ Selected(call[g]).could = call[g].could
      /\ Selected(call[g]).result = call[g].result /\ Selected(call[g]).odd = call[g].odd
      /\ Selected(call[g]).undone = call[g].undone /\ Selected(call[g]).kind = call[g].kind
  BY <1>0 DEF Calls, Selected
<1>7. Placed(Selected(call[g])) /\ (g \in Callers => CallKnown(Selected(call[g])))
  BY <1>a, <1>6 DEF Placed, CallKnown
<1>8. CASE Prefer(g)
  <2>1. call[g].i \in DOMAIN chain /\ current' = chain[call[g].i] /\ Goes(g, Selected(call[g])) /\ Elsewhere
    BY <1>0, <1>8 DEF Prefer, Placed
  <2>2. current' # None
    BY <1>0, <2>1, ChainFacts
  <2> QED
    BY <1>6, <1>7, <2>1, <2>2, GoesInv
\* A nil undoes the selections that have not been read back.
<1>9. CASE PreferNone(g)
  <2>1. call[g].at = "select" /\ call[g].i \notin DOMAIN chain /\ current' = None /\ Elsewhere
    BY <1>9 DEF PreferNone
  <2> DEFINE undo(h) == [call[h] EXCEPT !.undone = @ \/ call[h].at = "report"]
  <2>2. ASSUME NEW h \in Goroutines
        PROVE  /\ undo(h) \in Calls /\ undo(h).at = call[h].at /\ undo(h).i = call[h].i /\ undo(h).could = call[h].could
               /\ undo(h).result = call[h].result /\ undo(h).odd = call[h].odd /\ undo(h).kind = call[h].kind
               /\ undo(h).vec = call[h].vec
               /\ call[h].undone => undo(h).undone
               /\ call[h].at = "report" => undo(h).undone
               /\ undo(h).undone => call[h].undone \/ call[h].at = "report"
    <3>1. call[h] \in Calls /\ (call[h].undone \/ call[h].at = "report") \in BOOLEAN
      BY <2>2 DEF ChainInv, TypeOKChain
    <3>2. PICK b \in BOOLEAN : b = (call[h].undone \/ call[h].at = "report")
      BY <3>1
    <3>3. undo(h) = [call[h] EXCEPT !.undone = b]
      BY <3>2
    <3>4. /\ [call[h] EXCEPT !.undone = b] \in Calls /\ [call[h] EXCEPT !.undone = b].undone = b
      BY <3>1 DEF Calls
    <3>5. /\ undo(h).at = call[h].at /\ undo(h).i = call[h].i /\ undo(h).could = call[h].could
          /\ undo(h).result = call[h].result /\ undo(h).odd = call[h].odd /\ undo(h).kind = call[h].kind
          /\ undo(h).vec = call[h].vec
      BY <3>1, <3>3 DEF Calls
    <3> HIDE DEF undo
    <3> QED
      BY <3>2, <3>3, <3>4, <3>5
  <2>3. /\ call' \in [Goroutines -> Calls] /\ call'[g] = Selected(call[g])
        /\ \A h \in Goroutines : h # g => call'[h] = undo(h)
    <3>1. call' = [h \in Goroutines |-> IF h = g THEN Selected(call[h]) ELSE undo(h)]
      BY <1>9 DEF PreferNone
    <3> HIDE DEF undo
    <3> QED
      BY <1>6, <2>2, <3>1
  <2> HIDE DEF undo
  <2>4. TypeOKChain'
    BY <1>0, <2>1, <2>3 DEF TypeOKChain, Elsewhere, InChain
  <2>5. OneWidth'
    BY <2>1 DEF Elsewhere, ChainInv, OneWidth
  <2>6. ASSUME NEW h \in Goroutines
        PROVE  Placed(call[h])'
    <3>1. Placed(call[h]) /\ chain' = chain
      BY <2>1 DEF ChainInv, Elsewhere
    <3>2. h # g => call'[h].at = call[h].at /\ call'[h].i = call[h].i
      BY <2>2, <2>3
    <3> QED
      BY <1>6, <2>3, <3>1, <3>2 DEF Placed
  <2>7. ASSUME NEW h \in Callers, h # g
        PROVE  CallSound(h)'
    <3>1. CallSound(h) /\ h \in Goroutines /\ CallKnown(call[h]) /\ UNCHANGED <<up, chain, alive, ready>>
      BY <2>1 DEF ChainInv, CallSound, Goroutines, Elsewhere
    <3>2. call'[h] = undo(h)
      BY <2>3, <2>7, <3>1
    <3>3. call[h].at = "report" => call[h].kind = "store"
      BY <3>1 DEF CallKnown, Checking
    <3>4. CallKnown(call[h])'
      BY <2>2, <3>1, <3>2, <3>3 DEF CallKnown, NonePassed
    <3>5. \A e \in call'[h].could : e \in alive' /\ InChain(e)' /\ Available(e)'
      BY <2>2, <3>1, <3>2 DEF CallSound, InChain, Available
    <3> QED
      BY <2>2, <3>1, <3>2, <3>4, <3>5 DEF CallSound
  <2>8. ASSUME g \in Callers
        PROVE  CallSound(g)'
    <3>1. call[g].i >= 1 /\ NonePassed(call[g]) /\ call[g].i \in Nat
      BY <1>0, <1>a, <2>1, <2>8 DEF CallKnown, Calls
    <3>2. \A k \in DOMAIN chain : k < call[g].i
      BY <1>0, <2>1, <3>1
    <3>3. call[g].could = {}
      BY <1>a, <2>8, <3>1, <3>2 DEF NonePassed, CallSound, InChain
    <3>4. CallKnown(call[g])'
      BY <1>7, <2>1, <2>3, <2>8 DEF Elsewhere, CallKnown, NonePassed
    <3> QED
      BY <1>6, <2>3, <3>3, <3>4 DEF CallSound
  <2> QED
    BY <2>4, <2>5, <2>6, <2>7, <2>8 DEF ChainInv
<1>10. ASSUME Goes(g, [NoCall EXCEPT !.at = "look"]), g = Health, Elsewhere, UNCHANGED current
      PROVE  ChainInv'
  <2>1. [NoCall EXCEPT !.at = "look"] \in Calls /\ [NoCall EXCEPT !.at = "look"].at = "look" /\ g \notin Callers
    BY <1>10, NoCallTyped, GoroutineAssumption DEF Calls
  <2>2. Placed([NoCall EXCEPT !.at = "look"])
    BY <2>1 DEF Placed
  <2> QED
    BY <1>10, <2>1, <2>2, GoesInv
<1>11. CASE Report(g)
  <2>1. CASE current # None
    BY <1>1, <1>11, <2>1 DEF Report
  <2>2. CASE current = None /\ g = Health
    BY <1>10, <1>11, <2>2 DEF Report, Checked
  <2>3. CASE current = None /\ g # Health
    <3> DEFINE c == Ended(call[g], "keyword")
    <3>1. g \in Callers /\ call[g].at = "report" /\ Goes(g, c) /\ Elsewhere /\ UNCHANGED current
      BY <1>11, <2>3 DEF Report, Checked, Goroutines
    <3>2. call[g].could = {} \/ call[g].undone
      BY <1>a, <2>3, <3>1 DEF CallSound
    <3>3. /\ c \in Calls /\ c.at = "idle" /\ c.could = call[g].could /\ c.kind = call[g].kind
          /\ c.undone = call[g].undone /\ c.result = "keyword"
      BY <1>0, EndedTyped
    <3>4. Placed(c) /\ CallKnown(c)
      BY <1>a, <3>1, <3>2, <3>3 DEF Placed, CallKnown, Checking
    <3> HIDE DEF c
    <3> QED
      BY <3>1, <3>3, <3>4, GoesInv
  <2> QED
    BY <2>1, <2>2, <2>3
<1>12. CASE Name(g)
  <2>1. CASE g = Health
    BY <1>10, <1>12, <2>1 DEF Name, Checked
  <2>2. CASE g # Health
    BY <1>1, <1>12, <2>2 DEF Name, Checked
  <2> QED
    BY <2>1, <2>2
<1> QED
  BY <1>3, <1>4, <1>5, <1>8, <1>9, <1>11, <1>12 DEF HealthCheck, SelectActive

\* Every step of Embed keeps it.
LEMMA EmbedInv ==
    ASSUME ChainInv, NEW g \in Callers, Embed(g)
    PROVE  ChainInv'
<1>0. /\ call[g] \in Calls /\ chain \in Chains /\ TypeOKChain /\ CallSound(g) /\ g \in Goroutines
      /\ DOMAIN chain = 1..Len(chain) /\ Len(chain) \in Nat
  BY ChainFacts DEF ChainInv, TypeOKChain, Goroutines
<1>a. up
  <2>1. call[g].at # "idle"
    BY DEF Embed, LookToEmbed, ProbeToEmbed, Try, Fall, AskToFall, Adopt, NoVector
  <2> QED
    BY <1>0, <2>1 DEF CallSound, CallKnown
<1>b. CallKnown(call[g]) /\ Placed(call[g])
  BY <1>0 DEF ChainInv, CallSound
<1>1. ASSUME NEW c \in Calls, Goes(g, c), Elsewhere, c.at \in {"probeEmbed", "try", "fall", "ask", "adopt", "vector"},
             current' = current \/ \E i \in DOMAIN chain : current' = chain[i],
             c.could = call[g].could, call[g].odd => c.odd, c.result = call[g].result,
             c.undone = call[g].undone, c.kind = call[g].kind,
             c.at \in {"adopt", "vector"} /\ c.vec = 0 => c.odd,
             c.at \in {"ask", "adopt"} => c.i \in DOMAIN chain,
             c.at \in {"fall", "ask"} => c.i >= 1 /\ (c.odd \/ NonePassed(c))
      PROVE  ChainInv'
  <2>1. Placed(c) /\ c.at # "report"
    BY <1>1 DEF Placed
  <2>2. CallKnown(c)
    <3>1. c.at \notin Checking /\ c.at # "select"
      BY <1>1 DEF Checking
    <3>2. c.result = "keyword" => c.could = {} \/ c.odd \/ c.undone
      BY <1>b, <1>1 DEF CallKnown
    <3>3. c.undone => c.kind = "store"
      BY <1>b, <1>1 DEF CallKnown
    <3> QED
      BY <1>a, <1>1, <3>1, <3>2, <3>3 DEF CallKnown
  <2> QED
    BY <1>0, <1>1, <2>1, <2>2, GoesInv
<1>2. ASSUME NEW a \in {"probeEmbed", "try"}, Goes(g, [call[g] EXCEPT !.at = a]), Elsewhere, UNCHANGED current
      PROVE  ChainInv'
  <2> DEFINE c == [call[g] EXCEPT !.at = a]
  <2>1. /\ c \in Calls /\ c.could = call[g].could /\ c.odd = call[g].odd /\ c.result = call[g].result /\ c.at = a
        /\ c.undone = call[g].undone /\ c.kind = call[g].kind
    BY <1>0 DEF Calls
  <2>2. Goes(g, c) /\ (call[g].odd => c.odd)
    BY <1>2, <2>1
  <2> HIDE DEF c
  <2> QED
    BY <1>1, <1>2, <2>1, <2>2
<1>3. ASSUME Goes(g, [call[g] EXCEPT !.at = "fall", !.i = 1]), Elsewhere, UNCHANGED current
      PROVE  ChainInv'
  <2> DEFINE c == [call[g] EXCEPT !.at = "fall", !.i = 1]
  <2>1. /\ c \in Calls /\ c.could = call[g].could /\ c.odd = call[g].odd /\ c.result = call[g].result
        /\ c.at = "fall" /\ c.i = 1 /\ c.undone = call[g].undone /\ c.kind = call[g].kind
    BY <1>0 DEF Calls
  <2>2. c.i >= 1 /\ \A k \in DOMAIN chain : ~(k < c.i)
    BY <1>0, <2>1
  <2>3. c.i >= 1 /\ NonePassed(c)
    BY <2>2 DEF NonePassed
  <2>4. Goes(g, c) /\ (call[g].odd => c.odd)
    BY <1>3, <2>1
  <2> HIDE DEF c
  <2> QED
    BY <1>1, <1>3, <2>1, <2>3, <2>4
<1>4. CASE LookToEmbed(g)
  <2>1. CASE current # None
    BY <1>2, <1>4, <2>1 DEF LookToEmbed
  <2>2. CASE current = None
    BY <1>3, <1>4, <2>2 DEF LookToEmbed
  <2> QED
    BY <2>1, <2>2
<1>5. CASE ProbeToEmbed(g)
  <2>1. CASE Available(current)
    BY <1>2, <1>5, <2>1 DEF ProbeToEmbed
  <2>2. CASE ~Available(current)
    BY <1>3, <1>5, <2>2 DEF ProbeToEmbed
  <2> QED
    BY <2>1, <2>2
\* An answer notes whether it is of the embedder's width.
<1>6. ASSUME NEW e \in Embedders, NEW w \in Answers(e)
      PROVE  /\ Noted(call[g], e, w) = [call[g] EXCEPT !.odd = call[g].odd \/ w # Width[e]]
             /\ Noted(call[g], e, w) \in Calls
             /\ Noted(call[g], e, w).could = call[g].could /\ Noted(call[g], e, w).result = call[g].result
             /\ Noted(call[g], e, w).i = call[g].i /\ Noted(call[g], e, w).kind = call[g].kind
             /\ Noted(call[g], e, w).undone = call[g].undone
             /\ call[g].odd => Noted(call[g], e, w).odd
             /\ w = 0 \/ w = Mismatch => Noted(call[g], e, w).odd
             /\ w # Mismatch => w \in Widths \cup {0}
  <2>1. Width[e] # 0 /\ Width[e] # Mismatch /\ Width[e] \in Widths
    BY WidthFacts
  <2>2. w = Width[e] \/ w = Mismatch \/ w = 0
    BY DEF Answers
  <2>3. CASE w = Width[e]
    BY <1>0, <2>1, <2>3 DEF Noted, Calls
  <2>4. CASE w # Width[e]
    <3>1. (call[g].odd \/ w # Width[e]) = TRUE
      BY <2>4
    <3>2. Noted(call[g], e, w) = [call[g] EXCEPT !.odd = TRUE]
      BY <3>1 DEF Noted
    <3> QED
      BY <1>0, <2>1, <2>2, <2>4, <3>1, <3>2 DEF Calls
  <2> QED
    BY <2>3, <2>4
<1>7. ASSUME NEW e \in Embedders, NEW w \in Answers(e), w # Mismatch, NEW a \in {"vector", "adopt"},
             a = "adopt" => call[g].i \in DOMAIN chain,
             Goes(g, [Noted(call[g], e, w) EXCEPT !.at = a, !.vec = w]), Elsewhere, UNCHANGED current
      PROVE  ChainInv'
  <2> DEFINE n == Noted(call[g], e, w)
             c == [n EXCEPT !.at = a, !.vec = w]
  <2>1. n \in Calls /\ w \in Widths \cup {0}
    BY <1>6, <1>7
  <2>2. /\ c \in Calls /\ c.could = n.could /\ c.odd = n.odd /\ c.result = n.result
        /\ c.at = a /\ c.vec = w /\ c.i = n.i /\ c.undone = n.undone /\ c.kind = n.kind
    <3> HIDE DEF n
    <3> QED
      BY <1>7, <2>1 DEF Calls
  <2>3. /\ n.could = call[g].could /\ n.result = call[g].result /\ n.i = call[g].i /\ n.kind = call[g].kind
        /\ n.undone = call[g].undone /\ (call[g].odd => n.odd) /\ (w = 0 => n.odd)
    BY <1>6, <1>7
  <2>4. Goes(g, c) /\ current' = current
    BY <1>7
  <2>5. c.at \in {"vector", "adopt"} /\ (c.at = "adopt" => c.i \in DOMAIN chain)
    BY <1>7, <2>2, <2>3
  <2> HIDE DEF c, n
  <2> QED
    BY <1>1, <1>7, <2>2, <2>3, <2>4, <2>5
<1>8. CASE Try(g)
  <2>0. current \in Embedders
    BY <1>0, <1>8, ChainFacts DEF Try, TypeOKChain, InChain
  <2>1. CASE Goes(g, [call[g] EXCEPT !.at = "fall", !.i = 1])
    BY <1>3, <1>8, <2>1 DEF Try
  <2>2. ASSUME NEW w \in Answers(current), w = Mismatch,
               Goes(g, [Noted(call[g], current, w) EXCEPT !.at = "fall", !.i = 1])
        PROVE  ChainInv'
    <3> DEFINE n == Noted(call[g], current, w)
               c == [n EXCEPT !.at = "fall", !.i = 1]
    <3>1. /\ n \in Calls /\ n.odd /\ n.could = call[g].could /\ n.result = call[g].result
          /\ n.kind = call[g].kind /\ n.undone = call[g].undone
      BY <1>6, <2>0, <2>2
    <3>2. /\ c \in Calls /\ c.could = n.could /\ c.odd = n.odd /\ c.result = n.result /\ c.at = "fall" /\ c.i = 1
          /\ c.kind = n.kind /\ c.undone = n.undone
      BY <3>1 DEF Calls
    <3>3. c.i >= 1
      BY <3>2
    <3>4. /\ c.odd /\ c.could = call[g].could /\ c.result = call[g].result
          /\ c.kind = call[g].kind /\ c.undone = call[g].undone
      BY <3>1, <3>2
    <3>5. Goes(g, c) /\ Elsewhere /\ current' = current
      BY <1>8, <2>2 DEF Try
    <3> HIDE DEF c, n
    <3> QED
      BY <1>1, <3>2, <3>3, <3>4, <3>5
  <2>3. ASSUME NEW w \in Answers(current), w # Mismatch,
               Goes(g, [Noted(call[g], current, w) EXCEPT !.at = "vector", !.vec = w])
        PROVE  ChainInv'
    <3>1. Elsewhere /\ UNCHANGED current
      BY <1>8 DEF Try
    <3>2. "vector" \in {"vector", "adopt"} /\ "vector" # "adopt"
      OBVIOUS
    <3> QED
      BY <1>7, <2>0, <2>3, <3>1, <3>2
  <2> QED
    BY <1>8, <2>1, <2>2, <2>3 DEF Try
<1> DEFINE e == chain[call[g].i]
<1>9. call[g].i \in DOMAIN chain => e \in Embedders /\ call[g].i \in Nat
  BY <1>0, ChainFacts
\* Nothing that the call could count on is passed over.
<1>10. ASSUME NEW n \in Calls, n.could = call[g].could, call[g].odd => n.odd, n.result = call[g].result,
              n.kind = call[g].kind, n.undone = call[g].undone, n.i = call[g].i,
              call[g].at \in {"fall", "ask"}, call[g].i \in DOMAIN chain,
              e \notin call[g].could \/ n.odd,
              NEW r \in BOOLEAN, Goes(g, [GoesOn(n) EXCEPT !.refused = r]), Elsewhere, UNCHANGED current
       PROVE  ChainInv'
  <2> DEFINE c == [GoesOn(n) EXCEPT !.refused = r]
  <2>1. n.i \in Nat /\ n.i + 1 \in Nat /\ n.i + 1 >= 1
    BY <1>9, <1>10
  <2>2. /\ c \in Calls /\ c.could = n.could /\ c.odd = n.odd /\ c.result = n.result /\ c.at = "fall"
        /\ c.i = n.i + 1 /\ c.kind = n.kind /\ c.undone = n.undone
    BY <1>10, <2>1 DEF Calls, GoesOn
  <2>3. \A k \in DOMAIN chain : k < c.i => k < call[g].i \/ k = call[g].i
    BY <1>0, <1>9, <1>10, <2>2
  <2>4. call[g].odd \/ NonePassed(call[g])
    BY <1>b, <1>10 DEF CallKnown
  <2>5. c.odd \/ NonePassed(c)
    BY <1>10, <2>2, <2>3, <2>4 DEF NonePassed
  <2>6. Goes(g, c) /\ current' = current /\ c.could = call[g].could /\ (call[g].odd => c.odd)
        /\ c.result = call[g].result /\ c.kind = call[g].kind /\ c.undone = call[g].undone /\ c.i >= 1
    BY <1>10, <2>1, <2>2
  <2> HIDE DEF c
  <2> QED
    BY <1>1, <1>10, <2>2, <2>5, <2>6
<1>11. CASE Fall(g)
  <2>0. call[g].at = "fall" /\ call[g].i \in DOMAIN chain /\ Elsewhere /\ UNCHANGED current
    BY <1>11 DEF Fall
  <2>1. CASE Available(e)
    <3> DEFINE c == [call[g] EXCEPT !.at = "ask"]
    <3>1. /\ c \in Calls /\ c.could = call[g].could /\ c.odd = call[g].odd /\ c.result = call[g].result /\ c.at = "ask"
          /\ c.undone = call[g].undone /\ c.kind = call[g].kind /\ c.i = call[g].i
      BY <1>0 DEF Calls
    <3>2. Goes(g, c) /\ (call[g].odd => c.odd)
      BY <1>11, <2>1, <3>1 DEF Fall
    <3>3. c.i >= 1 /\ (c.odd \/ NonePassed(c))
      BY <1>b, <2>0, <3>1 DEF CallKnown, NonePassed
    <3> HIDE DEF c
    <3> QED
      BY <1>1, <2>0, <3>1, <3>2, <3>3
  <2>2. CASE ~Available(e)
    <3>1. GoesOn(call[g]) = [GoesOn(call[g]) EXCEPT !.refused = call[g].refused] /\ call[g].refused \in BOOLEAN
      BY <1>0 DEF Calls, GoesOn
    <3>2. e \notin call[g].could
      BY <1>0, <2>2 DEF CallSound
    <3>3. Goes(g, [GoesOn(call[g]) EXCEPT !.refused = call[g].refused])
      BY <1>11, <2>2, <3>1 DEF Fall
    <3> QED
      BY <1>0, <1>10, <2>0, <3>1, <3>2, <3>3
  <2> QED
    BY <2>1, <2>2
<1>12. CASE AskToFall(g)
  <2>0. call[g].at = "ask" /\ call[g].i \in DOMAIN chain /\ e \in Embedders /\ Elsewhere /\ UNCHANGED current
    BY <1>b, <1>9, <1>12 DEF AskToFall, Placed
  <2>1. CASE Answers(e) = {} /\ Goes(g, [GoesOn(call[g]) EXCEPT !.refused = FALSE])
    <3>1. e \notin alive
      BY <2>1 DEF Answers
    <3>2. e \notin call[g].could
      BY <1>0, <3>1 DEF CallSound
    <3> QED
      BY <1>0, <1>10, <2>0, <2>1, <3>2
  <2>2. CASE Mismatch \in Answers(e) /\ Goes(g, [GoesOn(Noted(call[g], e, Mismatch)) EXCEPT !.refused = TRUE])
    <3> DEFINE n == Noted(call[g], e, Mismatch)
    <3>1. /\ n \in Calls /\ n.could = call[g].could /\ n.result = call[g].result /\ n.i = call[g].i
          /\ n.kind = call[g].kind /\ n.undone = call[g].undone /\ n.odd
      BY <1>6, <2>0, <2>2
    <3>2. Goes(g, [GoesOn(n) EXCEPT !.refused = TRUE]) /\ TRUE \in BOOLEAN
      BY <2>2
    <3> HIDE DEF n
    <3> QED
      BY <1>10, <2>0, <3>1, <3>2
  <2>3. ASSUME NEW w \in Answers(e) \ {Mismatch}, Goes(g, [Noted(call[g], e, w) EXCEPT !.at = "adopt", !.vec = w])
        PROVE  ChainInv'
    <3>1. "adopt" \in {"vector", "adopt"} /\ w \in Answers(e) /\ w # Mismatch
      BY <2>3
    <3> QED
      BY <1>7, <2>0, <2>3, <3>1
  <2> QED
    BY <1>12, <2>1, <2>2, <2>3 DEF AskToFall
<1>13. CASE Adopt(g)
  <2> DEFINE c == [call[g] EXCEPT !.at = "vector", !.i = 0, !.refused = FALSE]
  <2>0. call[g].at = "adopt" /\ call[g].i \in DOMAIN chain /\ current' = chain[call[g].i] /\ Goes(g, c) /\ Elsewhere
    BY <1>b, <1>13 DEF Adopt, Placed
  <2>1. /\ c \in Calls /\ c.could = call[g].could /\ c.odd = call[g].odd /\ c.result = call[g].result
        /\ c.at = "vector" /\ c.vec = call[g].vec /\ c.undone = call[g].undone /\ c.kind = call[g].kind
    BY <1>0 DEF Calls
  <2>2. (call[g].odd => c.odd) /\ (c.vec = 0 => c.odd)
    BY <1>b, <2>0, <2>1 DEF CallKnown
  <2> HIDE DEF c
  <2> QED
    BY <1>1, <2>0, <2>1, <2>2
<1>14. CASE NoVector(g)
  <2>1. \E result \in {"keyword", "refused"} : Goes(g, Ended(call[g], result))
    BY <1>14 DEF NoVector, Done
  <2>2. PICK result \in {"keyword", "refused"} : Goes(g, Ended(call[g], result))
    BY <2>1
  <2>3. call[g].at = "fall" /\ call[g].i \notin DOMAIN chain /\ Elsewhere /\ UNCHANGED current
    BY <1>14 DEF NoVector
  <2>4. call[g].odd \/ call[g].could = {}
    <3>1. call[g].i \in Nat /\ call[g].i >= 1 /\ (call[g].odd \/ NonePassed(call[g]))
      BY <1>0, <1>b, <2>3 DEF Calls, CallKnown
    <3>2. \A k \in DOMAIN chain : k < call[g].i
      BY <1>0, <2>3, <3>1
    <3> QED
      BY <1>0, <3>1, <3>2 DEF CallSound, InChain, NonePassed
  <2>5. CallKnown(Ended(call[g], result)) /\ Placed(Ended(call[g], result))
    BY <1>0, <1>b, <2>4, EndsKnown
  <2> QED
    BY <1>0, <2>2, <2>3, <2>5, EndedTyped, GoesInv
<1> QED
  BY <1>4, <1>5, <1>8, <1>11, <1>12, <1>13, <1>14 DEF Embed

\* A call that begins, that ends with what the store or the index say of its
\* vector, or that panics, keeps it.
LEMMA CallersInv ==
    ASSUME ChainInv, NEW g \in Callers,
           (\E kind \in {"store", "recall"} : Begin(g, kind)) \/ Stores(g) \/ Recalls(g)
    PROVE  ChainInv'
<1>0. /\ call[g] \in Calls /\ chain \in Chains /\ TypeOKChain /\ CallSound(g) /\ g \in Goroutines
      /\ width \in Widths /\ alive \subseteq Embedders /\ CallKnown(call[g])
  BY DEF ChainInv, TypeOKChain, Goroutines, CallSound
<1>1. ASSUME NEW kind \in {"store", "recall"}, Begin(g, kind)
      PROVE  ChainInv'
  <2> DEFINE counted == {e \in alive : InChain(e) /\ Available(e)}
             c == [NoCall EXCEPT !.at = IF kind = "store" THEN "look" ELSE "embed", !.kind = kind, !.could = counted]
  <2>1. counted \in SUBSET Embedders
    BY <1>0
  <2>2. /\ c \in Calls /\ c.at = (IF kind = "store" THEN "look" ELSE "embed") /\ c.kind = kind /\ c.could = counted
        /\ c.result = "none" /\ c.undone = FALSE
    <3> HIDE DEF counted
    <3> QED
      BY <2>1, NoCallTyped DEF NoCall, Calls
  <2>3. Goes(g, c) /\ Elsewhere /\ UNCHANGED current /\ up
    BY <1>1 DEF Begin
  <2> HIDE DEF c
  <2>4. Placed(c)
    BY <2>2 DEF Placed
  <2>5. TypeOKChain' /\ call'[g] = c /\ (\A h \in Goroutines : Placed(call[h])') /\ \A h \in Callers : h # g => CallSound(h)'
    BY <1>0, <2>2, <2>3, <2>4, GoesSound DEF Elsewhere
  <2>6. OneWidth'
    BY <2>3 DEF Elsewhere, ChainInv, OneWidth
  <2>7. CallSound(g)'
    <3>1. CallKnown(call[g])'
      BY <2>2, <2>3, <2>5 DEF CallKnown, Checking, Elsewhere
    <3>2. \A e \in call'[g].could : e \in alive' /\ InChain(e)' /\ Available(e)'
      BY <2>2, <2>3, <2>5 DEF Elsewhere, InChain, Available
    <3> QED
      BY <2>2, <2>5, <3>1, <3>2 DEF CallSound
  <2> QED
    BY <2>5, <2>6, <2>7 DEF ChainInv
\* What the store or the recall ends with is not the keywords alone unless the
\* vector is empty.
<1>2. ASSUME NEW result \in {"keyword", "stored", "hybrid", "refused"}, Goes(g, Ended(call[g], result)),
             UNCHANGED <<up, chain, current, ready, alive, width>>, up,
             indexed' = indexed \/ indexed' = indexed \cup {width},
             call[g].at = "vector", result = "keyword" => call[g].vec = 0
      PROVE  ChainInv'
  <2>1. Ended(call[g], result) \in Calls /\ CallKnown(Ended(call[g], result)) /\ Placed(Ended(call[g], result))
    <3>1. result = "keyword" => call[g].odd
      BY <1>0, <1>2 DEF CallKnown
    <3> QED
      BY <1>0, <1>2, <3>1, EndsKnown, EndedTyped
  <2>2. TypeOKChain' /\ call'[g] = Ended(call[g], result) /\ (\A h \in Goroutines : Placed(call[h])')
        /\ \A h \in Callers : h # g => CallSound(h)'
    BY <1>0, <1>2, <2>1, GoesSound
  <2>3. OneWidth'
    <3>1. indexed \subseteq {width}
      BY <1>2 DEF ChainInv, OneWidth
    <3> QED
      BY <1>0, <1>2, <3>1 DEF OneWidth
  <2>4. CallSound(g)'
    <3>1. CallKnown(call[g])'
      BY <1>2, <2>1, <2>2 DEF CallKnown, NonePassed
    <3>2. Ended(call[g], result).at = "idle" /\ Ended(call[g], result).could \subseteq call[g].could
      BY <1>0, EndedTyped
    <3>3. \A e \in call'[g].could : e \in alive' /\ InChain(e)' /\ Available(e)'
      BY <1>0, <1>2, <2>2, <3>2 DEF CallSound, InChain, Available
    <3> QED
      BY <2>2, <3>1, <3>2, <3>3 DEF CallSound
  <2> QED
    BY <2>2, <2>3, <2>4 DEF ChainInv
<1>3. call[g].at = "vector" => up
  BY <1>0 DEF CallKnown
<1>4. CASE Stores(g)
  <2>1. call[g].at = "vector" /\ UNCHANGED <<up, chain, current, ready, alive, width>>
    BY <1>4 DEF Stores
  <2>2. indexed' = indexed \/ indexed' = indexed \cup {width}
    BY <1>4 DEF Stores, Fits
  <2>3. \E result \in {"keyword", "stored", "refused"} :
          Goes(g, Ended(call[g], result)) /\ (result = "keyword" => call[g].vec = 0)
    BY <1>4 DEF Stores, Done
  <2> QED
    BY <1>2, <1>3, <2>1, <2>2, <2>3
<1>5. CASE Recalls(g)
  <2>1. call[g].at = "vector" /\ UNCHANGED <<up, chain, current, ready, alive, width, indexed>>
    BY <1>5 DEF Recalls, Elsewhere
  <2>2. \E result \in {"keyword", "hybrid", "refused"} :
          Goes(g, Ended(call[g], result)) /\ (result = "keyword" => call[g].vec = 0)
    BY <1>5 DEF Recalls, Done
  <2> QED
    BY <1>2, <1>3, <2>1, <2>2
<1> QED
  BY <1>1, <1>4, <1>5

\* A panic ends the call of a handler, and the process when it is the checker's.
LEMMA PanicInv ==
    ASSUME ChainInv, NEW g \in Goroutines, Panic(g)
    PROVE  ChainInv'
<1>1. CASE g = Health
  BY <1>1, SurroundingsInv DEF Panic
<1>2. CASE g # Health
  <2> DEFINE c == [NoCall EXCEPT !.kind = call[g].kind, !.result = "panic"]
  <2>0. call[g] \in Calls /\ g \in Callers
    BY <1>2 DEF ChainInv, TypeOKChain, Goroutines
  <2>1. c \in Calls /\ c.at = "idle" /\ c.could = {} /\ c.result = "panic" /\ c.undone = FALSE
    BY <2>0 DEF NoCall, Calls
  <2>2. Goes(g, c) /\ Elsewhere /\ UNCHANGED current
    BY <1>2 DEF Panic
  <2> HIDE DEF c
  <2>3. Placed(c) /\ CallKnown(c)
    BY <2>1 DEF Placed, CallKnown, Checking
  <2> QED
    BY <2>0, <2>1, <2>2, <2>3, GoesInv
<1> QED
  BY <1>1, <1>2

\* Every step keeps the invariant, and so does a step that changes nothing.
LEMMA NextChainInv == ChainInv /\ [NextChain]_chainVars => ChainInv'
<1> SUFFICES ASSUME ChainInv, [NextChain]_chainVars
             PROVE  ChainInv'
  OBVIOUS
<1>1. CASE (\E c \in Chains : Start(c)) \/ \E e \in Embedders : Fails(e) \/ Recovers(e)
  BY <1>1, SurroundingsInv
<1>2. CASE Stop
  BY <1>2, SurroundingsInv DEF Stop
<1>3. ASSUME NEW g \in Callers,
             (\E kind \in {"store", "recall"} : Begin(g, kind)) \/ Stores(g) \/ Recalls(g)
      PROVE  ChainInv'
  BY <1>3, CallersInv
<1>4. ASSUME NEW g \in Callers, Embed(g)
      PROVE  ChainInv'
  BY <1>4, EmbedInv
<1>5. ASSUME NEW g \in Goroutines, HealthCheck(g) \/ Panic(g)
      PROVE  ChainInv'
  BY <1>5, HealthCheckInv, PanicInv
<1>6. CASE UNCHANGED chainVars
  BY <1>6 DEF chainVars, ChainInv, TypeOKChain, OneWidth, CallSound, CallKnown, NonePassed, Placed, InChain, Available
<1> QED
  BY <1>1, <1>2, <1>3, <1>4, <1>5, <1>6 DEF NextChain

LEMMA SpecChainInv == SpecChain => []ChainInv
BY InitChainInv, NextChainInv, PTL DEF SpecChain

-----------------------------------------------------------------------------
(* The theorems *)

\* Every variable of the chain has its type, and what is current is one of the
\* chain's embedders (interface.go:20-101).
THEOREM ChainTypeCorrect == SpecChain => []TypeOKChain
<1>1. ChainInv => TypeOKChain
  BY DEF ChainInv
<1> QED
  BY <1>1, SpecChainInv, PTL

\* Whatever fails, falls back or is started again with another chain, the vectors
\* of the index keep one width (hnsw.go:145-216, sqlite.go:290-312).
THEOREM WidthCorrect == SpecChain => []IndexHasOneWidth
<1>1. ChainInv => IndexHasOneWidth
  <2> SUFFICES ASSUME ChainInv
               PROVE  IndexHasOneWidth
    OBVIOUS
  <2>1. CASE indexed = {}
    BY <2>1, FS_EmptySet DEF IndexHasOneWidth
  <2>2. CASE \E w \in Widths : indexed = {w}
    <3>1. PICK w : indexed = {w}
      BY <2>2
    <3>2. Cardinality(indexed) = 1
      BY <3>1, FS_Singleton
    <3>3. up => indexed = {width}
      BY <3>1 DEF ChainInv, OneWidth
    <3> QED
      BY <3>2, <3>3 DEF IndexHasOneWidth
  <2> QED
    BY <2>1, <2>2 DEF ChainInv, OneWidth
<1> QED
  BY <1>1, SpecChainInv, PTL

\* No recall does without a vector while an embedder of the chain answers all
\* along, and no store unless a nil is written over its selection before it reads it
\* back, by a goroutine that found nothing when it asked the embedders earlier
\* (interface.go:32-79).
THEOREM NothingPassedOver == SpecChain => []NoEmbedderIsPassedOver
<1>1. ChainInv => NoEmbedderIsPassedOver
  BY DEF ChainInv, CallSound, CallKnown, NoEmbedderIsPassedOver
<1> QED
  BY <1>1, SpecChainInv, PTL

-----------------------------------------------------------------------------
(* The parts together *)

\* A behaviour of the parts together is one of each.
LEMMA EachPart == Spec => SpecSearch /\ SpecCompact /\ SpecRag /\ SpecChain
<1>1. Init => InitSearch /\ InitCompact /\ InitRag /\ InitChain
  BY DEF Init
<1>2. [Next]_vars => [NextSearch]_graphVars
  BY DEF Next, vars
<1>3. [Next]_vars => [NextCompact]_compactVars
  BY DEF Next, vars
<1>4. [Next]_vars => [NextRag]_ragVars
  BY DEF Next, vars
<1>5. [Next]_vars => [NextChain]_chainVars
  BY DEF Next, vars
<1> QED
  BY <1>1, <1>2, <1>3, <1>4, <1>5, PTL DEF Spec, SpecSearch, SpecCompact, SpecRag, SpecChain

\* The variables of every part keep their types, whichever part the gateway
\* exercises (the maps and structs of traverse.go, path.go, memory_compact.go,
\* store.go and chain.go).
THEOREM ToolsTypeCorrect == Spec => []TypeOKTools
BY EachPart, SearchTypeCorrect, CompactTypeCorrect, RagTypeCorrect, ChainTypeCorrect, PTL DEF TypeOKTools
=============================================================================
