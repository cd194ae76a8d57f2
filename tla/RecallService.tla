---------------------------- MODULE RecallService ----------------------------
(***************************************************************************)
(* What recall promises, whatever happens inside: a question is answered   *)
(* in one step, from memories that were stored and not yet superseded when *)
(* it was asked, or with an answer that was kept under the question's key; *)
(* and the answer stays as it is until the handler that asked is done with *)
(* it.  Module Recall implements this.                                     *)
(***************************************************************************)
EXTENDS Integers, Sequences, FiniteSets

CONSTANTS
    Memories,
    Queries,
    Handlers,       \* those who ask
    Nothing,
    Wanted(_, _),   \* Wanted(q, m): q does not rule memory m out
    Most(_),        \* Most(q): the most memories an answer to q has
    Key(_)          \* Key(q): the key that an answer to q is kept under

VARIABLES
    status,   \* of every memory: "unknown", "active", "superseded"
    asked,    \* the question a handler waits for or has the answer of
    gone,     \* what was superseded when the question was asked
    reply,    \* the answer a handler has
    kept      \* pairs of a key and an answer that may be given again

service == <<status, asked, gone, reply, kept>>

Init ==
    /\ status \in [Memories -> {"unknown", "active"}]
    /\ asked = [h \in Handlers |-> Nothing]
    /\ gone = [h \in Handlers |-> {}]
    /\ reply = [h \in Handlers |-> Nothing]
    /\ kept = {}

Change(m) ==
    /\ \/ status[m] = "unknown" /\ status' = [status EXCEPT ![m] = "active"]
       \/ status[m] = "active" /\ status' = [status EXCEPT ![m] = "superseded"]
    /\ UNCHANGED <<asked, gone, reply, kept>>

Ask(h, q) ==
    /\ asked[h] = Nothing
    /\ asked' = [asked EXCEPT ![h] = q]
    /\ gone' = [gone EXCEPT ![h] = {m \in Memories : status[m] = "superseded"}]
    /\ \/ UNCHANGED reply
       \/ \E k \in kept : k[1] = Key(q) /\ reply' = [reply EXCEPT ![h] = k[2]]
    /\ kept' \subseteq kept
    /\ UNCHANGED status

\* No repetition, no more than asked for, nothing that the question rules out,
\* that is not stored, or that was gone when the question was asked.
IsAnswer(q, without, s) ==
    /\ Len(s) <= Most(q)
    /\ \A i, j \in DOMAIN s : s[i] = s[j] => i = j
    /\ \A i \in DOMAIN s : /\ s[i] \in Memories
                           /\ status[s[i]] # "unknown"
                           /\ s[i] \notin without
                           /\ Wanted(q, s[i])

\* The answer may be kept for those whose question has the same key.
Reply(h) ==
    /\ asked[h] # Nothing
    /\ reply[h] = Nothing
    /\ reply'[h] # Nothing
    /\ reply' = [reply EXCEPT ![h] = reply'[h]]
    /\ IsAnswer(asked[h], gone[h], reply'[h])
    /\ kept' \subseteq kept \cup {<<Key(asked[h]), reply'[h]>>}
    /\ UNCHANGED <<status, asked, gone>>

\* Done with the answer, or refused one.
Leave(h) ==
    /\ asked[h] # Nothing
    /\ asked' = [asked EXCEPT ![h] = Nothing]
    /\ gone' = [gone EXCEPT ![h] = {}]
    /\ reply' = [reply EXCEPT ![h] = Nothing]
    /\ UNCHANGED <<status, kept>>

\* Answers are not kept for ever.
Drop ==
    /\ kept' \subseteq kept
    /\ UNCHANGED <<status, asked, gone, reply>>

Next ==
    \/ \E m \in Memories : Change(m)
    \/ \E h \in Handlers : Reply(h) \/ Leave(h) \/ \E q \in Queries : Ask(h, q)
    \/ Drop

Spec == Init /\ [][Next]_service
==============================================================================
