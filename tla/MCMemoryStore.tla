--------------------------- MODULE MCMemoryStore ---------------------------
(* Deployments for model checking MemoryStore.                               *)
EXTENDS MemoryStore

CONSTANTS gateway, command, handler1, main

\* The one thread of a command against the threads of the gateway.
MCHome == [t \in Threads |-> IF t = main THEN command ELSE gateway]

HandlerAndCommand ==
    [t \in Threads |-> IF t = main THEN {"archive", "reindex", "evict", "dedup"} ELSE {"store", "forget"}]
StoreAndReindex ==
    [t \in Threads |-> IF t = main THEN {"reindex"} ELSE {"store"}]
=============================================================================
