---------------------------- MODULE SpikeMemory ----------------------------
(***************************************************************************)
(* SpikeController over InMemoryControllerStore.  Nothing in it waits, so  *)
(* submit is one step: commit_acceptance stages a copy of the store and    *)
(* swaps it in, or drops it when a write fails.  Answers that store        *)
(* nothing (a replay, a conflict, a rejection, a failure) leave the store  *)
(* as it is.                                                               *)
(***************************************************************************)
EXTENDS SpikeDomain

VARIABLE memStore           \* InMemoryControllerStore._store

Init == memStore = EmptyStore

Submit(c) ==
    /\ Stored(memStore, c.id) = {}
    /\ c.expected = memStore.counter.revision
    /\ Accepts(c.delta)
    /\ memStore' = Accepted(memStore, c, memStore.counter)

\* Said first that the store changes: most steps of an implementation leave it alone.
Next == memStore' # memStore /\ \E c \in SpikeCommands : Submit(c)

Spec == Init /\ [][Next]_memStore
=============================================================================
