---------------------------- MODULE SpikeDomain ----------------------------
(***************************************************************************)
(* The CounterSpike oracle, the event chain and the five tables of the     *)
(* spike persistence port, as operators.  A store is a record of tables:   *)
(* the inbox, the event log, the counter projection, the outbox and the    *)
(* receipts.  A command is its identity, its payload (the delta) and the   *)
(* revision it expects; a receipt is the revision it reports.              *)
(***************************************************************************)
EXTENDS Integers, Sequences

CONSTANT SpikeCommands      \* what callers may submit: [id, delta, expected]

CommandIds == {c.id : c \in SpikeCommands}

CounterState == [value : Nat, revision : Nat]

InitialState == [value |-> 0, revision |-> 0]

\* CounterSpike.apply: only the built-in integer 1 is an increment.
Accepts(delta) == delta = 1
Incremented(s) == [value |-> s.value + 1, revision |-> s.revision + 1]

\* chain_hash, an injective function of what it covers; an absent previous
\* link hashes as the empty string.
NoLink == << >>
ChainHash(prev, seq, payload) == <<prev, seq, payload>>

\* verify_chain: contiguous from 1, each link its predecessor's hash, each hash
\* recomputed.
LinkBefore(events, i) == IF i = 1 THEN NoLink ELSE events[i - 1].hash
VerifyChain(events) ==
    \A i \in DOMAIN events :
        /\ events[i].sequence = i
        /\ events[i].previous = LinkBefore(events, i)
        /\ events[i].hash = ChainHash(events[i].previous, i, events[i].payload)

\* rebuild_projection: one increment for each row of a verified chain.
Rebuilt(events) == [value |-> Len(events), revision |-> Len(events)]

EmptyStore == [inbox |-> {}, events |-> << >>, counter |-> InitialState,
               outbox |-> << >>, receipts |-> {}]

Stored(store, id) == {r \in store.inbox : r.id = id}

\* _last_event_hash
LastHash(store) ==
    IF store.events = << >> THEN NoLink ELSE store.events[Len(store.events)].hash

\* The five logical writes of commit_acceptance for command c, decided on state
\* s.  The event is linked to the last one in the store being written.
Write(k, store, c, s) ==
    LET next == Incremented(s)
        prev == LastHash(store)
        event == [sequence |-> next.revision, id |-> c.id, payload |-> next,
                  previous |-> prev,
                  hash |-> ChainHash(prev, next.revision, next)]
    IN CASE k = 1 -> [store EXCEPT !.inbox = @ \cup
                        {[id |-> c.id, delta |-> c.delta, revision |-> next.revision]}]
         [] k = 2 -> [store EXCEPT !.events = Append(@, event)]
         [] k = 3 -> [store EXCEPT !.counter = next]
         [] k = 4 -> [store EXCEPT !.outbox = Append(@, c.id)]
         [] k = 5 -> [store EXCEPT !.receipts = @ \cup
                        {[id |-> c.id, revision |-> next.revision]}]

\* All five, as one commit.
Accepted(store, c, s) ==
    Write(5, Write(4, Write(3, Write(2, Write(1, store, c, s), c, s), c, s), c, s), c, s)
=============================================================================
