----------------------------- MODULE SpikeStore -----------------------------
(***************************************************************************)
(* SpikeController over SqliteControllerStore: callers with a connection   *)
(* each on one database.  find_command and load_counter are reads of their *)
(* own; commit_acceptance is a transaction of five writes.  The first      *)
(* write takes SQLite's writer lock, so one transaction writes at a time,  *)
(* and readers see the last commit.  A write may fail (an injected fault,  *)
(* a full disk, a lock that does not come free) and a caller may die at    *)
(* any point, between the writes, before the COMMIT or right after it.     *)
(***************************************************************************)
EXTENDS SpikeDomain

CONSTANTS SpikeCallers, SpikeFaultBound

VARIABLES
  spikeDb,      \* the committed tables
  spikeCall,    \* per caller: where _submit_impl is, with what it has read
  spikeAcked,   \* the ACCEPTED receipts returned to callers (a history)
  spikeFaults   \* failures and crashes so far, at most SpikeFaultBound

spikeVars == <<spikeDb, spikeCall, spikeAcked, spikeFaults>>

NoSubmit == [at |-> "idle"]

SpikeInit ==
    /\ spikeDb = EmptyStore
    /\ spikeCall = [p \in SpikeCallers |-> NoSubmit]
    /\ spikeAcked = {}
    /\ spikeFaults = 0

\* One receipt for the caller.  Only an ACCEPTED one promises anything of the
\* store: CONFLICT, REJECTED and FAILED (INTERNAL_ERROR, retryable) store nothing
\* and name the revision they observed.
SpikeReturn(p, status, revision) ==
    /\ spikeCall' = [spikeCall EXCEPT ![p] = NoSubmit]
    /\ spikeAcked' = IF status # "ACCEPTED" THEN spikeAcked
                     ELSE spikeAcked \cup {[id |-> spikeCall[p].cmd.id,
                              delta |-> spikeCall[p].cmd.delta, revision |-> revision]}

SpikeSubmit(p, c) ==
    /\ spikeCall[p].at = "idle"
    /\ spikeCall' = [spikeCall EXCEPT ![p] = [at |-> "find", cmd |-> c]]
    /\ UNCHANGED <<spikeDb, spikeAcked, spikeFaults>>

\* A stored command: the original receipt for the same payload, a conflict for
\* another one under its id.
FindHit(p) ==
    /\ spikeCall[p].at = "find"
    /\ \E row \in Stored(spikeDb, spikeCall[p].cmd.id) :
         IF row.delta = spikeCall[p].cmd.delta
         THEN SpikeReturn(p, "ACCEPTED", row.revision)
         ELSE SpikeReturn(p, "CONFLICT", spikeDb.counter.revision)
    /\ UNCHANGED <<spikeDb, spikeFaults>>

FindMiss(p) ==
    /\ spikeCall[p].at = "find"
    /\ Stored(spikeDb, spikeCall[p].cmd.id) = {}
    /\ spikeCall' = [spikeCall EXCEPT ![p].at = "load"]
    /\ UNCHANGED <<spikeDb, spikeAcked, spikeFaults>>

\* Mutant of LoadCounter: the expected revision is not compared.
AnyRevision(p) ==
    /\ spikeCall[p].at = "load"
    /\ Accepts(spikeCall[p].cmd.delta)
    /\ spikeCall' = [spikeCall EXCEPT ![p] =
                       [at |-> "begin", cmd |-> @.cmd, state |-> spikeDb.counter]]
    /\ UNCHANGED <<spikeDb, spikeAcked, spikeFaults>>

\* load_counter, the comparison of revisions and CounterSpike.apply.
LoadCounter(p) ==
    /\ spikeCall[p].at = "load"
    /\ LET c == spikeCall[p].cmd
           s == spikeDb.counter
       IN \/ /\ c.expected # s.revision
             /\ SpikeReturn(p, "CONFLICT", s.revision)
          \/ /\ c.expected = s.revision /\ ~Accepts(c.delta)
             /\ SpikeReturn(p, "REJECTED", s.revision)
          \/ /\ c.expected = s.revision /\ Accepts(c.delta)
             /\ spikeCall' = [spikeCall EXCEPT ![p] =
                                [at |-> "begin", cmd |-> c, state |-> s]]
             /\ UNCHANGED spikeAcked
    /\ UNCHANGED <<spikeDb, spikeFaults>>

Writing(p) == spikeCall[p].at = "write"

BeginWrites(p) ==
    /\ spikeCall[p].at = "begin"
    /\ \A q \in SpikeCallers : ~Writing(q)
    /\ spikeCall' = [spikeCall EXCEPT ![p] =
                       [at |-> "write", cmd |-> @.cmd, state |-> @.state,
                        next |-> 1, tables |-> spikeDb]]
    /\ UNCHANGED <<spikeDb, spikeAcked, spikeFaults>>

\* The primary keys of spike_inbox, spike_events and spike_receipts.
KeyFree(k, store, c, s) ==
    CASE k = 1 -> Stored(store, c.id) = {}
      [] k = 2 -> \A i \in DOMAIN store.events :
                    /\ store.events[i].sequence # s.revision + 1
                    /\ store.events[i].id # c.id
      [] k = 5 -> \A r \in store.receipts : r.id # c.id
      [] OTHER -> TRUE

WriteNext(p) ==
    /\ Writing(p) /\ spikeCall[p].next <= 5
    /\ LET x == spikeCall[p]
       IN IF KeyFree(x.next, x.tables, x.cmd, x.state)
          THEN /\ spikeCall' = [spikeCall EXCEPT
                     ![p].tables = Write(x.next, @, x.cmd, x.state), ![p].next = @ + 1]
               /\ UNCHANGED spikeAcked
          ELSE SpikeReturn(p, "FAILED", spikeDb.counter.revision)
    /\ UNCHANGED <<spikeDb, spikeFaults>>

SpikeCommit(p) ==
    /\ Writing(p) /\ spikeCall[p].next = 6
    /\ spikeDb' = spikeCall[p].tables
    /\ SpikeReturn(p, "ACCEPTED", spikeCall[p].state.revision + 1)
    /\ UNCHANGED spikeFaults

\* A PersistenceError anywhere: the transaction is rolled back and the receipt
\* says INTERNAL_ERROR, retryable; its revision is 0 when that read fails too.
SpikeFails(p) ==
    /\ spikeCall[p].at # "idle" /\ spikeFaults < SpikeFaultBound
    /\ \E observed \in {0, spikeDb.counter.revision} : SpikeReturn(p, "FAILED", observed)
    /\ spikeFaults' = spikeFaults + 1
    /\ UNCHANGED spikeDb

\* The process ends without an answer, before its COMMIT or just after it.
SpikeDies(p) ==
    /\ spikeCall[p].at # "idle" /\ spikeFaults < SpikeFaultBound
    /\ \/ UNCHANGED spikeDb
       \/ Writing(p) /\ spikeCall[p].next = 6 /\ spikeDb' = spikeCall[p].tables
    /\ spikeCall' = [spikeCall EXCEPT ![p] = NoSubmit]
    /\ spikeFaults' = spikeFaults + 1
    /\ UNCHANGED spikeAcked

SpikeNext ==
    \E p \in SpikeCallers :
        \/ \E c \in SpikeCommands : SpikeSubmit(p, c)
        \/ FindHit(p) \/ FindMiss(p) \/ LoadCounter(p)
        \/ BeginWrites(p) \/ WriteNext(p) \/ SpikeCommit(p)
        \/ SpikeFails(p) \/ SpikeDies(p)

SpikeSpec == SpikeInit /\ [][SpikeNext]_spikeVars

-----------------------------------------------------------------------------
SpikeTypeOK ==
    /\ spikeDb.counter \in CounterState
    /\ \A r \in spikeDb.inbox : r.id \in CommandIds
    /\ \A p \in SpikeCallers :
         spikeCall[p].at \in {"idle", "find", "load", "begin", "write"}
    /\ \A a \in spikeAcked : a.id \in CommandIds /\ a.revision \in Nat
    /\ spikeFaults \in 0 .. SpikeFaultBound

\* A commit of _persistence_port is all five records or none of them, whatever
\* failed or died in between: the tables hold the same commands, in the same
\* order, and the counter has counted each of them.
FiveRecordsOrNone ==
    LET ids == {spikeDb.events[i].id : i \in DOMAIN spikeDb.events}
    IN /\ {r.id : r \in spikeDb.inbox} = ids
       /\ {r.id : r \in spikeDb.receipts} = ids
       /\ spikeDb.outbox = [i \in DOMAIN spikeDb.events |-> spikeDb.events[i].id]
       /\ spikeDb.counter.revision = Len(spikeDb.events)

\* The event log always passes verify_chain, and rebuild_projection computes
\* the counter row, although callers link their events to what they find when
\* they write and decide on what they read before.
ChainRebuildsCounter ==
    /\ VerifyChain(spikeDb.events)
    /\ Rebuilt(spikeDb.events) = spikeDb.counter

\* A command answered ACCEPTED, at once or by the replay of its receipt, has
\* the one event of its id at the revision the answer names, for the payload
\* that was submitted: retries, crashes and competitors never accept it twice
\* or under other content.
AcceptedStands ==
    \A a \in spikeAcked :
        /\ a.revision \in DOMAIN spikeDb.events
        /\ spikeDb.events[a.revision].id = a.id
        /\ \A i \in DOMAIN spikeDb.events :
             spikeDb.events[i].id = a.id => i = a.revision
        /\ \E r \in spikeDb.inbox : r.id = a.id /\ r.delta = a.delta

\* The SQLite adapter with several callers implements the in-memory adapter:
\* every commit is a submit the latter would have accepted in that state.
Memory == INSTANCE SpikeMemory WITH memStore <- spikeDb
ImplementsMemory == Memory!Spec

\* What the store promises its callers: no partial acceptance, a log from which
\* the counter can be rebuilt, one acceptance per command id, and nothing the
\* in-memory adapter would not do.
SpikeContract ==
    [](FiveRecordsOrNone /\ ChainRebuildsCounter /\ AcceptedStands) /\ ImplementsMemory
=============================================================================
