---------------------------- MODULE DeliveryRecords ----------------------------
(***************************************************************************)
(* Delivery records: delivery/fake.py keeps one record per pipeline,       *)
(* delivery/github.py may answer with a real pull request, and the kernel  *)
(* bridge delivers, verifies and drains the outbox through them.           *)
(*                                                                         *)
(* The runtime and the stage worker are two processes.  Each loads         *)
(* delivery.json once, works on its own copy and writes the whole copy     *)
(* back, so a copy can be behind the file it replaces.                     *)
(***************************************************************************)
EXTENDS Integers, FiniteSets

CONSTANTS DelPipelines,   \* pipeline ids
          DelHeads,       \* candidate shas
          DelEvents,      \* event ids of the provider
          DelGitHub,      \* the processes GitHub is enabled in
          DelBound        \* bound: deliver commands and workers started

VARIABLES delFile,     \* delivery.json
          delCopy,     \* the FakeDelivery of each process
          delUnseen,   \* history: the pipelines whose entries changed in the file since
                       \* this copy was in step with it
          delLost,     \* history: the pipelines whose entries were replaced unseen
          delWork,     \* the worker: its step, and the candidate it verifies
          delDrain,    \* the items each process still has to drain, and its step
          delOutbox,   \* pending PUBLISH_PR items
          delDone,     \* items with a recorded delivery
          delRemote,   \* the pull request GitHub has open for each pipeline
          delCalls     \* deliver commands and workers so far

delVars == <<delFile, delCopy, delUnseen, delLost, delWork, delDrain,
             delOutbox, delDone, delRemote, delCalls>>

DelProcs == {"runtime", "worker"}
NoEvent == ""

\* A candidate and the integration candidate built of it have different shas, and
\* the second is never empty (build_integration_candidate hashes the first)
Candidate(h) == [of |-> h, built |-> FALSE]
IntegrationOf(h) == [of |-> h, built |-> TRUE]
NoHead == Candidate("")
DelShas == {Candidate(h) : h \in DelHeads} \cup {IntegrationOf(h) : h \in DelHeads \cup {""}}

\* A check_status, with the head the record had when it came and the one it is about
NoCheck == [at |-> NoHead, about |-> NoHead]
NoRecord == [number |-> 0, head |-> NoHead, check |-> NoCheck, url |-> 0]
EmptyDelivery == [next |-> 1, recs |-> [p \in DelPipelines |-> NoRecord], events |-> {}]
NotDraining == [items |-> {}, saved |-> {}]
WorkerOff == [step |-> "off"]

DelInit ==
    /\ delFile = EmptyDelivery
    /\ delCopy = [q \in DelProcs |-> EmptyDelivery]
    /\ delUnseen = [q \in DelProcs |-> {}]
    /\ delLost = {}
    /\ delWork = WorkerOff
    /\ delDrain = [q \in DelProcs |-> NotDraining]
    /\ delOutbox = {}
    /\ delDone = {}
    /\ delRemote = [p \in DelPipelines |-> 0]
    /\ delCalls = 0

-----------------------------------------------------------------------------
(* FakeDelivery *)

\* publish(): the same head is kept, a new head keeps the number and forgets
\* the statuses and the events of the old one
Publish(copy, p, head) ==
    LET old == copy.recs[p] IN
    CASE old.head = head -> copy
      [] old # NoRecord /\ old.head # head ->
            [next |-> copy.next,
             recs |-> [copy.recs EXCEPT ![p] = [old EXCEPT !.head = head, !.check = NoCheck]],
             events |-> {e \in copy.events : e[1] # p}]
      [] OTHER ->
            [next |-> copy.next + 1,
             recs |-> [copy.recs EXCEPT ![p] = [number |-> copy.next, head |-> head,
                                                check |-> NoCheck, url |-> 0]],
             events |-> copy.events]

\* reconcile(): an event counts once, and never without a record.  A word outside
\* the vocabulary leaves the status that was there.
Reconcile(copy, p, head, event, word) ==
    LET base == IF copy.recs[p] = NoRecord /\ head # NoHead
                THEN Publish(copy, p, head) ELSE copy
        stored == base.recs[p]
    IN IF stored = NoRecord \/ <<p, event>> \in base.events
       THEN base
       ELSE [base EXCEPT !.events = @ \cup {<<p, event>>},
                         !.recs[p].check = IF word THEN [at |-> stored.head, about |-> head]
                                           ELSE @]

-----------------------------------------------------------------------------
(* The bridge *)

\* GitHubDelivery.publish(): the POST opens a request; 422 says the branch has one,
\* and the GET finds it
PullRequestOf(p) ==
    IF delRemote[p] # 0 THEN delRemote[p]
    ELSE 1 + Cardinality({o \in DelPipelines : delRemote[o] # 0})

\* _mirror_github(): GitHub answers with the branch's request, or it fails and the
\* record stays as it is
MirrorResults(q, copy, p) ==
    LET opened == PullRequestOf(p)
    IN {[copy |-> copy, remote |-> delRemote]} \cup
       {[copy |-> [copy EXCEPT !.recs[p].number = opened, !.recs[p].url = opened],
         remote |-> [delRemote EXCEPT ![p] = opened]] : o \in {q} \cap DelGitHub}

\* Mutant of SaveDelivery: delivery.json is left alone.
KeepsInMemory(q, copy) ==
    /\ delCopy' = [delCopy EXCEPT ![q] = copy]
    /\ UNCHANGED <<delFile, delLost, delUnseen>>

EventsOf(doc, p) == {e \in doc.events : e[1] = p}
Differing(doc, other) ==
    {p \in DelPipelines : \/ doc.recs[p] # other.recs[p]
                          \/ EventsOf(doc, p) # EventsOf(other, p)}
Running(q) == q = "worker" => delWork # WorkerOff

\* _save_delivery(): the whole document, by os.replace
SaveDelivery(q, copy) ==
    /\ delCopy' = [delCopy EXCEPT ![q] = copy]
    /\ delFile' = copy
    /\ delLost' = delLost \cup delUnseen[q]
    /\ delUnseen' = [o \in DelProcs |->
                        IF o = q \/ ~Running(o) THEN {}
                        ELSE delUnseen[o] \cup Differing(copy, delFile)]

\* The deliver command
Deliver(p, head, event, word) ==
    LET published == IF head # NoHead
                     THEN Publish(delCopy["runtime"], p, head)
                     ELSE delCopy["runtime"]
        reconciled == IF event # NoEvent
                      THEN Reconcile(published, p, head, event, word)
                      ELSE published
        mirrored == IF head # NoHead
                    THEN MirrorResults("runtime", reconciled, p)
                    ELSE {[copy |-> reconciled, remote |-> delRemote]}
    IN /\ delDrain["runtime"] = NotDraining
       /\ delCalls < DelBound
       /\ delCalls' = delCalls + 1
       /\ head # NoHead \/ event # NoEvent
       /\ \E m \in mirrored :
             /\ SaveDelivery("runtime", m.copy)
             /\ delRemote' = m.remote
       /\ UNCHANGED <<delWork, delDrain, delOutbox, delDone>>

\* _load_delivery(), when a process starts
LoadDelivery(q) ==
    /\ delCopy' = [delCopy EXCEPT ![q] = delFile]
    /\ delUnseen' = [delUnseen EXCEPT ![q] = {}]
    /\ delDrain' = [delDrain EXCEPT ![q] = NotDraining]
    /\ UNCHANGED <<delFile, delLost, delOutbox, delDone, delRemote>>

RuntimeRestarts == LoadDelivery("runtime") /\ UNCHANGED <<delWork, delCalls>>

WorkerStarts(p, head) ==
    /\ delWork = WorkerOff
    /\ delCalls < DelBound
    /\ delCalls' = delCalls + 1
    /\ delWork' = [step |-> "verify", pipe |-> p, head |-> head]
    /\ LoadDelivery("worker")

\* The worker ends, at its last step or killed at any other
WorkerEnds ==
    /\ delWork # WorkerOff
    /\ delWork' = WorkerOff
    /\ delCopy' = [delCopy EXCEPT !["worker"] = EmptyDelivery]
    /\ delUnseen' = [delUnseen EXCEPT !["worker"] = {}]
    /\ delDrain' = [delDrain EXCEPT !["worker"] = NotDraining]
    /\ UNCHANGED <<delFile, delLost, delOutbox, delDone, delRemote, delCalls>>

\* VerifyFlow.run publishes the integration candidate of the developed one
Verified(ready) ==
    IF ready THEN Publish(delCopy["worker"], delWork.pipe, IntegrationOf(delWork.head))
    ELSE delCopy["worker"]

\* _advance_verify(): READY publishes; whatever the verdict, the copy is mirrored
\* and saved
VerifySaves(ready) ==
    LET copy == Verified(ready)
        mirrored == IF copy.recs[delWork.pipe] # NoRecord
                    THEN MirrorResults("worker", copy, delWork.pipe)
                    ELSE {[copy |-> copy, remote |-> delRemote]}
    IN /\ delWork.step = "verify"
       /\ \E m \in mirrored :
             /\ SaveDelivery("worker", m.copy)
             /\ delRemote' = m.remote
       /\ delWork' = [delWork EXCEPT !.step = IF ready THEN "record" ELSE "drain"]
       /\ UNCHANGED <<delDrain, delOutbox, delDone, delCalls>>

\* VerifyFlow raises, maybe while it cleans up after it has published: INFRA, and
\* what it published stays in memory
VerifyRaises(published) ==
    /\ delWork.step = "verify"
    /\ delCopy' = [delCopy EXCEPT !["worker"] = Verified(published)]
    /\ delWork' = [delWork EXCEPT !.step = "drain"]
    /\ UNCHANGED <<delFile, delUnseen, delLost, delDrain, delOutbox, delDone, delRemote,
                   delCalls>>

\* _record_verify(): the VERIFY event of a READY verdict queues an item with the
\* candidate's sha, unless the submission is refused, which nobody asks about
RecordReady(accepted) ==
    LET earlier == {i \in delOutbox \cup delDone : i.pipe = delWork.pipe}
        item == [pipe |-> delWork.pipe, head |-> Candidate(delWork.head),
                 attempt |-> 1 + Cardinality(earlier)]
    IN /\ delWork.step = "record"
       /\ delOutbox' = delOutbox \cup {i \in {item} : accepted}
       /\ delWork' = [delWork EXCEPT !.step = "drain"]
       /\ UNCHANGED <<delFile, delCopy, delUnseen, delLost, delDrain, delDone,
                      delRemote, delCalls>>

\* _drain_outbox(): list_pending_outbox is read once, by a read command or by the
\* worker that has recorded its verdict
DrainBegin(q) ==
    /\ delDrain[q] = NotDraining
    /\ q = "worker" => delWork.step = "drain"
    /\ delOutbox # {}
    /\ delDrain' = [delDrain EXCEPT ![q] = [items |-> delOutbox, saved |-> {}]]
    /\ UNCHANGED <<delFile, delCopy, delUnseen, delLost, delWork, delOutbox, delDone,
                   delRemote, delCalls>>

\* An item with a sha whose record has no pull request is published
ToPublish(q, item) == delCopy[q].recs[item.pipe].url = 0 /\ item.head # NoHead

DrainPublish(q, item) ==
    /\ item \in delDrain[q].items
    /\ delDrain[q].saved = {}
    /\ ToPublish(q, item)
    /\ \E m \in MirrorResults(q, Publish(delCopy[q], item.pipe, item.head), item.pipe) :
          /\ SaveDelivery(q, m.copy)
          /\ delRemote' = m.remote
    /\ delDrain' = [delDrain EXCEPT ![q].saved = {item}]
    /\ UNCHANGED <<delWork, delOutbox, delDone, delCalls>>

\* record_outbox_delivery(): a transaction of its own
DrainRecord(q, item) ==
    /\ item \in delDrain[q].items
    /\ \/ item \in delDrain[q].saved
       \/ delDrain[q].saved = {} /\ ~ToPublish(q, item)
    /\ delOutbox' = delOutbox \ {item}
    /\ delDone' = delDone \cup {item}
    /\ delDrain' = [delDrain EXCEPT ![q] = [items |-> @.items \ {item}, saved |-> {}]]
    /\ UNCHANGED <<delFile, delCopy, delUnseen, delLost, delWork, delRemote, delCalls>>

DelNext ==
    \/ \E p \in DelPipelines, head \in DelShas \cup {NoHead},
          e \in DelEvents \cup {NoEvent}, word \in BOOLEAN : Deliver(p, head, e, word)
    \/ RuntimeRestarts
    \/ \E p \in DelPipelines, h \in DelHeads \cup {""} : WorkerStarts(p, h)
    \/ WorkerEnds
    \/ \E ready \in BOOLEAN : VerifySaves(ready) \/ VerifyRaises(ready)
    \/ \E accepted \in BOOLEAN : RecordReady(accepted)
    \/ \E q \in DelProcs :
          \/ DrainBegin(q)
          \/ \E item \in delDrain[q].items : DrainPublish(q, item)
          \/ \E item \in delDrain[q].items : DrainRecord(q, item)

DelSpec == DelInit /\ [][DelNext]_delVars

-----------------------------------------------------------------------------
(* Properties *)

DeliveryRow == [number : Nat, head : DelShas \cup {NoHead},
                check : [at : DelShas \cup {NoHead}, about : DelShas \cup {NoHead}],
                url : Nat]

DeliveryDoc == [next : Nat, recs : [DelPipelines -> DeliveryRow],
                events : SUBSET (DelPipelines \X DelEvents)]

DelTypeOK ==
    /\ delFile \in DeliveryDoc
    /\ delCopy \in [DelProcs -> DeliveryDoc]
    /\ delUnseen \in [DelProcs -> SUBSET DelPipelines]
    /\ delLost \subseteq DelPipelines
    /\ delOutbox \cup delDone \subseteq
          [pipe : DelPipelines, head : {Candidate(h) : h \in DelHeads \cup {""}},
           attempt : 1 .. DelBound]
    /\ delOutbox \cap delDone = {}
    /\ delRemote \in [DelPipelines -> Nat]
    /\ delCalls \in 0 .. DelBound

Local(doc) == {p \in DelPipelines : doc.recs[p] # NoRecord /\ doc.recs[p].url = 0}

(* FakeDelivery.publish: as long as no process saves a copy that is behind  *)
(* the file, two pipelines never share a number the store itself gave out.  *)
NumbersDistinct ==
    delLost = {} => \A p, o \in Local(delFile) :
        delFile.recs[p].number = delFile.recs[o].number => p = o

(* publish and reconcile: in the file and in every copy of it, whatever     *)
(* copy was lost, the status a record shows came while the record had the   *)
(* head it names, and one that came together with a head is about that one. *)
(* Verification and the drain name two heads for one verdict, so a record   *)
(* changes heads on its own between two commands.                           *)
StatusIsOfHead ==
    \A doc \in {delFile} \cup {delCopy[q] : q \in DelProcs} : \A p \in DelPipelines :
        LET rec == doc.recs[p] IN
        rec.check # NoCheck => rec.check.at = rec.head /\ rec.check.about \in {NoHead, rec.head}

(* _drain_outbox: a PUBLISH_PR item that counts as delivered has its record *)
(* in delivery.json, with a death of either process at any point between    *)
(* the two writes.  Only a save by a process that had not seen the change   *)
(* of this pipeline's entries takes it away: a stale save of another        *)
(* pipeline's does not.                                                     *)
ConsumedIsRecorded ==
    \A item \in delDone : item.pipe \notin delLost => delFile.recs[item.pipe] # NoRecord

(* _drain_outbox: what counts as delivered was published as the item's      *)
(* candidate by the process that says so, unless the record had a pull      *)
(* request or the item has no sha.                                          *)
DeliveredAsCandidate ==
    [][\A item \in delDone' \ delDone : \E q \in DelProcs :
          /\ item \in delDrain[q].items
          /\ ToPublish(q, item) => delCopy[q].recs[item.pipe].head = item.head]_delVars

(* A pipeline keeps its number and its pull request through new heads,      *)
(* retries and restarts, and whatever the other process saves of other      *)
(* pipelines: the number changes only when GitHub's replaces it.            *)
NumberStays ==
    [][\A p \in DelPipelines \ delLost' :
          delFile.recs[p] # NoRecord =>
             \/ delFile'.recs[p].number = delFile.recs[p].number
             \/ delFile.recs[p].url = 0 /\ delFile'.recs[p].url = delRemote'[p]]_delVars

(* What delivery.json promises, across two processes that each hold a copy: *)
(* records that keep their number, statuses of the right head, and none     *)
(* missing for an item that counts as delivered.  The promise ends, for one *)
(* pipeline, where a process replaces entries it had not seen.              *)
DeliveryContract ==
    /\ [](NumbersDistinct /\ StatusIsOfHead /\ ConsumedIsRecorded)
    /\ DeliveredAsCandidate
    /\ NumberStays
=============================================================================
