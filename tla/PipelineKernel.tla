--------------------------- MODULE PipelineKernel ---------------------------
(***************************************************************************)
(* KernelController (controller/kernel.py) over SqliteKernelStore          *)
(* (persistence/kernel_sqlite.py).                                         *)
(*                                                                         *)
(* A member of Procs is an operating-system process that holds a           *)
(* KernelController of its own on the shared controller.sqlite: the HTTP   *)
(* sidecar, and each stage worker it spawns.  submit() is three store      *)
(* calls, each its own transaction, so other processes may run between     *)
(* them: find_inbox, load_pipeline, commit_accepted.  A process may crash  *)
(* at any point; the tables survive, its memory does not.                  *)
(*                                                                         *)
(* A table is the set of its rows.  The command itself stands for its      *)
(* fingerprint (a content hash of the whole command).                      *)
(***************************************************************************)
EXTENDS PipelineDomain

CONSTANTS
    Procs,     \* processes with a controller on this database
    Commands   \* the commands clients submit

ASSUME CommandsAssumption ==
    Commands \subseteq ControllerCommand /\ Commands # {}

VARIABLES
    inbox,    \* rows [command, revision]: the receipt is ACCEPTED at revision
    events,   \* rows of EventWrite
    rows,     \* pipeline id -> its projection row
    outbox,   \* rows [command_id, effect, receipt]
    pc,       \* process -> where its submit() is
    cmd,      \* process -> the command of its latest submit()
    snap,     \* process -> the state its submit() loaded
    reply,    \* process -> the receipt its latest submit() returned
    paused    \* the processes whose controller has its _paused flag set

tables == <<inbox, events, rows, outbox>>
vars == <<inbox, events, rows, outbox, pc, cmd, snap, reply, paused>>

ReplyStatuses == {"NONE", "ACCEPTED", "CONFLICT", "REJECTED"}
NoReply == [status |-> "NONE", revision |-> 0]

InboxRecord == [command : Commands, revision : Nat]
Effects == {"PUBLISH_PR", "EVENT"}
DeliveryReceipts == {"REPLAYED", "PUBLISHED"}
OutboxRecord ==
    [command_id : CmdIds, effect : Effects,
     receipt : {"PENDING", "{}"} \cup DeliveryReceipts]

TypeOK ==
    /\ inbox \subseteq InboxRecord
    /\ events \subseteq EventWrite
    /\ rows \in [Pipelines -> PipelineState]
    /\ outbox \subseteq OutboxRecord
    /\ pc \in [Procs -> {"idle", "load", "commit"}]
    /\ cmd \in [Procs -> Commands]
    /\ snap \in [Procs -> PipelineState]
    /\ reply \in [Procs -> [status : ReplyStatuses, revision : Nat]]
    /\ paused \subseteq Procs

Init ==
    /\ inbox = {} /\ events = {} /\ outbox = {}
    /\ rows = [pl \in Pipelines |-> Unconfirmed]
    /\ pc = [p \in Procs |-> "idle"]
    /\ cmd = [p \in Procs |-> CHOOSE c \in Commands : TRUE]
    /\ snap = [p \in Procs |-> Unconfirmed]
    /\ reply = [p \in Procs |-> NoReply]
    /\ paused = {}

-----------------------------------------------------------------------------
(* submit() *)

\* submit() returns; its locals are gone.
Answer(p, status, revision) ==
    /\ pc' = [pc EXCEPT ![p] = "idle"]
    /\ snap' = [snap EXCEPT ![p] = Unconfirmed]
    /\ reply' = [reply EXCEPT ![p] = [status |-> status, revision |-> revision]]

\* The error code and the observed revision of a refusal are left out: they
\* are for the caller to read and change nothing.
Refuse(p, status) == Answer(p, status, 0)

Recorded(id) == \E r \in inbox : r.command.command_id = id

Begin(p, c) == pc[p] = "idle" /\ cmd' = [cmd EXCEPT ![p] = c]

SubmitPaused(p, c) ==
    /\ Begin(p, c) /\ p \in paused
    /\ Refuse(p, "REJECTED")
    /\ UNCHANGED <<tables, paused>>

FindInboxFails(p, c) ==
    /\ Begin(p, c) /\ p \notin paused
    /\ Refuse(p, "REJECTED")
    /\ UNCHANGED <<tables, paused>>

\* Mutant of FindInboxHit: the fingerprint is not compared.
FindInboxHitAnyPayload(p, c) ==
    /\ Begin(p, c) /\ p \notin paused
    /\ \E r \in inbox :
          r.command.command_id = c.command_id /\ Answer(p, "ACCEPTED", r.revision)
    /\ UNCHANGED <<tables, paused>>

\* The id is in the inbox: the stored receipt, or an identity conflict.
FindInboxHit(p, c) ==
    /\ Begin(p, c) /\ p \notin paused
    /\ \E r \in inbox :
          /\ r.command.command_id = c.command_id
          /\ IF r.command = c
             THEN Answer(p, "ACCEPTED", r.revision)
             ELSE Refuse(p, "CONFLICT")
    /\ UNCHANGED <<tables, paused>>

FindInboxMiss(p, c) ==
    /\ Begin(p, c) /\ p \notin paused /\ ~Recorded(c.command_id)
    /\ IF c.kind = "UNPARSABLE"
       THEN Refuse(p, "REJECTED")
       ELSE /\ pc' = [pc EXCEPT ![p] = "load"]
            /\ reply' = [reply EXCEPT ![p] = NoReply]
            /\ UNCHANGED snap
    /\ UNCHANGED <<tables, paused>>

LoadPipelineFails(p) ==
    /\ pc[p] = "load"
    /\ Refuse(p, "REJECTED")
    /\ UNCHANGED <<tables, cmd, paused>>

\* Mutant of LoadPipeline: the expected revision is not compared.
LoadPipelineAnyRevision(p) ==
    LET c == cmd[p]
        state == rows[c.pipeline_id]
    IN  /\ pc[p] = "load"
        /\ IF Outcome(state, c) # "ACCEPTED"
           THEN Refuse(p, "REJECTED")
           ELSE /\ pc' = [pc EXCEPT ![p] = "commit"]
                /\ snap' = [snap EXCEPT ![p] = state]
                /\ UNCHANGED reply
        /\ UNCHANGED <<tables, cmd, paused>>

\* The revision check and apply() use the row as it is now; an accepted
\* write is prepared from it and committed in a later transaction.
LoadPipeline(p) ==
    LET c == cmd[p]
        state == rows[c.pipeline_id]
    IN  /\ pc[p] = "load"
        /\ IF c.expected_revision # state.revision
           THEN Refuse(p, "CONFLICT")
           ELSE IF Outcome(state, c) # "ACCEPTED"
           THEN Refuse(p, "REJECTED")
           ELSE /\ pc' = [pc EXCEPT ![p] = "commit"]
                /\ snap' = [snap EXCEPT ![p] = state]
                /\ UNCHANGED reply
        /\ UNCHANGED <<tables, cmd, paused>>

\* Mutant of OutboxOf: the effect is the command type.
OutboxOfCommandType(c) ==
    [command_id |-> c.command_id, effect |-> c.kind,
     receipt |-> IF c.kind = "RECORD_READY" THEN "PENDING" ELSE "{}"]

OutboxOf(c) ==
    [command_id |-> c.command_id,
     effect  |-> IF c.kind = "RECORD_READY" THEN "PUBLISH_PR" ELSE "EVENT",
     receipt |-> IF c.kind = "RECORD_READY" THEN "PENDING" ELSE "{}"]

\* The primary keys of the inbox, the events and the outbox.
KeyTaken(id) ==
    \/ Recorded(id)
    \/ \E e \in events : e.event_id = id
    \/ \E o \in outbox : o.command_id = id

\* Mutant of CommitAccepted: the keys of the tables are not enforced.
CommitAcceptedTwice(p) ==
    LET c == cmd[p]
        new == Applied(snap[p], c)
    IN  /\ pc[p] = "commit"
        /\ inbox' = inbox \cup {[command |-> c, revision |-> new.revision]}
        /\ events' = events \cup {EventOf(c, new.revision)}
        /\ outbox' = outbox \cup {OutboxOf(c)}
        /\ rows' = [rows EXCEPT ![c.pipeline_id] = new]
        /\ Answer(p, "ACCEPTED", new.revision)
        /\ UNCHANGED <<cmd, paused>>

\* commit_accepted: one transaction.  A command id that is already in one of
\* the tables is refused; the upsert of the projection row has no condition.
CommitAccepted(p) ==
    LET c == cmd[p]
        new == Applied(snap[p], c)
    IN  /\ pc[p] = "commit"
        /\ ~KeyTaken(c.command_id)
        /\ inbox' = inbox \cup {[command |-> c, revision |-> new.revision]}
        /\ events' = events \cup {EventOf(c, new.revision)}
        /\ outbox' = outbox \cup {OutboxOf(c)}
        /\ rows' = [rows EXCEPT ![c.pipeline_id] = new]
        /\ Answer(p, "ACCEPTED", new.revision)
        /\ UNCHANGED <<cmd, paused>>

\* A key violation, a full disk, a busy database: the transaction rolls back.
CommitFails(p) ==
    /\ pc[p] = "commit"
    /\ Refuse(p, "REJECTED")
    /\ UNCHANGED <<tables, cmd, paused>>

-----------------------------------------------------------------------------
(* The other operations of the controller *)

Pause(p) ==
    /\ pc[p] = "idle" /\ paused' = paused \cup {p}
    /\ UNCHANGED <<tables, pc, cmd, snap, reply>>

Resume(p) ==
    /\ pc[p] = "idle" /\ paused' = paused \ {p}
    /\ UNCHANGED <<tables, pc, cmd, snap, reply>>

\* Mutant of RecordOutboxDelivery: the update has no receipt condition.
RecordOutboxDeliveryAgain(p, id, receipt) ==
    /\ pc[p] = "idle"
    /\ \E o \in outbox :
          /\ o.command_id = id
          /\ outbox' = (outbox \ {o}) \cup
                {[command_id |-> id, effect |-> o.effect, receipt |-> receipt]}
    /\ UNCHANGED <<inbox, events, rows, pc, cmd, snap, reply, paused>>

\* record_outbox_delivery, called by replay() and by the outbox drain: an
\* update of the row where it has no receipt yet.
RecordOutboxDelivery(p, id, receipt) ==
    /\ pc[p] = "idle"
    /\ \E o \in outbox :
          /\ o.command_id = id /\ o.receipt = "PENDING"
          /\ outbox' = (outbox \ {o}) \cup
                {[command_id |-> id, effect |-> o.effect, receipt |-> receipt]}
    /\ UNCHANGED <<inbox, events, rows, pc, cmd, snap, reply, paused>>

EventsOf(pl) == {e \in events : e.pipeline_id = pl}

\* Mutant of RebuildPipeline: the row is deleted and not written again.
RebuildPipelineEmpty(p, pl) ==
    /\ pc[p] = "idle"
    /\ rows' = [rows EXCEPT ![pl] = Unconfirmed]
    /\ UNCHANGED <<inbox, events, outbox, pc, cmd, snap, reply, paused>>

\* rebuild_pipeline: delete the row, list the events, fold, upsert, in one
\* transaction.
RebuildPipeline(p, pl) ==
    /\ pc[p] = "idle"
    /\ \E row \in [status : Statuses, text : Texts,
                   revision : {0} \cup {e.revision : e \in EventsOf(pl)}] :
          /\ FoldsTo(EventsOf(pl), row)
          /\ rows' = [rows EXCEPT ![pl] = row]
    /\ UNCHANGED <<inbox, events, outbox, pc, cmd, snap, reply, paused>>

\* The process dies and starts again: memory is lost, the caller has no reply.
Crash(p) ==
    /\ pc' = [pc EXCEPT ![p] = "idle"]
    /\ snap' = [snap EXCEPT ![p] = Unconfirmed]
    /\ reply' = [reply EXCEPT ![p] = NoReply]
    /\ paused' = paused \ {p}
    /\ UNCHANGED <<tables, cmd>>

Submit(p) ==
    \/ \E c \in Commands :
          \/ SubmitPaused(p, c) \/ FindInboxFails(p, c)
          \/ FindInboxHit(p, c) \/ FindInboxMiss(p, c)
    \/ LoadPipelineFails(p) \/ LoadPipeline(p)
    \/ CommitAccepted(p) \/ CommitFails(p)

Maintain(p) ==
    \/ Pause(p) \/ Resume(p) \/ Crash(p)
    \/ \E id \in CmdIds, receipt \in DeliveryReceipts :
          RecordOutboxDelivery(p, id, receipt)
    \/ \E pl \in Pipelines : RebuildPipeline(p, pl)

Next == \E p \in Procs : Submit(p) \/ Maintain(p)

Spec == Init /\ [][Next]_vars

-----------------------------------------------------------------------------
(* Properties of any number of processes *)

\* The inbox, the event log and the outbox tell one story: a command id has
\* at most one inbox row, the events are exactly the events of the accepted
\* commands, each at the revision its receipt names and one above the
\* revision the command expected, and so are the outbox rows, whatever
\* crashes, failed commits and racing submits came before.
OneFactPerCommand ==
    /\ \A r, s \in inbox :
          r.command.command_id = s.command.command_id => r = s
    /\ \A r \in inbox : r.revision = r.command.expected_revision + 1
    /\ events = {EventOf(r.command, r.revision) : r \in inbox}
    /\ {<<o.command_id, o.effect>> : o \in outbox}
         = {<<r.command.command_id, OutboxOf(r.command).effect>> : r \in inbox}

\* A caller that was told ACCEPTED, by the commit or by the replay of the
\* stored receipt, can rely on it: exactly that command is in the inbox, with
\* the revision of the receipt.
AckedDurable ==
    \A p \in Procs :
        reply[p].status = "ACCEPTED" =>
            [command |-> cmd[p], revision |-> reply[p].revision] \in inbox

\* apply() lets a station be recorded only in an OPEN pipeline, so the log
\* holds a confirmation of a non-empty requirement before every station.
StationsFollowConfirmation ==
    \A e \in events :
        e.type = "STATION_RECORDED" =>
            \E f \in events :
                /\ f.pipeline_id = e.pipeline_id
                /\ f.type = "REQUIREMENT_CONFIRMED" /\ f.text # Blank
                /\ f.revision < e.revision

\* Accepted facts are permanent: no step drops an inbox row or an event, and
\* the first delivery receipt an outbox row gets is the one it keeps, however
\* often the effect is replayed or drained.
PermanentFacts ==
    [][/\ inbox \subseteq inbox' /\ events \subseteq events'
       /\ \A o \in outbox : o.receipt # "PENDING" => o \in outbox']_vars

\* What the transactions of the store guarantee without any agreement between
\* the processes that use it.
TransactionsSuffice ==
    [](OneFactPerCommand /\ AckedDurable /\ StationsFollowConfirmation) /\ PermanentFacts

-----------------------------------------------------------------------------
(* Properties of a single writer, the deployment ADR-0021 prescribes *)

SingleWriter == \A p, q \in Procs : p = q

\* The events of a pipeline are numbered 1, 2, ... up to the revision of its
\* row, one event per revision: the optimistic revision check works.
RevisionsContiguous ==
    \A pl \in Pipelines :
        /\ {e.revision : e \in EventsOf(pl)} = 1..rows[pl].revision
        /\ \A e, f \in EventsOf(pl) : e.revision = f.revision => e = f

\* The projection row is what rebuild_pipeline would compute from the log.
ProjectionIsFold ==
    \A pl \in Pipelines : FoldsTo(EventsOf(pl), rows[pl])

\* A requirement is decided once: a pipeline is never both confirmed and
\* rejected, nor confirmed twice.
DecidedOnce ==
    \A pl \in Pipelines : \A e, f \in Decisions(EventsOf(pl)) : e = f

=============================================================================
