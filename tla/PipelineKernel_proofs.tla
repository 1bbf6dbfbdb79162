------------------------ MODULE PipelineKernel_proofs ------------------------
(***************************************************************************)
(* Theorems about PipelineKernel, for every set of processes, pipelines,   *)
(* command ids, texts and commands.                                        *)
(***************************************************************************)
EXTENDS PipelineKernel, TLAPS

-----------------------------------------------------------------------------
(* Type correctness *)

\* The state of a pipeline without a row is well typed.
LEMMA UnconfirmedType == Unconfirmed \in PipelineState
  BY BlankAssumption DEF Unconfirmed, PipelineState, Statuses

\* apply() returns a well-typed state.
LEMMA AppliedType ==
  ASSUME NEW state \in PipelineState, NEW c \in ControllerCommand
  PROVE  Applied(state, c) \in PipelineState
  BY DEF Applied, PipelineState, Statuses, ControllerCommand

\* The event submit() writes is well typed.
LEMMA EventOfType ==
  ASSUME NEW c \in ControllerCommand, NEW rev \in Nat
  PROVE  EventOf(c, rev) \in EventWrite
  <1>1. EventType(c) \in EventTypes
    BY DEF EventType, EventTypes
  <1> QED BY <1>1 DEF EventOf, EventWrite, ControllerCommand

\* The outbox row submit() writes is well typed.
LEMMA OutboxOfType ==
  ASSUME NEW c \in ControllerCommand
  PROVE  OutboxOf(c) \in OutboxRecord
  BY DEF OutboxOf, OutboxRecord, Effects, ControllerCommand

\* What is left of the type invariant once submit() has returned.
LEMMA AnswerType ==
  ASSUME TypeOK, NEW p \in Procs, NEW status \in ReplyStatuses, NEW rev \in Nat,
         Answer(p, status, rev)
  PROVE  /\ pc' \in [Procs -> {"idle", "load", "commit"}]
         /\ snap' \in [Procs -> PipelineState]
         /\ reply' \in [Procs -> [status : ReplyStatuses, revision : Nat]]
  BY UnconfirmedType DEF TypeOK, Answer

\* A refusal leaves the state of the process well typed.
LEMMA RefuseType ==
  ASSUME TypeOK, NEW p \in Procs, NEW status \in {"REJECTED", "CONFLICT"},
         Refuse(p, status)
  PROVE  /\ pc' \in [Procs -> {"idle", "load", "commit"}]
         /\ snap' \in [Procs -> PipelineState]
         /\ reply' \in [Procs -> [status : ReplyStatuses, revision : Nat]]
  BY AnswerType DEF Refuse, ReplyStatuses

\* Every variable keeps its type: rows of the declared shape in the tables,
\* a revision that is a natural number, a submit() in one of its three places.
THEOREM TypeCorrect == Spec => []TypeOK
<1>1. Init => TypeOK
  BY CommandsAssumption, UnconfirmedType
  DEF Init, TypeOK, NoReply, ReplyStatuses
<1>2. TypeOK /\ [Next]_vars => TypeOK'
  <2> SUFFICES ASSUME TypeOK, [Next]_vars PROVE TypeOK'
    OBVIOUS
  <2> USE CommandsAssumption, UnconfirmedType DEF TypeOK, tables
  <2>1. ASSUME NEW p \in Procs, NEW c \in Commands,
               \/ SubmitPaused(p, c) \/ FindInboxFails(p, c)
        PROVE  TypeOK'
    BY <2>1, RefuseType DEF SubmitPaused, FindInboxFails, Begin
  <2>2. ASSUME NEW p \in Procs, NEW c \in Commands, FindInboxHit(p, c)
        PROVE  TypeOK'
    <3>1. PICK r \in inbox :
             IF r.command = c
             THEN Answer(p, "ACCEPTED", r.revision)
             ELSE Refuse(p, "CONFLICT")
      BY <2>2 DEF FindInboxHit
    <3>2. r.revision \in Nat /\ "ACCEPTED" \in ReplyStatuses
      BY DEF InboxRecord, ReplyStatuses
    <3> QED BY <2>2, <3>1, <3>2, AnswerType, RefuseType DEF FindInboxHit, Begin
  <2>3. ASSUME NEW p \in Procs, NEW c \in Commands, FindInboxMiss(p, c)
        PROVE  TypeOK'
    <3>1. CASE c.kind = "UNPARSABLE"
      BY <2>3, <3>1, RefuseType DEF FindInboxMiss, Begin
    <3>2. CASE c.kind # "UNPARSABLE"
      <4>1. NoReply \in [status : ReplyStatuses, revision : Nat]
        BY DEF NoReply, ReplyStatuses
      <4> QED BY <2>3, <3>2, <4>1 DEF FindInboxMiss, Begin
    <3> QED BY <3>1, <3>2
  <2>4. ASSUME NEW p \in Procs, LoadPipelineFails(p) \/ CommitFails(p)
        PROVE  TypeOK'
    BY <2>4, RefuseType DEF LoadPipelineFails, CommitFails
  <2>5. ASSUME NEW p \in Procs, LoadPipeline(p)
        PROVE  TypeOK'
    <3>1. cmd[p] \in ControllerCommand
      OBVIOUS
    <3>2. rows[cmd[p].pipeline_id] \in PipelineState
      BY <3>1 DEF ControllerCommand
    <3> QED BY <2>5, <3>2, RefuseType DEF LoadPipeline
  <2>6. ASSUME NEW p \in Procs, CommitAccepted(p)
        PROVE  TypeOK'
    <3> DEFINE c == cmd[p]
               new == Applied(snap[p], c)
    <3>1. c \in Commands /\ c \in ControllerCommand
      OBVIOUS
    <3>2. new \in PipelineState /\ new.revision \in Nat
      BY <3>1, AppliedType DEF PipelineState
    <3>3. inbox' \subseteq InboxRecord
      BY <2>6, <3>1, <3>2 DEF CommitAccepted, InboxRecord
    <3>4. events' \subseteq EventWrite
      BY <2>6, <3>1, <3>2, EventOfType DEF CommitAccepted
    <3>5. outbox' \subseteq OutboxRecord
      BY <2>6, <3>1, OutboxOfType DEF CommitAccepted
    <3>6. rows' \in [Pipelines -> PipelineState]
      BY <2>6, <3>1, <3>2 DEF CommitAccepted, ControllerCommand
    <3> HIDE DEF c, new
    <3>7. /\ pc' = [pc EXCEPT ![p] = "idle"]
          /\ snap' = [snap EXCEPT ![p] = Unconfirmed]
          /\ reply' = [reply EXCEPT ![p] = [status |-> "ACCEPTED", revision |-> new.revision]]
          /\ UNCHANGED <<cmd, paused>>
      BY <2>6 DEF CommitAccepted, Answer, c, new
    <3> QED BY <3>2, <3>3, <3>4, <3>5, <3>6, <3>7 DEF ReplyStatuses
  <2>7. ASSUME NEW p \in Procs, Pause(p) \/ Resume(p) \/ Crash(p)
        PROVE  TypeOK'
    BY <2>7 DEF Pause, Resume, Crash, NoReply, ReplyStatuses
  <2>8. ASSUME NEW p \in Procs, NEW id \in CmdIds, NEW receipt \in DeliveryReceipts,
               RecordOutboxDelivery(p, id, receipt)
        PROVE  TypeOK'
    <3> DEFINE delivered(o) ==
                 [command_id |-> id, effect |-> o.effect, receipt |-> receipt]
    <3>1. PICK o \in outbox : outbox' = (outbox \ {o}) \cup {delivered(o)}
      BY <2>8 DEF RecordOutboxDelivery
    <3>2. o.effect \in Effects
      BY DEF OutboxRecord
    <3>3. delivered(o) \in OutboxRecord
      BY <3>2 DEF OutboxRecord
    <3> QED BY <2>8, <3>1, <3>3 DEF RecordOutboxDelivery
  <2>9. ASSUME NEW p \in Procs, NEW pl \in Pipelines, RebuildPipeline(p, pl)
        PROVE  TypeOK'
    <3>1. {e.revision : e \in EventsOf(pl)} \subseteq Nat
      BY DEF EventsOf, EventWrite
    <3>2. rows' \in [Pipelines -> PipelineState]
      BY <2>9, <3>1 DEF RebuildPipeline, PipelineState
    <3> QED BY <2>9, <3>2 DEF RebuildPipeline
  <2>10. CASE UNCHANGED vars
    BY <2>10 DEF vars
  <2> QED
    BY <2>1, <2>2, <2>3, <2>4, <2>5, <2>6, <2>7, <2>8, <2>9, <2>10
    DEF Next, Submit, Maintain
<1> QED BY <1>1, <1>2, PTL DEF Spec

-----------------------------------------------------------------------------
(* Accepted commands: one fact each, acknowledged only when durable *)

\* A submit() past find_inbox has a parsed command; one that reached its
\* commit found the expected revision and an accepted outcome in what it loaded.
CommitPrepared ==
    \A p \in Procs :
        /\ pc[p] # "idle" => cmd[p].kind # "UNPARSABLE"
        /\ pc[p] = "commit" =>
              /\ snap[p].revision = cmd[p].expected_revision
              /\ Outcome(snap[p], cmd[p]) = "ACCEPTED"

\* Every step keeps what a process carries into its commit.
LEMMA PreparedStep ==
  ASSUME TypeOK, CommitPrepared, [Next]_vars
  PROVE  CommitPrepared'
<1> USE CommandsAssumption DEF TypeOK, CommitPrepared
<1>1. ASSUME NEW p \in Procs, NEW c \in Commands,
             \/ SubmitPaused(p, c) \/ FindInboxFails(p, c) \/ FindInboxHit(p, c)
      PROVE  CommitPrepared'
  <2>1. /\ pc' = [pc EXCEPT ![p] = "idle"] /\ cmd' = [cmd EXCEPT ![p] = c]
        /\ snap' = [snap EXCEPT ![p] = Unconfirmed]
    BY <1>1 DEF SubmitPaused, FindInboxFails, FindInboxHit, Begin, Refuse, Answer
  <2> QED BY <2>1
<1>2. ASSUME NEW p \in Procs, NEW c \in Commands, FindInboxMiss(p, c)
      PROVE  CommitPrepared'
  <2>1. /\ \/ pc' = [pc EXCEPT ![p] = "idle"]
           \/ pc' = [pc EXCEPT ![p] = "load"] /\ c.kind # "UNPARSABLE"
        /\ cmd' = [cmd EXCEPT ![p] = c]
        /\ \A q \in Procs : q # p => snap'[q] = snap[q]
    BY <1>2 DEF FindInboxMiss, Begin, Refuse, Answer
  <2> QED BY <2>1
<1>3. ASSUME NEW p \in Procs, LoadPipeline(p)
      PROVE  CommitPrepared'
  <2>1. /\ \/ pc' = [pc EXCEPT ![p] = "idle"]
           \/ /\ pc' = [pc EXCEPT ![p] = "commit"] /\ pc[p] = "load"
              /\ snap'[p].revision = cmd[p].expected_revision
              /\ Outcome(snap'[p], cmd[p]) = "ACCEPTED"
        /\ cmd' = cmd
        /\ \A q \in Procs : q # p => snap'[q] = snap[q]
    BY <1>3 DEF LoadPipeline, Refuse, Answer
  <2> QED BY <2>1
<1>4. ASSUME NEW p \in Procs,
             LoadPipelineFails(p) \/ CommitFails(p) \/ CommitAccepted(p) \/ Crash(p)
      PROVE  CommitPrepared'
  <2>1. /\ pc' = [pc EXCEPT ![p] = "idle"] /\ cmd' = cmd
        /\ snap' = [snap EXCEPT ![p] = Unconfirmed]
    BY <1>4 DEF LoadPipelineFails, CommitFails, CommitAccepted, Crash, Refuse, Answer
  <2> QED BY <2>1
<1>5. ASSUME UNCHANGED <<pc, cmd, snap>>
      PROVE  CommitPrepared'
  BY <1>5
<1>6. ASSUME NEW p \in Procs,
             \/ Pause(p) \/ Resume(p)
             \/ \E id \in CmdIds, receipt \in DeliveryReceipts :
                   RecordOutboxDelivery(p, id, receipt)
             \/ \E pl \in Pipelines : RebuildPipeline(p, pl)
      PROVE  UNCHANGED <<pc, cmd, snap>>
  BY <1>6 DEF Pause, Resume, RecordOutboxDelivery, RebuildPipeline
<1>7. CASE UNCHANGED vars
  BY <1>7, <1>5 DEF vars
<1> QED
  BY <1>1, <1>2, <1>3, <1>4, <1>5, <1>6, <1>7 DEF Next, Submit, Maintain

\* Only a commit adds rows to the inbox and the events, and only a commit and
\* a delivery touch the outbox.
LEMMA TablesStep ==
  ASSUME [Next]_vars
  PROVE  \/ \E p \in Procs : CommitAccepted(p)
         \/ \E p \in Procs, id \in CmdIds, receipt \in DeliveryReceipts :
               RecordOutboxDelivery(p, id, receipt)
         \/ UNCHANGED <<inbox, events, outbox>>
  BY DEF Next, Submit, Maintain, SubmitPaused, FindInboxFails, FindInboxHit,
         FindInboxMiss, LoadPipelineFails, LoadPipeline, CommitFails, Pause,
         Resume, RebuildPipeline, Crash, vars, tables

\* Every step keeps inbox, events and outbox in agreement.
LEMMA OneFactStep ==
  ASSUME TypeOK, CommitPrepared, OneFactPerCommand, [Next]_vars
  PROVE  OneFactPerCommand'
<1> USE CommandsAssumption DEF TypeOK
<1>1. ASSUME NEW p \in Procs, CommitAccepted(p)
      PROVE  OneFactPerCommand'
  <2> DEFINE c == cmd[p]
             new == Applied(snap[p], c)
             row == [command |-> c, revision |-> new.revision]
  <2>1. c \in ControllerCommand /\ c.expected_revision \in Nat
    BY DEF ControllerCommand
  <2>2. new.revision = c.expected_revision + 1
    BY <1>1 DEF CommitAccepted, CommitPrepared, Applied
  <2>3. /\ inbox' = inbox \cup {row}
        /\ events' = events \cup {EventOf(row.command, row.revision)}
        /\ outbox' = outbox \cup {OutboxOf(row.command)}
        /\ \A r \in inbox : r.command.command_id # row.command.command_id
    BY <1>1 DEF CommitAccepted, KeyTaken, Recorded
  <2>4. row.revision = row.command.expected_revision + 1
    BY <2>2
  <2> HIDE DEF row
  <2>5. \A r, s \in inbox' : r.command.command_id = s.command.command_id => r = s
    BY <2>3 DEF OneFactPerCommand
  <2>6. \A r \in inbox' : r.revision = r.command.expected_revision + 1
    BY <2>3, <2>4 DEF OneFactPerCommand
  <2>7. events' = {EventOf(r.command, r.revision) : r \in inbox'}
    BY <2>3 DEF OneFactPerCommand
  <2>8. OutboxOf(row.command).command_id = row.command.command_id
    BY DEF OutboxOf
  <2>9. {<<o.command_id, o.effect>> : o \in outbox'}
          = {<<r.command.command_id, OutboxOf(r.command).effect>> : r \in inbox'}
    BY <2>3, <2>8 DEF OneFactPerCommand
  <2> QED BY <2>5, <2>6, <2>7, <2>9 DEF OneFactPerCommand
<1>2. ASSUME NEW p \in Procs, NEW id \in CmdIds, NEW receipt \in DeliveryReceipts,
             RecordOutboxDelivery(p, id, receipt)
      PROVE  OneFactPerCommand'
  <2> DEFINE delivered(o) ==
               [command_id |-> id, effect |-> o.effect, receipt |-> receipt]
  <2>1. PICK o \in outbox : /\ o.command_id = id
                            /\ outbox' = (outbox \ {o}) \cup {delivered(o)}
    BY <1>2 DEF RecordOutboxDelivery
  <2>2. <<delivered(o).command_id, delivered(o).effect>> = <<o.command_id, o.effect>>
    BY <2>1
  <2> HIDE DEF delivered
  <2>3. {<<q.command_id, q.effect>> : q \in outbox'}
          = {<<q.command_id, q.effect>> : q \in outbox}
    BY <2>1, <2>2
  <2>4. UNCHANGED <<inbox, events>>
    BY <1>2 DEF RecordOutboxDelivery
  <2> QED BY <2>3, <2>4 DEF OneFactPerCommand, OutboxOf
<1>3. CASE UNCHANGED <<inbox, events, outbox>>
  BY <1>3 DEF OneFactPerCommand, OutboxOf
<1> QED BY <1>1, <1>2, <1>3, TablesStep

\* Every step keeps the accepted replies in the inbox.
LEMMA AckedStep ==
  ASSUME TypeOK, AckedDurable, [Next]_vars
  PROVE  AckedDurable'
<1> USE CommandsAssumption DEF TypeOK
<1>1. ASSUME NEW p \in Procs, NEW status \in {"REJECTED", "CONFLICT"},
             Refuse(p, status), inbox' = inbox,
             \A q \in Procs : q # p => cmd'[q] = cmd[q]
      PROVE  AckedDurable'
  BY <1>1 DEF AckedDurable, Refuse, Answer
<1>2. ASSUME NEW p \in Procs, NEW c \in Commands,
             \/ SubmitPaused(p, c) \/ FindInboxFails(p, c)
      PROVE  AckedDurable'
  BY <1>1, <1>2 DEF SubmitPaused, FindInboxFails, Begin, tables
<1>3. ASSUME NEW p \in Procs, NEW c \in Commands, FindInboxHit(p, c)
      PROVE  AckedDurable'
  <2>1. PICK r \in inbox :
           IF r.command = c
           THEN Answer(p, "ACCEPTED", r.revision)
           ELSE Refuse(p, "CONFLICT")
    BY <1>3 DEF FindInboxHit
  <2>2. inbox' = inbox /\ cmd' = [cmd EXCEPT ![p] = c]
    BY <1>3 DEF FindInboxHit, Begin, tables
  <2>3. CASE r.command # c
    BY <1>1, <2>1, <2>2, <2>3
  <2>4. CASE r.command = c
    <3>1. [command |-> c, revision |-> r.revision] = r
      BY <2>4 DEF InboxRecord
    <3>2. reply' = [reply EXCEPT ![p] =
                      [status |-> "ACCEPTED", revision |-> r.revision]]
      BY <2>1, <2>4 DEF Answer
    <3> QED BY <2>2, <3>1, <3>2 DEF AckedDurable
  <2> QED BY <2>3, <2>4
<1>4. ASSUME NEW p \in Procs, NEW c \in Commands, FindInboxMiss(p, c)
      PROVE  AckedDurable'
  <2>1. inbox' = inbox /\ cmd' = [cmd EXCEPT ![p] = c]
    BY <1>4 DEF FindInboxMiss, Begin, tables
  <2>2. CASE c.kind = "UNPARSABLE"
    BY <1>1, <1>4, <2>1, <2>2 DEF FindInboxMiss
  <2>3. CASE c.kind # "UNPARSABLE"
    BY <1>4, <2>1, <2>3 DEF FindInboxMiss, AckedDurable, NoReply
  <2> QED BY <2>2, <2>3
<1>5. ASSUME NEW p \in Procs, LoadPipelineFails(p) \/ CommitFails(p)
      PROVE  AckedDurable'
  BY <1>1, <1>5 DEF LoadPipelineFails, CommitFails, tables
<1>6. ASSUME NEW p \in Procs, LoadPipeline(p)
      PROVE  AckedDurable'
  <2>1. /\ inbox' = inbox /\ cmd' = cmd
        /\ reply' = reply \/ Refuse(p, "CONFLICT") \/ Refuse(p, "REJECTED")
    BY <1>6 DEF LoadPipeline, tables
  <2> QED BY <1>1, <2>1 DEF AckedDurable
<1>7. ASSUME NEW p \in Procs, CommitAccepted(p)
      PROVE  AckedDurable'
  <2> DEFINE row == [command |-> cmd[p],
                     revision |-> Applied(snap[p], cmd[p]).revision]
  <2>1. /\ inbox' = inbox \cup {row} /\ cmd' = cmd
        /\ reply' = [reply EXCEPT ![p] =
                       [status |-> "ACCEPTED", revision |-> row.revision]]
    BY <1>7 DEF CommitAccepted, Answer
  <2>2. row = [command |-> cmd[p], revision |-> row.revision]
    OBVIOUS
  <2> HIDE DEF row
  <2> QED BY <2>1, <2>2 DEF AckedDurable
<1>8. ASSUME NEW p \in Procs, Crash(p)
      PROVE  AckedDurable'
  BY <1>8 DEF Crash, NoReply, AckedDurable, tables
<1>9. ASSUME UNCHANGED <<inbox, cmd, reply>>
      PROVE  AckedDurable'
  BY <1>9 DEF AckedDurable
<1>10. ASSUME NEW p \in Procs,
              \/ Pause(p) \/ Resume(p)
              \/ \E id \in CmdIds, receipt \in DeliveryReceipts :
                    RecordOutboxDelivery(p, id, receipt)
              \/ \E pl \in Pipelines : RebuildPipeline(p, pl)
       PROVE  UNCHANGED <<inbox, cmd, reply>>
  BY <1>10 DEF Pause, Resume, RecordOutboxDelivery, RebuildPipeline, tables
<1>11. CASE UNCHANGED vars
  BY <1>9, <1>11 DEF vars
<1> QED
  BY <1>2, <1>3, <1>4, <1>5, <1>6, <1>7, <1>8, <1>9, <1>10, <1>11
  DEF Next, Submit, Maintain

\* For any number of racing processes, failed commits and crashes: a command
\* id has one inbox row, and the event log and the outbox are exactly what the
\* inbox says was accepted.
THEOREM OneFactPerCommandHolds == Spec => []OneFactPerCommand
<1>1. Init => CommitPrepared /\ OneFactPerCommand
  BY DEF Init, CommitPrepared, OneFactPerCommand
<1>2. TypeOK /\ CommitPrepared /\ OneFactPerCommand /\ [Next]_vars
        => (CommitPrepared /\ OneFactPerCommand)'
  BY PreparedStep, OneFactStep
<1> QED BY <1>1, <1>2, TypeCorrect, PTL DEF Spec

\* For any number of processes: no caller is ever told ACCEPTED, by a commit
\* or by a replayed receipt, for a command that is not in the inbox.
THEOREM AckedDurableHolds == Spec => []AckedDurable
<1>1. Init => AckedDurable
  BY DEF Init, AckedDurable, NoReply
<1>2. TypeOK /\ AckedDurable /\ [Next]_vars => AckedDurable'
  BY AckedStep
<1> QED BY <1>1, <1>2, TypeCorrect, PTL DEF Spec

\* Accepted commands, events and delivery receipts are never taken back.
THEOREM PermanentFactsHold == Spec => PermanentFacts
<1> DEFINE Kept == /\ inbox \subseteq inbox' /\ events \subseteq events'
                   /\ \A o \in outbox : o.receipt # "PENDING" => o \in outbox'
<1>1. [Next]_vars => [Kept]_vars
  <2>1. ASSUME NEW p \in Procs, CommitAccepted(p) PROVE Kept
    BY <2>1 DEF CommitAccepted
  <2>2. ASSUME NEW p \in Procs, NEW id \in CmdIds, NEW receipt \in DeliveryReceipts,
               RecordOutboxDelivery(p, id, receipt)
        PROVE  Kept
    BY <2>2 DEF RecordOutboxDelivery
  <2> QED BY <2>1, <2>2, TablesStep
<1> QED BY <1>1, PTL DEF Spec, PermanentFacts

=============================================================================
