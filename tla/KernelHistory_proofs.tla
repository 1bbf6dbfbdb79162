------------------------ MODULE KernelHistory_proofs ------------------------
(***************************************************************************)
(* Theorems about the histories PipelineKernel builds: for any number of   *)
(* processes, stations follow a confirmation; for a single writer, the     *)
(* revisions are contiguous, the projection is the fold of the log, and a  *)
(* requirement is decided once.                                            *)
(***************************************************************************)
EXTENDS PipelineKernel_proofs

-----------------------------------------------------------------------------
(* Any number of processes *)

Confirmed(pl) ==
    \E f \in events : /\ f.pipeline_id = pl /\ f.revision = 1
                      /\ f.type = "REQUIREMENT_CONFIRMED" /\ f.text # Blank

\* A state of pipeline pl, stored or loaded: undecided exactly at revision 0,
\* open only when the log has a confirmation.
Grounded(state, pl) ==
    /\ state.status = "UNCONFIRMED" <=> state.revision = 0
    /\ state.status = "OPEN" => Confirmed(pl)

\* Decisions are made at revision 1 and stations recorded above it.
Placed(e) ==
    IF e.type = "STATION_RECORDED" THEN e.revision > 1 /\ Confirmed(e.pipeline_id)
    ELSE /\ e.revision = 1
         /\ e.type = "REQUIREMENT_CONFIRMED" => e.text # Blank

LifeCycle ==
    /\ \A e \in events : Placed(e)
    /\ \A pl \in Pipelines : Grounded(rows[pl], pl)
    /\ \A p \in Procs :
          pc[p] = "commit" => Grounded(snap[p], cmd[p].pipeline_id)

\* A confirmation in the log stays there.
LEMMA ConfirmedStays ==
  ASSUME events \subseteq events', NEW pl, Confirmed(pl)
  PROVE  Confirmed(pl)'
  BY DEF Confirmed

\* The fold of a log whose events are all well placed.
LEMMA FoldGrounded ==
  ASSUME TypeOK, NEW pl \in Pipelines, \A e \in events : Placed(e),
         NEW row \in PipelineState, FoldsTo(EventsOf(pl), row)
  PROVE  Grounded(row, pl)
<1> DEFINE E == EventsOf(pl)
<1>1. \A e \in E : e \in events /\ e.revision \in Nat /\ e.revision >= 1
  BY DEF EventsOf, Placed, TypeOK, EventWrite
<1>2. CASE E = {}
  BY <1>2 DEF FoldsTo, Decisions, Grounded
<1>3. CASE E # {}
  <2>1. row.revision >= 1
    BY <1>1, <1>3 DEF FoldsTo
  <2>2. Decisions(E) # {}
    <3>1. PICK e \in E : TRUE
      BY <1>3
    <3>2. CASE e.type = "STATION_RECORDED"
      <4>1. PICK f \in events : f.pipeline_id = pl /\ f.type = "REQUIREMENT_CONFIRMED"
        BY <3>1, <3>2 DEF EventsOf, Placed, Confirmed
      <4> QED BY <4>1 DEF Decisions, EventsOf
    <3> QED BY <3>1, <3>2 DEF Decisions
  <2>3. PICK e \in Decisions(E) :
          row.status = IF e.type = "REQUIREMENT_CONFIRMED" THEN "OPEN" ELSE "REJECTED"
    BY <2>2 DEF FoldsTo
  <2>4. row.status = "OPEN" => Confirmed(pl)
    BY <2>3, <1>1 DEF Decisions, EventsOf, Confirmed, Placed
  <2> QED BY <2>1, <2>3, <2>4 DEF Grounded, PipelineState
<1> QED BY <1>2, <1>3

\* What a commit appends, and the row it writes, are well placed.
LEMMA CommitPlaced ==
  ASSUME TypeOK, CommitPrepared, LifeCycle, NEW p \in Procs, CommitAccepted(p),
         NEW c, c = cmd[p], NEW new, new = Applied(snap[p], c),
         NEW ev, ev = EventOf(c, new.revision)
  PROVE  Placed(ev)' /\ Grounded(new, c.pipeline_id)'
<1>1. /\ c \in ControllerCommand /\ c.kind \in Kinds \ {"UNPARSABLE"}
      /\ snap[p] \in PipelineState /\ snap[p].revision \in Nat
      /\ new.revision = snap[p].revision + 1
      /\ events' = events \cup {ev}
  BY CommandsAssumption
  DEF CommitAccepted, CommitPrepared, TypeOK, ControllerCommand, PipelineState,
      Applied
<1>2. Outcome(snap[p], c) = "ACCEPTED" /\ Grounded(snap[p], c.pipeline_id)
  BY DEF CommitAccepted, CommitPrepared, LifeCycle
<1>3. /\ ev.type = EventType(c) /\ ev.text = c.text /\ ev.revision = new.revision
      /\ ev.pipeline_id = c.pipeline_id
  BY DEF EventOf
<1>4. CASE c.kind \in RecordKinds
  <2>1. snap[p].status = "OPEN"
    BY <1>2, <1>4 DEF Outcome
  <2>2. Confirmed(c.pipeline_id) /\ snap[p].revision >= 1
    BY <1>1, <1>2, <2>1 DEF Grounded
  <2>3. Confirmed(c.pipeline_id)'
    BY <1>1, <2>2, ConfirmedStays
  <2>4. ev.type = "STATION_RECORDED" /\ new.status = "OPEN"
    BY <1>3, <1>4 DEF EventType, RecordKinds, Applied
  <2> QED BY <1>1, <1>3, <2>2, <2>3, <2>4 DEF Placed, Grounded
<1>5. CASE c.kind \in DecideKinds
  <2>1. snap[p].status = "UNCONFIRMED" /\ c.text # Blank
    BY <1>2, <1>5 DEF Outcome, RecordKinds, DecideKinds
  <2>2. new.revision = 1
    BY <1>1, <1>2, <2>1 DEF Grounded
  <2>3. CASE c.kind = "CONFIRM_REQUIREMENT"
    <3>1. ev.type = "REQUIREMENT_CONFIRMED" /\ new.status = "OPEN"
      BY <1>3, <2>3 DEF EventType, Applied
    <3>2. Confirmed(c.pipeline_id)'
      BY <1>1, <1>3, <2>1, <2>2, <3>1 DEF Confirmed
    <3> QED BY <1>3, <2>1, <2>2, <3>1, <3>2 DEF Placed, Grounded
  <2>4. CASE c.kind = "REJECT_REQUIREMENT"
    <3>1. ev.type = "REQUIREMENT_REJECTED" /\ new.status = "REJECTED"
      BY <1>3, <2>4 DEF EventType, Applied
    <3> QED BY <1>3, <2>2, <3>1 DEF Placed, Grounded
  <2> QED BY <1>5, <2>3, <2>4 DEF DecideKinds
<1> QED BY <1>1, <1>4, <1>5 DEF Kinds

\* Every step keeps open rows and snapshots backed by a confirmation.
LEMMA LifeCycleStep ==
  ASSUME TypeOK, CommitPrepared, LifeCycle, [Next]_vars, TypeOK'
  PROVE  LifeCycle'
<1>1. ASSUME NEW p \in Procs, CommitAccepted(p)
      PROVE  LifeCycle'
  <2>1. PICK c : c = cmd[p]
    OBVIOUS
  <2>2. PICK new : new = Applied(snap[p], c)
    OBVIOUS
  <2>3. PICK ev : ev = EventOf(c, new.revision)
    OBVIOUS
  <2>4. Placed(ev)' /\ Grounded(new, c.pipeline_id)'
    BY <1>1, <2>1, <2>2, <2>3, CommitPlaced
  <2>5. /\ events' = events \cup {ev} /\ cmd' = cmd
        /\ rows' = [rows EXCEPT ![c.pipeline_id] = new]
        /\ pc' = [pc EXCEPT ![p] = "idle"]
        /\ \A q \in Procs : q # p => snap'[q] = snap[q]
    BY <1>1, <2>1, <2>2, <2>3 DEF CommitAccepted, Answer, TypeOK
  <2>6. \A pl : Confirmed(pl) => Confirmed(pl)'
    BY <2>5, ConfirmedStays
  <2>7. \A e \in events' : Placed(e)'
    BY <2>4, <2>5, <2>6 DEF LifeCycle, Placed
  <2>8. (\A pl \in Pipelines : Grounded(rows[pl], pl))'
    BY <2>4, <2>5, <2>6 DEF LifeCycle, Grounded, TypeOK
  <2>9. (\A q \in Procs :
            pc[q] = "commit" => Grounded(snap[q], cmd[q].pipeline_id))'
    BY <2>5, <2>6 DEF LifeCycle, Grounded, TypeOK
  <2> QED BY <2>5, <2>7, <2>8, <2>9 DEF LifeCycle
<1>2. ASSUME NEW p \in Procs, LoadPipeline(p)
      PROVE  LifeCycle'
  <2>1. /\ UNCHANGED <<events, rows, cmd>>
        /\ \A q \in Procs : q # p => snap'[q] = snap[q] /\ pc'[q] = pc[q]
        /\ pc'[p] = "commit" => snap'[p] = rows[cmd[p].pipeline_id]
    BY <1>2 DEF LoadPipeline, Refuse, Answer, TypeOK, tables
  <2>2. \A q \in Procs : cmd[q].pipeline_id \in Pipelines
    BY CommandsAssumption DEF TypeOK, ControllerCommand
  <2> QED BY <2>1, <2>2 DEF LifeCycle, Placed, Grounded, Confirmed
<1>3. ASSUME NEW p \in Procs, NEW pl \in Pipelines, RebuildPipeline(p, pl)
      PROVE  LifeCycle'
  <2>1. PICK row : FoldsTo(EventsOf(pl), row) /\ rows' = [rows EXCEPT ![pl] = row]
    BY <1>3 DEF RebuildPipeline
  <2>2. row \in PipelineState
    BY <2>1 DEF TypeOK
  <2>3. Grounded(row, pl)
    BY <2>1, <2>2, FoldGrounded DEF LifeCycle
  <2> QED BY <1>3, <2>1, <2>3
          DEF RebuildPipeline, LifeCycle, Placed, Grounded, Confirmed, TypeOK
<1>4. ASSUME UNCHANGED <<events, rows>>,
             \A q \in Procs : pc'[q] = "commit" =>
                /\ pc[q] = "commit" /\ cmd'[q] = cmd[q] /\ snap'[q] = snap[q]
      PROVE  LifeCycle'
  BY <1>4 DEF LifeCycle, Placed, Grounded, Confirmed
<1>5. ASSUME NEW p \in Procs, NEW c \in Commands,
             \/ SubmitPaused(p, c) \/ FindInboxFails(p, c)
             \/ FindInboxHit(p, c) \/ FindInboxMiss(p, c)
      PROVE  LifeCycle'
  <2>1. /\ UNCHANGED <<events, rows>> /\ pc'[p] # "commit"
        /\ \A q \in Procs : q # p =>
              pc'[q] = pc[q] /\ cmd'[q] = cmd[q] /\ snap'[q] = snap[q]
    BY <1>5 DEF SubmitPaused, FindInboxFails, FindInboxHit, FindInboxMiss, Begin,
                Refuse, Answer, TypeOK, tables
  <2> QED BY <1>4, <2>1
<1>6. ASSUME NEW p \in Procs, LoadPipelineFails(p) \/ CommitFails(p) \/ Crash(p)
      PROVE  LifeCycle'
  <2>1. /\ UNCHANGED <<events, rows, cmd>> /\ pc'[p] # "commit"
        /\ \A q \in Procs : q # p => pc'[q] = pc[q] /\ snap'[q] = snap[q]
    BY <1>6 DEF LoadPipelineFails, CommitFails, Crash, Refuse, Answer, TypeOK, tables
  <2> QED BY <1>4, <2>1
<1>7. ASSUME NEW p \in Procs,
             \/ Pause(p) \/ Resume(p)
             \/ \E id \in CmdIds, receipt \in DeliveryReceipts :
                   RecordOutboxDelivery(p, id, receipt)
      PROVE  LifeCycle'
  BY <1>4, <1>7 DEF Pause, Resume, RecordOutboxDelivery, tables
<1>8. CASE UNCHANGED vars
  BY <1>4, <1>8 DEF vars
<1> QED
  BY <1>1, <1>2, <1>3, <1>5, <1>6, <1>7, <1>8 DEF Next, Submit, Maintain

\* The invariant behind StationsFollowConfirmation.
LEMMA HistoryInvariant == Spec => [](TypeOK /\ CommitPrepared /\ LifeCycle)
<1>1. Init => CommitPrepared /\ LifeCycle
  BY DEF Init, CommitPrepared, LifeCycle, Grounded, Unconfirmed
<1>2. TypeOK /\ CommitPrepared /\ LifeCycle /\ [Next]_vars /\ TypeOK'
        => (CommitPrepared /\ LifeCycle)'
  BY PreparedStep, LifeCycleStep
<1> QED BY <1>1, <1>2, TypeCorrect, PTL DEF Spec

\* For any number of processes, with the races of their submits and rebuilds:
\* a station event is always preceded by the confirmation of a non-empty
\* requirement of its pipeline.
THEOREM StationsFollowConfirmationHolds == Spec => []StationsFollowConfirmation
<1>1. TypeOK /\ LifeCycle => StationsFollowConfirmation
  BY DEF LifeCycle, Placed, Confirmed, StationsFollowConfirmation
<1> QED BY <1>1, HistoryInvariant, PTL

-----------------------------------------------------------------------------
(* A single writer *)

\* The state a pending commit was prepared from is still the stored one.
SnapFresh ==
    \A p \in Procs : pc[p] = "commit" => snap[p] = rows[cmd[p].pipeline_id]

SingleInv == SnapFresh /\ RevisionsContiguous /\ ProjectionIsFold

\* Without events of equal revision the fold has one result.
LEMMA FoldUnique ==
  ASSUME TypeOK, RevisionsContiguous, NEW pl \in Pipelines,
         NEW r \in PipelineState, NEW s \in PipelineState,
         FoldsTo(EventsOf(pl), r), FoldsTo(EventsOf(pl), s)
  PROVE  r = s
<1> DEFINE E == EventsOf(pl)
<1>1. \A e \in E : e.revision \in Nat
  BY DEF TypeOK, EventsOf, EventWrite
<1>2. \A D : D \subseteq E => \A e, f \in D : IsLast(e, D) /\ IsLast(f, D) => e = f
  BY <1>1 DEF IsLast, RevisionsContiguous
<1>3. Decisions(E) \subseteq E /\ Confirmations(E) \subseteq E
  BY DEF Decisions, Confirmations
<1> HIDE DEF E
<1>4. r.revision = s.revision
  BY <1>2 DEF FoldsTo, E
<1>5. r.status = s.status
  BY <1>2, <1>3 DEF FoldsTo, E
<1>6. r.text = s.text
  BY <1>2, <1>3 DEF FoldsTo, E
<1> QED BY <1>4, <1>5, <1>6 DEF PipelineState

\* A commit on a fresh snapshot extends the log by the next revision and
\* writes the fold of the extended log.
LEMMA CommitExtends ==
  ASSUME TypeOK, CommitPrepared, LifeCycle, SingleInv, NEW p \in Procs,
         CommitAccepted(p)
  PROVE  (RevisionsContiguous /\ ProjectionIsFold)'
<1>1. PICK c : c = cmd[p]
  OBVIOUS
<1>2. PICK pl : pl = c.pipeline_id
  OBVIOUS
<1>3. PICK new : new = Applied(snap[p], c)
  OBVIOUS
<1>4. PICK ev : ev = EventOf(c, new.revision)
  OBVIOUS
<1>5. PICK E : E = EventsOf(pl)
  OBVIOUS
<1>6. PICK old : old = rows[pl]
  OBVIOUS
<1>7. /\ c \in ControllerCommand /\ pl \in Pipelines /\ old \in PipelineState
      /\ c.kind # "UNPARSABLE" /\ snap[p] = old /\ Outcome(old, c) = "ACCEPTED"
  BY <1>1, <1>2, <1>6, CommandsAssumption
  DEF CommitAccepted, CommitPrepared, SingleInv, SnapFresh, TypeOK, ControllerCommand
<1>8. /\ new.revision = old.revision + 1 /\ old.revision \in Nat
      /\ ev.revision = old.revision + 1 /\ ev.pipeline_id = pl
      /\ ev.type = EventType(c) /\ ev.text = c.text
  BY <1>2, <1>3, <1>4, <1>7 DEF Applied, EventOf, PipelineState
<1>9. events' = events \cup {ev} /\ rows' = [rows EXCEPT ![pl] = new]
  BY <1>1, <1>2, <1>3, <1>4 DEF CommitAccepted
<1>10. /\ EventsOf(pl)' = E \cup {ev} /\ rows'[pl] = new
       /\ \A q \in Pipelines : q # pl =>
             EventsOf(q)' = EventsOf(q) /\ rows'[q] = rows[q]
  BY <1>5, <1>7, <1>8, <1>9 DEF EventsOf, TypeOK
<1>11. /\ {e.revision : e \in E} = 1..old.revision
       /\ \A e, f \in E : e.revision = f.revision => e = f
       /\ FoldsTo(E, old)
  BY <1>5, <1>6, <1>7 DEF SingleInv, RevisionsContiguous, ProjectionIsFold
<1>12. \A e \in E : e.revision \in 1..old.revision
  BY <1>11
<1>13. RevisionsContiguous'
  <2>1. {e.revision : e \in E \cup {ev}} = 1..new.revision
    <3>1. {e.revision : e \in E \cup {ev}} = {e.revision : e \in E} \cup {ev.revision}
      OBVIOUS
    <3> QED BY <1>8, <1>11, <3>1
  <2>2. \A e, f \in E \cup {ev} : e.revision = f.revision => e = f
    BY <1>8, <1>11, <1>12
  <2> QED BY <1>7, <1>10, <2>1, <2>2 DEF SingleInv, RevisionsContiguous
<1>14. FoldsTo(E \cup {ev}, new)
  <2>1. IsLast(ev, E \cup {ev}) /\ new.revision = ev.revision
    BY <1>8, <1>12 DEF IsLast
  <2>2. CASE c.kind \in RecordKinds
    <3>1. ev.type = "STATION_RECORDED"
      BY <1>8, <2>2 DEF EventType, RecordKinds
    <3>2. /\ Decisions(E \cup {ev}) = Decisions(E)
          /\ Confirmations(E \cup {ev}) = Confirmations(E)
      BY <3>1 DEF Decisions, Confirmations
    <3>3. new.status = old.status /\ new.text = old.text
      BY <1>3, <1>7, <2>2 DEF Applied, Outcome, RecordKinds
    <3> QED BY <1>11, <2>1, <3>2, <3>3 DEF FoldsTo
  <2>3. CASE c.kind \in DecideKinds
    <3>1. old.status = "UNCONFIRMED" /\ old.text = Blank /\ E = {}
      <4>1. old.status = "UNCONFIRMED"
        BY <1>7, <2>3 DEF Outcome, RecordKinds, DecideKinds
      <4>2. old.revision = 0
        BY <1>6, <1>7, <4>1 DEF LifeCycle, Grounded
      <4>3. E = {}
        BY <1>12, <4>2
      <4> QED BY <1>11, <4>1, <4>3 DEF FoldsTo, Confirmations
    <3>2. CASE c.kind = "CONFIRM_REQUIREMENT"
      <4>1. /\ ev.type = "REQUIREMENT_CONFIRMED"
            /\ new.status = "OPEN" /\ new.text = ev.text
        BY <1>3, <1>8, <3>2 DEF EventType, Applied
      <4>2. Decisions(E \cup {ev}) = {ev} /\ Confirmations(E \cup {ev}) = {ev}
        BY <3>1, <4>1 DEF Decisions, Confirmations
      <4> QED BY <1>8, <2>1, <3>1, <4>1, <4>2 DEF FoldsTo, IsLast
    <3>3. CASE c.kind = "REJECT_REQUIREMENT"
      <4>1. /\ ev.type = "REQUIREMENT_REJECTED"
            /\ new.status = "REJECTED" /\ new.text = Blank
        BY <1>3, <1>7, <1>8, <3>1, <3>3 DEF EventType, Applied
      <4>2. Decisions(E \cup {ev}) = {ev} /\ Confirmations(E \cup {ev}) = {}
        BY <3>1, <4>1 DEF Decisions, Confirmations
      <4> QED BY <1>8, <2>1, <3>1, <4>1, <4>2 DEF FoldsTo, IsLast
    <3> QED BY <2>3, <3>2, <3>3 DEF DecideKinds
  <2> QED BY <1>7, <2>2, <2>3 DEF ControllerCommand, Kinds
<1>15. ProjectionIsFold'
  BY <1>7, <1>10, <1>14 DEF SingleInv, ProjectionIsFold
<1> QED BY <1>13, <1>15

\* A rebuild computes the row that is stored.
LEMMA RebuildKeeps ==
  ASSUME TypeOK, TypeOK', SingleInv, NEW p \in Procs, NEW pl \in Pipelines,
         RebuildPipeline(p, pl)
  PROVE  rows' = rows
<1>1. PICK row : FoldsTo(EventsOf(pl), row) /\ rows' = [rows EXCEPT ![pl] = row]
  BY DEF RebuildPipeline
<1>2. row \in PipelineState /\ rows[pl] \in PipelineState
  BY <1>1 DEF TypeOK
<1>3. row = rows[pl]
  BY <1>1, <1>2, FoldUnique DEF SingleInv, ProjectionIsFold
<1> QED BY <1>1, <1>3 DEF TypeOK

\* With a single writer every step keeps numbering, fold and snapshots.
LEMMA SingleStep ==
  ASSUME SingleWriter, TypeOK, TypeOK', CommitPrepared, LifeCycle, SingleInv,
         [Next]_vars
  PROVE  SingleInv'
<1>1. ASSUME UNCHANGED <<events, rows>>, SnapFresh'
      PROVE  SingleInv'
  BY <1>1 DEF SingleInv, RevisionsContiguous, ProjectionIsFold, EventsOf
<1>2. ASSUME NEW p \in Procs, pc'[p] # "commit"
      PROVE  SnapFresh'
  BY <1>2 DEF SnapFresh, SingleWriter
<1>3. ASSUME NEW p \in Procs, CommitAccepted(p)
      PROVE  SingleInv'
  <2>1. pc'[p] # "commit"
    BY <1>3 DEF CommitAccepted, Answer, TypeOK
  <2> QED BY <1>2, <1>3, <2>1, CommitExtends DEF SingleInv
<1>4. ASSUME NEW p \in Procs, LoadPipeline(p)
      PROVE  SingleInv'
  <2>1. /\ UNCHANGED <<events, rows, cmd>>
        /\ pc'[p] = "commit" => snap'[p] = rows[cmd[p].pipeline_id]
    BY <1>4 DEF LoadPipeline, Refuse, Answer, TypeOK, tables
  <2>2. SnapFresh'
    BY <2>1 DEF SnapFresh, SingleWriter
  <2> QED BY <1>1, <2>1, <2>2
<1>5. ASSUME NEW p \in Procs, NEW pl \in Pipelines, RebuildPipeline(p, pl)
      PROVE  SingleInv'
  <2>1. UNCHANGED <<events, rows, pc, cmd, snap>>
    BY <1>5, RebuildKeeps DEF RebuildPipeline
  <2> QED BY <1>1, <2>1 DEF SingleInv, SnapFresh
<1>6. ASSUME NEW p \in Procs, NEW c \in Commands,
             \/ SubmitPaused(p, c) \/ FindInboxFails(p, c)
             \/ FindInboxHit(p, c) \/ FindInboxMiss(p, c)
      PROVE  SingleInv'
  <2>1. UNCHANGED <<events, rows>> /\ pc'[p] # "commit"
    BY <1>6 DEF SubmitPaused, FindInboxFails, FindInboxHit, FindInboxMiss, Begin,
                Refuse, Answer, TypeOK, tables
  <2> QED BY <1>1, <1>2, <2>1
<1>7. ASSUME NEW p \in Procs, LoadPipelineFails(p) \/ CommitFails(p) \/ Crash(p)
      PROVE  SingleInv'
  <2>1. UNCHANGED <<events, rows>> /\ pc'[p] # "commit"
    BY <1>7 DEF LoadPipelineFails, CommitFails, Crash, Refuse, Answer, TypeOK, tables
  <2> QED BY <1>1, <1>2, <2>1
<1>8. ASSUME UNCHANGED <<events, rows, pc, cmd, snap>>
      PROVE  SingleInv'
  BY <1>1, <1>8 DEF SingleInv, SnapFresh
<1>9. ASSUME NEW p \in Procs,
             \/ Pause(p) \/ Resume(p)
             \/ \E id \in CmdIds, receipt \in DeliveryReceipts :
                   RecordOutboxDelivery(p, id, receipt)
      PROVE  SingleInv'
  BY <1>8, <1>9 DEF Pause, Resume, RecordOutboxDelivery, tables
<1>10. CASE UNCHANGED vars
  BY <1>8, <1>10 DEF vars
<1> QED
  BY <1>3, <1>4, <1>5, <1>6, <1>7, <1>9, <1>10 DEF Next, Submit, Maintain

\* The invariant behind the properties of a single writer.
LEMMA SingleInvariant ==
  ASSUME SingleWriter
  PROVE  Spec => [](TypeOK /\ LifeCycle /\ SingleInv)
<1>1. Init => SingleInv
  BY DEF Init, SingleInv, SnapFresh, RevisionsContiguous, ProjectionIsFold,
         EventsOf, FoldsTo, Decisions, Confirmations, Unconfirmed
<1>2. /\ TypeOK /\ CommitPrepared /\ LifeCycle /\ SingleInv /\ [Next]_vars /\ TypeOK'
      => SingleInv'
  BY SingleStep
<1> QED BY <1>1, <1>2, HistoryInvariant, PTL DEF Spec

\* With one writer the optimistic revision check works: the events of a
\* pipeline are numbered 1, 2, ... up to the revision of its row.
THEOREM RevisionsContiguousHolds == SingleWriter => (Spec => []RevisionsContiguous)
<1> SUFFICES ASSUME SingleWriter PROVE Spec => []RevisionsContiguous
  OBVIOUS
<1>1. SingleInv => RevisionsContiguous
  BY DEF SingleInv
<1> QED BY <1>1, SingleInvariant, PTL

\* With one writer the projection row is always what rebuild_pipeline would
\* compute from the event log.
THEOREM ProjectionIsFoldHolds == SingleWriter => (Spec => []ProjectionIsFold)
<1> SUFFICES ASSUME SingleWriter PROVE Spec => []ProjectionIsFold
  OBVIOUS
<1>1. SingleInv => ProjectionIsFold
  BY DEF SingleInv
<1> QED BY <1>1, SingleInvariant, PTL

\* With one writer a requirement is confirmed or rejected once.
THEOREM DecidedOnceHolds == SingleWriter => (Spec => []DecidedOnce)
<1> SUFFICES ASSUME SingleWriter PROVE Spec => []DecidedOnce
  OBVIOUS
<1>1. LifeCycle /\ SingleInv => DecidedOnce
  BY DEF LifeCycle, Placed, SingleInv, RevisionsContiguous, DecidedOnce,
         Decisions, EventsOf
<1> QED BY <1>1, SingleInvariant, PTL

=============================================================================
