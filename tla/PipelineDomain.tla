--------------------------- MODULE PipelineDomain ---------------------------
(***************************************************************************)
(* The Pipeline aggregate: domain/pipeline.py, and the fold of the event   *)
(* log into its projection, controller/transaction_store.py.               *)
(*                                                                         *)
(* A text is a member of Texts.  Blank stands for every string that        *)
(* strip() empties; every other text is its own stripped form.             *)
(***************************************************************************)
EXTENDS Integers, FiniteSets

CONSTANTS
    Pipelines,  \* pipeline ids, all in one workspace
    CmdIds,     \* command ids
    Texts,      \* requirement texts and reject reasons
    Blank       \* the text that is empty once stripped

ASSUME BlankAssumption == Blank \in Texts

Statuses == {"UNCONFIRMED", "OPEN", "REJECTED"}

(***************************************************************************)
(* Command kinds.  RECORD_READY is RECORD_VERIFY with verify_status READY, *)
(* RECORD_STATION every other RECORD_ command, UNPARSABLE a command that   *)
(* _domain_command turns into None.                                        *)
(***************************************************************************)
RecordKinds == {"RECORD_STATION", "RECORD_READY"}
DecideKinds == {"CONFIRM_REQUIREMENT", "REJECT_REQUIREMENT"}
Kinds == RecordKinds \cup DecideKinds \cup {"UNPARSABLE"}

ControllerCommand ==
    [command_id : CmdIds, pipeline_id : Pipelines, expected_revision : Nat,
     kind : Kinds, text : Texts]

PipelineState == [status : Statuses, revision : Nat, text : Texts]

\* A pipeline without a row reads as this one (_state_from_snapshot).
Unconfirmed == [status |-> "UNCONFIRMED", revision |-> 0, text |-> Blank]

\* Mutant of Outcome: a station is recorded whatever the status is.
OutcomeAnyStatus(state, c) ==
    IF c.kind \in RecordKinds THEN "ACCEPTED"
    ELSE IF c.text = Blank THEN "EMPTY_REQUIREMENT"
    ELSE IF state.status # "UNCONFIRMED" THEN "INVALID_TRANSITION"
    ELSE "ACCEPTED"

\* Mutant of Outcome: a decision is taken again.
OutcomeDecidesAgain(state, c) ==
    IF c.kind \in RecordKinds
    THEN IF state.status = "OPEN" THEN "ACCEPTED" ELSE "INVALID_TRANSITION"
    ELSE IF c.text = Blank THEN "EMPTY_REQUIREMENT"
    ELSE "ACCEPTED"

(***************************************************************************)
(* apply: the outcome of a parsed command in a state, and the new state    *)
(* when the outcome is ACCEPTED.                                           *)
(***************************************************************************)
Outcome(state, c) ==
    IF c.kind \in RecordKinds
    THEN IF state.status = "OPEN" THEN "ACCEPTED" ELSE "INVALID_TRANSITION"
    ELSE IF c.text = Blank THEN "EMPTY_REQUIREMENT"
    ELSE IF state.status # "UNCONFIRMED" THEN "INVALID_TRANSITION"
    ELSE "ACCEPTED"

\* Mutant of Applied: only decisions count as revisions.
AppliedSameRevision(state, c) ==
    [status   |-> IF c.kind = "REJECT_REQUIREMENT" THEN "REJECTED" ELSE "OPEN",
     revision |-> IF c.kind \in RecordKinds THEN state.revision ELSE state.revision + 1,
     text     |-> IF c.kind = "CONFIRM_REQUIREMENT" THEN c.text ELSE state.text]

\* Mutant of Applied: every command sets the requirement text.
AppliedSetsText(state, c) ==
    [status   |-> IF c.kind = "REJECT_REQUIREMENT" THEN "REJECTED" ELSE "OPEN",
     revision |-> state.revision + 1,
     text     |-> c.text]

Applied(state, c) ==
    [status   |-> IF c.kind = "REJECT_REQUIREMENT" THEN "REJECTED" ELSE "OPEN",
     revision |-> state.revision + 1,
     text     |-> IF c.kind = "CONFIRM_REQUIREMENT" THEN c.text ELSE state.text]

(***************************************************************************)
(* Events.  event_id is evt_{workspace}_{command_id}: the command id       *)
(* stands for it.                                                          *)
(***************************************************************************)
EventType(c) ==
    CASE c.kind = "CONFIRM_REQUIREMENT" -> "REQUIREMENT_CONFIRMED"
      [] c.kind = "REJECT_REQUIREMENT"  -> "REQUIREMENT_REJECTED"
      [] OTHER                          -> "STATION_RECORDED"

EventTypes == {"REQUIREMENT_CONFIRMED", "REQUIREMENT_REJECTED", "STATION_RECORDED"}

EventWrite ==
    [event_id : CmdIds, pipeline_id : Pipelines, type : EventTypes,
     text : Texts, revision : Nat]

EventOf(c, rev) ==
    [event_id |-> c.command_id, pipeline_id |-> c.pipeline_id,
     type |-> EventType(c), text |-> c.text, revision |-> rev]

(***************************************************************************)
(* fold_pipeline_events over E, the events of one pipeline in the order of *)
(* their revisions.  The loop keeps the last revision, the status of the   *)
(* last decision and the text of the last confirmation.  The query orders  *)
(* by revision alone, so events of equal revision come in any order and    *)
(* the fold has a result for each; without ties it has exactly one.        *)
(***************************************************************************)
IsLast(e, E) == e \in E /\ \A f \in E : f.revision <= e.revision

Confirmations(E) == {e \in E : e.type = "REQUIREMENT_CONFIRMED"}
Decisions(E) == {e \in E : e.type # "STATION_RECORDED"}

FoldsTo(E, row) ==
    /\ IF E = {} THEN row.revision = 0
       ELSE \E e \in E : IsLast(e, E) /\ row.revision = e.revision
    /\ IF Decisions(E) = {} THEN row.status = "UNCONFIRMED"
       ELSE \E e \in Decisions(E) :
               /\ IsLast(e, Decisions(E))
               /\ row.status = IF e.type = "REQUIREMENT_CONFIRMED"
                               THEN "OPEN" ELSE "REJECTED"
    /\ IF Confirmations(E) = {} THEN row.text = Blank
       ELSE \E e \in Confirmations(E) :
               IsLast(e, Confirmations(E)) /\ row.text = e.text

=============================================================================
