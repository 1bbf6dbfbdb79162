-------------------------- MODULE MCPipelineKernel --------------------------
(* Small instances of PipelineKernel for TLC. *)
EXTENDS KernelRefinement

CONSTANTS c1, c2, c3, c4, c5, pl1, t1, t2, blank

MCPipelines == {pl1}
MCCmdIds == {c1, c2, c3, c4, c5}
MCTexts == {t1, t2, blank}

Command(id, rev, kind, text) ==
    [command_id |-> id, pipeline_id |-> pl1, expected_revision |-> rev,
     kind |-> kind, text |-> text]

\* A confirmation, a second one under the same id, a competing rejection, a
\* station and a READY verification that race for revision 2.
RacingCommands ==
    {Command(c1, 0, "CONFIRM_REQUIREMENT", t1),
     Command(c1, 0, "CONFIRM_REQUIREMENT", t2),
     Command(c2, 0, "REJECT_REQUIREMENT", t1),
     Command(c3, 1, "RECORD_STATION", t1),
     Command(c4, 1, "RECORD_READY", t1)}

\* What the bridge records once the requirement is confirmed: stations of one
\* worker, and of another worker or the sidecar's approval, at one revision.
StationCommands ==
    {Command(c1, 0, "CONFIRM_REQUIREMENT", t1),
     Command(c3, 1, "RECORD_STATION", t1),
     Command(c4, 1, "RECORD_READY", t1)}

\* With a later station, a further READY one, and commands that are refused:
\* a rejection after the confirmation, an empty requirement, an unknown type.
AllCommands ==
    RacingCommands \cup
    {Command(c2, 1, "REJECT_REQUIREMENT", t1),
     Command(c4, 2, "RECORD_READY", t2),
     Command(c5, 3, "RECORD_STATION", t2),
     Command(c5, 0, "CONFIRM_REQUIREMENT", blank),
     Command(c5, 1, "UNPARSABLE", t1)}

=============================================================================
