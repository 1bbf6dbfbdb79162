----------------------------- MODULE CommandLog -----------------------------
(***************************************************************************)
(* What the controller promises its clients, without tables, processes or  *)
(* failures: each pipeline has one history of accepted commands.  A        *)
(* command enters it in one step, at most once, exactly at the revision it *)
(* expected, and only where the pipeline's life cycle allows it; nothing   *)
(* ever leaves it.                                                         *)
(***************************************************************************)
EXTENDS PipelineDomain, Sequences

CONSTANT Commands

VARIABLE log  \* pipeline id -> its accepted commands, oldest first

Init == log = [pl \in Pipelines |-> <<>>]

Accepted(id) ==
    \E pl \in Pipelines : \E n \in DOMAIN log[pl] : log[pl][n].command_id = id

\* A history starts with the decision on the requirement; stations follow a
\* confirmation and nothing follows a rejection.
Legal(history, c) ==
    IF history = <<>>
    THEN c.kind \in DecideKinds /\ c.text # Blank
    ELSE c.kind \in RecordKinds /\ history[1].kind = "CONFIRM_REQUIREMENT"

Accept(c) ==
    LET history == log[c.pipeline_id]
    IN  /\ ~Accepted(c.command_id)
        /\ c.expected_revision = Len(history)
        /\ Legal(history, c)
        /\ log' = [log EXCEPT ![c.pipeline_id] = Append(history, c)]

Next == \E c \in Commands : Accept(c)

Spec == Init /\ [][Next]_log

=============================================================================
