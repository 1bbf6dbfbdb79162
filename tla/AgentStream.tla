------------------------------ MODULE AgentStream ------------------------------
(***************************************************************************)
(* What the adapters make of an agent's output: a stream of JSON events is *)
(* folded into an outcome, and the outcome, with the exit code, into the   *)
(* status of the run.  Lines that are no JSON objects are dropped before   *)
(* the fold, so a stream here holds the events that parse.                 *)
(***************************************************************************)
EXTENDS Integers, Sequences, SequencesExt

CONSTANTS StreamMax     \* length of the streams that are tried

\* "text" stands for every event that decides nothing
OpenCodeEvents == {"idle", "error", "denied", "text"}

\* What the event's kind and message say, and whether it says "completed"
CodexEvents == {[says |-> "auth", completed |-> FALSE],
                [says |-> "timeout", completed |-> TRUE],
                [says |-> "cancel", completed |-> FALSE],
                [says |-> "nothing", completed |-> TRUE],
                [says |-> "nothing", completed |-> FALSE]}

OpenCodeStreams == BoundedSeq(OpenCodeEvents, StreamMax)
CodexStreams == BoundedSeq(CodexEvents, StreamMax)

-----------------------------------------------------------------------------
\* classify_opencode_events: the last event that decides wins
ClassifyOpenCode(stream) ==
    FoldLeft(LAMBDA outcome, event : IF event = "text" THEN outcome ELSE event,
             "error", stream)

CodexSays(outcome, event) ==
    CASE event.says = "auth" -> "no_credential"
      [] event.says = "timeout" /\ outcome # "no_credential" -> "timeout"
      [] event.says = "cancel" /\ outcome \notin {"no_credential", "timeout"} -> "cancelled"
      [] OTHER -> outcome

CodexFailures == {"no_credential", "timeout", "cancelled"}

CodexStep(outcome, event) ==
    IF CodexSays(outcome, event) \notin CodexFailures /\ event.completed THEN "ok"
    ELSE CodexSays(outcome, event)

\* codex_adapter._classify
ClassifyCodex(stream) == FoldLeft(CodexStep, "error", stream)

\* _codex.classify_codex_jsonl, used by the host's probe, knows only credentials
ProbeCodex(stream) ==
    FoldLeft(LAMBDA outcome, event :
                CASE event.says = "auth" -> "no_credential"
                  [] event.says # "auth" /\ event.completed /\ outcome # "no_credential" -> "ok"
                  [] OTHER -> outcome,
             "error", stream)

\* _status_for
StatusFor(outcome) ==
    CASE outcome = "ok" -> "COMPLETED"
      [] outcome = "cancelled" -> "CANCELLED"
      [] OTHER -> "FAILED"

-----------------------------------------------------------------------------
(* The end of launch() in each adapter: the handle's status, and whether    *)
(* _Run.status is written with it.                                          *)

ProcessEnds(code) ==
    [status |-> IF code = 0 THEN "COMPLETED" ELSE "FAILED", writes |-> TRUE]

OpenCodeEnds(code, stream) ==
    IF code = 0 /\ stream # <<>> /\ ClassifyOpenCode(stream) = "idle"
      THEN [status |-> "COMPLETED", writes |-> TRUE]
      ELSE [status |-> "FAILED", writes |-> FALSE]

\* The exit code is not looked at
CodexEnds(stream) ==
    IF stream = <<>> THEN [status |-> "FAILED", writes |-> FALSE]
    ELSE [status |-> StatusFor(ClassifyCodex(stream)), writes |-> TRUE]

-----------------------------------------------------------------------------
(* Reference definitions, without the fold *)

Says(stream, what) == \E i \in DOMAIN stream : stream[i].says = what

\* What _classify must answer, by the worst thing the stream says
CodexVerdict(stream) ==
    CASE Says(stream, "auth") -> "no_credential"
      [] ~Says(stream, "auth") /\ Says(stream, "timeout") -> "timeout"
      [] Says(stream, "cancel") /\ ~Says(stream, "auth") /\ ~Says(stream, "timeout") ->
            "cancelled"
      [] OTHER -> IF \E i \in DOMAIN stream : stream[i].completed THEN "ok" ELSE "error"

\* An idle session that nothing after it contradicts
EndsIdle(stream) ==
    \E i \in DOMAIN stream :
        /\ stream[i] = "idle"
        /\ \A j \in DOMAIN stream : j > i => stream[j] \in {"idle", "text"}
=============================================================================
