-------------------------------- MODULE BrokerRun --------------------------------
(***************************************************************************)
(* One run of an agent: BoundRuntimeBroker resolves the role's binding, an *)
(* adapter (process, codex, opencode) launches the executable, and         *)
(* _process.run_fenced keeps its process group on a leash.                 *)
(*                                                                         *)
(* launch() blocks in its thread; a thread of run_fenced reads the child's *)
(* pipes to their end; another thread may signal.  The child forks, closes *)
(* its pipes, leaves its session and exits as it likes.                    *)
(***************************************************************************)
EXTENDS Integers, FiniteSets, AgentStream

CONSTANTS RunChildren   \* processes the launched one may fork

VARIABLES runTree,      \* the launched process and its descendants
          runStep,      \* where launch() is
          runMode,      \* "event": with a cancel event; "plain": without
          runCancel,    \* the cancel event
          runRead,      \* communicate() has returned in the reading thread
          runStop,      \* how the loop ended: "exit", "cancelled" or "timeout"
          runStatus,    \* _Run.status
          runHandle,    \* the status of the handle launch() returned
          runOwned,     \* BoundRuntimeBroker._owners knows the run
          runSignals,   \* history: "during" or "after" launch() a signal came
          runEnd        \* history: family, exit code and the events that were
                        \* judged, and whether the agent wrote more of them

runVars == <<runTree, runStep, runMode, runCancel, runRead, runStop, runStatus,
             runHandle, runOwned, runSignals, runEnd>>

Leader == "leader"
RunProcesses == {Leader} \cup RunChildren
NotJudged == [family |-> "none", code |-> 0, stream |-> <<>>, cut |-> FALSE]
NotStarted == [alive |-> FALSE, group |-> FALSE, pipe |-> FALSE]

RunInit ==
    /\ runTree = [p \in RunProcesses |-> NotStarted]
    /\ runStep = "idle"
    /\ runMode = "event"
    /\ runCancel = FALSE
    /\ runRead = FALSE
    /\ runStop = "none"
    /\ runStatus = "UNSUPPORTED"
    /\ runHandle = "none"
    /\ runOwned = FALSE
    /\ runSignals = {}
    /\ runEnd = NotJudged

Alive == {p \in RunProcesses : runTree[p].alive}
Escaped == {p \in Alive : ~runTree[p].group}
PipeHeld == \E p \in Alive : runTree[p].pipe

-----------------------------------------------------------------------------
(* launch() up to the spawn *)

\* Mutant of RunRefused: a refusal is given a status of its own.
RefusesWithReason(status, bound) ==
    /\ runStep = "idle"
    /\ runStep' = "returned"
    /\ runStatus' = "REFUSED"
    /\ runHandle' = status
    /\ runOwned' = bound
    /\ bound \/ status = "UNSUPPORTED"
    /\ UNCHANGED <<runTree, runMode, runCancel, runRead, runStop, runSignals, runEnd>>

\* No binding, no adapter, no executable: UNSUPPORTED; refused by the profile or
\* by the operating system: FAILED.  The broker owns what its adapter answered.
RunRefused(status, bound) ==
    /\ runStep = "idle"
    /\ runStep' = "returned"
    /\ runStatus' = status
    /\ runHandle' = status
    /\ runOwned' = bound
    /\ bound \/ status = "UNSUPPORTED"
    /\ UNCHANGED <<runTree, runMode, runCancel, runRead, runStop, runSignals, runEnd>>

\* The run is known, as FAILED, before the child starts in a session of its own
RunSpawn(mode) ==
    /\ runStep = "idle"
    /\ runStep' = "loop"
    /\ runMode' = mode
    /\ runStatus' = "FAILED"
    /\ runTree' = [runTree EXCEPT ![Leader] = [alive |-> TRUE, group |-> TRUE, pipe |-> TRUE]]
    /\ UNCHANGED <<runCancel, runRead, runStop, runHandle, runOwned, runSignals, runEnd>>

-----------------------------------------------------------------------------
(* The child *)

ChildForks(p, c, leaves) ==
    /\ p \in Alive
    /\ runTree[c] = NotStarted
    /\ runTree' = [runTree EXCEPT ![c] = [alive |-> TRUE, pipe |-> runTree[p].pipe,
                                          group |-> runTree[p].group /\ ~leaves]]
    /\ UNCHANGED <<runStep, runMode, runCancel, runRead, runStop, runStatus, runHandle,
                   runOwned, runSignals, runEnd>>

ChildClosesPipe(p) ==
    /\ p \in Alive /\ runTree[p].pipe
    /\ runTree' = [runTree EXCEPT ![p].pipe = FALSE]
    /\ UNCHANGED <<runStep, runMode, runCancel, runRead, runStop, runStatus, runHandle,
                   runOwned, runSignals, runEnd>>

Dead(p) == [alive |-> FALSE, group |-> runTree[p].group, pipe |-> TRUE]

ChildExits(p) ==
    /\ p \in Alive
    /\ runTree' = [runTree EXCEPT ![p] = Dead(p)]
    /\ UNCHANGED <<runStep, runMode, runCancel, runRead, runStop, runStatus, runHandle,
                   runOwned, runSignals, runEnd>>

-----------------------------------------------------------------------------
(* run_fenced *)

\* communicate(): end of file on both pipes, then the exit of the child
RunReads ==
    /\ runStep \in {"loop", "drain"}
    /\ ~runRead
    /\ ~PipeHeld
    /\ Leader \notin Alive
    /\ runRead' = TRUE
    /\ UNCHANGED <<runTree, runStep, runMode, runCancel, runStop, runStatus, runHandle,
                   runOwned, runSignals, runEnd>>

\* Mutant of GroupKilled: only the process itself is killed.
LeaderKilled ==
    [runTree EXCEPT ![Leader] = Dead(Leader)]

\* killpg: every process that is still in the group
GroupKilled == [p \in RunProcesses |->
                   IF p \in Alive \ Escaped THEN Dead(p) ELSE runTree[p]]

\* The loop looks at the reading thread, then at the event, then at the clock
LoopEnds ==
    /\ runStep = "loop" /\ runRead
    /\ runStop' = "exit"
    /\ runStep' = "classify"
    /\ UNCHANGED <<runTree, runMode, runCancel, runRead, runStatus, runHandle, runOwned,
                   runSignals, runEnd>>

LoopCancels ==
    /\ runStep = "loop" /\ ~runRead
    /\ runMode = "event" /\ runCancel
    /\ runStop' = "cancelled"
    /\ runStep' = "drain"
    /\ runTree' = GroupKilled
    /\ UNCHANGED <<runMode, runCancel, runRead, runStatus, runHandle, runOwned, runSignals, runEnd>>

LoopTimesOut ==
    /\ runStep = "loop" /\ ~runRead
    /\ ~(runMode = "event" /\ runCancel)
    /\ runStop' = "timeout"
    /\ runStep' = "drain"
    /\ runTree' = GroupKilled
    /\ UNCHANGED <<runMode, runCancel, runRead, runStatus, runHandle, runOwned, runSignals, runEnd>>

\* Five seconds for the pipes: with an event the output is dropped, without one
\* the second communicate() raises out of run_fenced
DrainEnds ==
    /\ runStep = "drain"
    /\ runRead \/ PipeHeld
    /\ runStep' = IF runMode = "plain" /\ ~runRead THEN "raised" ELSE "classify"
    /\ UNCHANGED <<runTree, runMode, runCancel, runRead, runStop, runStatus, runHandle,
                   runOwned, runSignals, runEnd>>

-----------------------------------------------------------------------------
(* launch() from the result on, and signal() *)

Judged(family, code, stream) ==
    CASE family = "process" -> ProcessEnds(code)
      [] family = "opencode" -> OpenCodeEnds(code, stream)
      [] family = "codex" -> CodexEnds(stream)

\* run_fenced returns the first output_bytes.  An event that is cut in two does
\* not parse, so these are the first events, all of them or not
Kept(stream, n) == SubSeq(stream, 1, n)

\* Every adapter looks at the fence's result first; a timeout leaves _Run.status
RunReturns(family, code, stream, n) ==
    /\ runStep = "classify"
    /\ runStop # "exit" => stream = <<>> /\ code = 1
    /\ LET end == CASE runStop = "cancelled" -> [status |-> "CANCELLED", writes |-> TRUE]
                    [] runStop = "timeout" -> [status |-> "FAILED", writes |-> FALSE]
                    [] OTHER -> Judged(family, code, Kept(stream, n))
       IN  /\ runHandle' = end.status
           /\ runStatus' = IF end.writes THEN end.status ELSE runStatus
    /\ runStep' = "returned"
    /\ runOwned' = TRUE
    /\ runEnd' = [family |-> family, code |-> code, stream |-> Kept(stream, n),
                  cut |-> n < Len(stream)]
    /\ UNCHANGED <<runTree, runMode, runCancel, runRead, runStop, runSignals>>

\* A signal to the adapter itself, or through the broker once it owns the run
RunSignal(brokered) ==
    /\ IF brokered THEN runOwned ELSE runStep # "idle"
    /\ runCancel' = TRUE
    /\ runStatus' = "CANCELLED"
    /\ runSignals' = runSignals \cup
                        {IF runHandle # "none" THEN "after"
                         ELSE IF brokered THEN "brokered" ELSE "during"}
    /\ UNCHANGED <<runTree, runStep, runMode, runRead, runStop, runHandle, runOwned, runEnd>>

RunNext ==
    \/ \E status \in {"UNSUPPORTED", "FAILED"}, bound \in BOOLEAN : RunRefused(status, bound)
    \/ \E mode \in {"event", "plain"} : RunSpawn(mode)
    \/ \E p \in RunProcesses, c \in RunChildren, leaves \in BOOLEAN : ChildForks(p, c, leaves)
    \/ \E p \in RunProcesses : ChildClosesPipe(p)
    \/ \E p \in RunProcesses : ChildExits(p)
    \/ RunReads
    \/ LoopEnds
    \/ LoopCancels
    \/ LoopTimesOut
    \/ DrainEnds
    \/ \E code \in 0..1 : RunReturns("process", code, <<>>, 0)
    \/ \E code \in 0..1, stream \in OpenCodeStreams : \E n \in 0..Len(stream) :
          RunReturns("opencode", code, stream, n)
    \/ \E code \in 0..1, stream \in CodexStreams : \E n \in 0..Len(stream) :
          RunReturns("codex", code, stream, n)
    \/ \E brokered \in BOOLEAN : RunSignal(brokered)

RunSpec == RunInit /\ [][RunNext]_runVars

-----------------------------------------------------------------------------
(* Properties *)

RunStatuses == {"UNSUPPORTED", "FAILED", "COMPLETED", "CANCELLED"}

RunTypeOK ==
    /\ runTree \in [RunProcesses -> [alive : BOOLEAN, group : BOOLEAN, pipe : BOOLEAN]]
    /\ runStep \in {"idle", "loop", "drain", "classify", "raised", "returned"}
    /\ runMode \in {"event", "plain"}
    /\ runCancel \in BOOLEAN /\ runRead \in BOOLEAN /\ runOwned \in BOOLEAN
    /\ runStop \in {"none", "exit", "cancelled", "timeout"}
    /\ runStatus \in RunStatuses
    /\ runHandle \in RunStatuses \cup {"none"}
    /\ runSignals \subseteq {"during", "after", "brokered"}

(* run_fenced: once a run was cancelled or timed out, nothing of it lives   *)
(* but what left its session, and only such a process makes run_fenced      *)
(* raise or drop the output.                                                *)
FenceHolds ==
    /\ runStop \in {"cancelled", "timeout"} => Alive = Escaped
    /\ (runStep = "raised" \/ (runStep \in {"classify", "returned"} /\ runStop # "none"
                               /\ ~runRead)) => \E p \in RunChildren : ~runTree[p].group
                                                                    /\ runTree[p] # NotStarted

(* A run whose handle says COMPLETED was read to the end of both pipes and  *)
(* its process has exited: what is missing of its text is what exceeds      *)
(* output_bytes, never what a killed or abandoned process had yet to say.   *)
CompletedIsRead ==
    (runHandle = "COMPLETED") => (runRead /\ Leader \notin Alive)

(* BoundRuntimeBroker owns a run only once launch() has returned, so as     *)
(* long as nobody signals the adapter behind its back, and until a signal   *)
(* comes later, inspect() answers what the handle said.                     *)
InspectAgrees ==
    (runHandle # "none" /\ runSignals \cap {"during", "after"} = {}) =>
        runStatus = runHandle

(* A run is COMPLETED only if the events returned of it are a success, read *)
(* as a whole and not one by one: an OpenCode session that is idle and      *)
(* stays so, with exit code 0; a Codex stream that completed and nowhere    *)
(* speaks of credentials, a timeout or a cancellation.  What an agent says  *)
(* after output_bytes changes nothing.                                      *)
CompletedIsEarned ==
    (runHandle = "COMPLETED") =>
        CASE runEnd.family = "process" -> runEnd.code = 0
          [] runEnd.family = "opencode" -> runEnd.code = 0 /\ EndsIdle(runEnd.stream)
          [] runEnd.family = "codex" -> CodexVerdict(runEnd.stream) = "ok"

(* The host's probe and the adapter read one Codex stream alike, as long as *)
(* it speaks of neither a timeout nor a cancellation, which the probe does  *)
(* not know.                                                                *)
ProbeAgrees ==
    (runEnd.family = "codex" /\ ~Says(runEnd.stream, "timeout") /\ ~Says(runEnd.stream, "cancel"))
        => ProbeCodex(runEnd.stream) = ClassifyCodex(runEnd.stream)

(* What a launch promises: its processes are gone, a success was read to the  *)
(* end and earned by the output that is kept, and its status is the one its   *)
(* handle was given.                                                          *)
RunContract == FenceHolds /\ CompletedIsRead /\ CompletedIsEarned /\ ProbeAgrees
               /\ InspectAgrees
=============================================================================
