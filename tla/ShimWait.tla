-------------------------------- MODULE ShimWait --------------------------------
(***************************************************************************)
(* The approve and retry commands of hermes_shim/_lifecycle.py: the shim   *)
(* makes sure a runtime is up, sends the command, and when the bridge      *)
(* answers that a worker is running polls read until a verdict shows.      *)
(*                                                                         *)
(* The runtime keeps rows in memory: those of the station files when it    *)
(* starts, later only a PASS and a READY that its events show.  Retry asks *)
(* these rows; read shows the folded events over them, so a verdict stays  *)
(* visible while a retry runs; the worker starts from the files.  The      *)
(* runtime may be down, fail to start or die; the worker outlives it.      *)
(***************************************************************************)
EXTENDS Integers

CONSTANTS WaitShims,   \* shim commands
          WaitRuns,    \* bound: workers the bridge starts
          WaitPolls    \* polls before the 1200 s deadline

VARIABLES waitUp,      \* a runtime answers and its descriptor is fresh
          waitRows,    \* the development and verify rows in its memory
          waitFiles,   \* the rows of development.json and verify.json
          waitLog,     \* the rows the recorded events fold to
          waitShim,    \* each command: its step, kind, run and polls, or its result
          waitRun      \* the worker: the number of its run, its step, lease and rows

waitVars == <<waitUp, waitRows, waitFiles, waitLog, waitShim, waitRun>>
waitStore == <<waitFiles, waitLog>>

WaitIdle == [step |-> "idle"]
Verdicts == {"READY", "REWORK", "INFRA", "DENIED", "DRIFT"}

\* A VerifyFlow lives for one run and so never sees its candidate drift
GivenVerdicts == Verdicts \ {"DRIFT"}

\* The gate of the candidate and the verdict, with the run that gave the verdict
NoStationRows == [gate |-> "", verdict |-> "", of |-> 0]

WaitInit ==
    /\ waitUp = FALSE
    /\ waitRows = NoStationRows
    /\ waitFiles = NoStationRows
    /\ waitLog = NoStationRows
    /\ waitShim = [s \in WaitShims |-> WaitIdle]
    /\ waitRun = [number |-> 0, step |-> "off", leased |-> FALSE, rows |-> NoStationRows]

Waits(s, at) == waitShim' = [waitShim EXCEPT ![s] = at]

\* A command that fails has told nobody anything; the next one may begin
Fails(s) == Waits(s, WaitIdle)

-----------------------------------------------------------------------------
(* The bridge, in one request *)

WithGate(rows, gate) == [rows EXCEPT !.gate = gate]
WithVerdict(rows, verdict, of) == [rows EXCEPT !.verdict = verdict, !.of = of]

\* _hydrate_from_events: a missing row is filled in by a PASS or a READY
Hydrated(rows) ==
    LET developed == IF rows.gate = "" /\ waitLog.gate = "PASS"
                     THEN WithGate(rows, "PASS") ELSE rows
    IN  IF rows.verdict = "" /\ waitLog.verdict = "READY"
        THEN WithVerdict(developed, "READY", waitLog.of) ELSE developed

\* A runtime that has to be started first loads the files
SidecarRows == IF waitUp THEN waitRows ELSE waitFiles


\* What _retry_verify asks of the rows.  The caps are not met: no attempt is counted
\* in a row that a worker writes, and a retry that spawns one counts none either.
RetryAllowed(rows) == rows.verdict \in {"REWORK", "INFRA"} \/ rows.gate = "FAIL"

\* The worker starts from the files as the command leaves them
Spawns(files) ==
    waitRun' = [number |-> waitRun.number + 1, step |-> "development", leased |-> TRUE,
                rows |-> files]

\* A held lease refuses approve before it has looked at the events, retry after
Refuses(kind) ==
    /\ waitRun.leased \/ (kind = "retry" /\ ~RetryAllowed(Hydrated(SidecarRows)))
    /\ waitRows' = IF kind = "approve" THEN SidecarRows ELSE Hydrated(SidecarRows)
    /\ UNCHANGED <<waitRun, waitFiles>>

\* Retry forgets both rows, and saves that only for the development row
Starts(kind) ==
    /\ ~waitRun.leased
    /\ waitRun.number < WaitRuns
    /\ \/ /\ kind = "approve"
          /\ waitRows' = Hydrated(SidecarRows)
          /\ UNCHANGED waitFiles
       \/ /\ kind = "retry"
          /\ RetryAllowed(Hydrated(SidecarRows))
          /\ waitRows' = NoStationRows
          /\ waitFiles' = WithGate(waitFiles, "")
    /\ Spawns(waitFiles')

-----------------------------------------------------------------------------
(* The shim *)

\* When _ensure_runtime() fails, or the descriptor went stale behind it, nothing
\* is sent and the command fails
WaitSend(s, kind) ==
    /\ waitShim[s] = WaitIdle
    /\ waitUp' = TRUE
    /\ \/ Refuses(kind) /\ Fails(s)
       \/ /\ Starts(kind)
          /\ Waits(s, [step |-> "wait", kind |-> kind, run |-> waitRun'.number, polls |-> 0])
    /\ UNCHANGED waitLog

\* The command is processed and the answer is lost
WaitSendLost(s, kind) ==
    /\ waitShim[s] = WaitIdle
    /\ waitUp' = TRUE
    /\ Starts(kind)
    /\ Fails(s)
    /\ UNCHANGED waitLog

\* read: the folded events where they say something, the rows elsewhere
Shown ==
    LET gate == IF waitLog.gate # "" THEN waitLog.gate ELSE SidecarRows.gate
    IN  IF waitLog.verdict # "" THEN WithGate(waitLog, gate) ELSE WithGate(SidecarRows, gate)

\* _wait_for_verify(): one read, which starts the runtime if need be; an
\* unreachable one shows nothing
WaitPoll(s, reached) ==
    LET w == waitShim[s]
        status == IF reached THEN Shown.verdict ELSE ""
    IN /\ w.step = "wait"
       /\ w.polls < WaitPolls
       /\ waitUp' = (waitUp \/ reached)
       /\ waitRows' = IF reached THEN SidecarRows ELSE waitRows
       /\ \/ /\ status \in Verdicts
             /\ IF status = "READY" /\ Shown.gate # "FAIL"
                THEN Waits(s, [step |-> "end", kind |-> w.kind, run |-> w.run, of |-> Shown.of])
                ELSE Fails(s)
          \/ /\ status \notin Verdicts
             /\ Waits(s, [w EXCEPT !.polls = @ + 1])
       /\ UNCHANGED <<waitRun, waitStore>>

WaitTimeout(s) ==
    /\ waitShim[s].step = "wait"
    /\ waitShim[s].polls = WaitPolls
    /\ Fails(s)
    /\ UNCHANGED <<waitUp, waitRows, waitRun, waitStore>>

\* approve looks at the descriptor once more, retry does not
WaitReturn(s) ==
    LET w == waitShim[s] IN
    /\ w.step = "end"
    /\ IF w.kind = "approve" /\ ~waitUp THEN Fails(s) ELSE Waits(s, [w EXCEPT !.step = "done"])
    /\ UNCHANGED <<waitUp, waitRows, waitRun, waitStore>>

\* The next command of the same shim
WaitAgain(s) ==
    /\ waitShim[s].step = "done"
    /\ Waits(s, WaitIdle)
    /\ UNCHANGED <<waitUp, waitRows, waitRun, waitStore>>

-----------------------------------------------------------------------------
(* The worker and the runtime *)

WorkerOnly == UNCHANGED <<waitUp, waitRows, waitShim>>
Leaves == waitRun' = [waitRun EXCEPT !.step = "off", !.leased = FALSE, !.rows = NoStationRows]
WorkerRows == Hydrated(waitRun.rows)
Recorded(rows, recorded) == waitLog' = IF recorded THEN rows ELSE waitLog

\* _advance_development: a row of any kind is kept; otherwise the gate's verdict is
\* saved, and recorded unless the kernel refuses that
WorkerDevelops(gate, recorded) ==
    /\ waitRun.step = "development"
    /\ WorkerRows.gate = ""
    /\ waitRun' = [waitRun EXCEPT !.step = "verify", !.rows = WithGate(WorkerRows, gate)]
    /\ waitFiles' = WithGate(waitFiles, gate)
    /\ Recorded(WithGate(waitLog, gate), recorded)
    /\ WorkerOnly

WorkerSkipsDevelopment ==
    /\ waitRun.step = "development"
    /\ WorkerRows.gate # ""
    /\ waitRun' = [waitRun EXCEPT !.step = "verify", !.rows = WorkerRows]
    /\ UNCHANGED waitStore
    /\ WorkerOnly

\* _advance_verify: only without a verify row, and only a candidate that passed
Verifies == WorkerRows.verdict = "" /\ WorkerRows.gate = "PASS"

WorkerVerifies(verdict, recorded) ==
    /\ waitRun.step = "verify"
    /\ Verifies
    /\ waitFiles' = WithVerdict(waitFiles, verdict, waitRun.number)
    /\ Recorded(WithVerdict(waitLog, verdict, waitRun.number), recorded)
    /\ Leaves
    /\ WorkerOnly

WorkerSkipsVerify ==
    /\ waitRun.step = "verify"
    /\ ~Verifies
    /\ Leaves
    /\ UNCHANGED waitStore
    /\ WorkerOnly

\* A station raises: main() gives the lease back
WorkerRaises ==
    /\ waitRun.step # "off"
    /\ Leaves
    /\ UNCHANGED waitStore
    /\ WorkerOnly

WorkerDies ==
    /\ waitRun.step # "off"
    /\ waitRun' = [waitRun EXCEPT !.step = "off", !.rows = NoStationRows]
    /\ UNCHANGED waitStore
    /\ WorkerOnly

WaitLeaseExpires ==
    /\ waitRun.step = "off" /\ waitRun.leased
    /\ Leaves
    /\ UNCHANGED waitStore
    /\ WorkerOnly

RuntimeDies ==
    /\ waitUp
    /\ waitUp' = FALSE
    /\ waitRows' = NoStationRows
    /\ UNCHANGED <<waitShim, waitRun, waitStore>>

WaitNext ==
    \/ \E s \in WaitShims, kind \in {"approve", "retry"} :
          WaitSend(s, kind) \/ WaitSendLost(s, kind)
    \/ \E s \in WaitShims, reached \in BOOLEAN : WaitPoll(s, reached)
    \/ \E s \in WaitShims : WaitTimeout(s) \/ WaitReturn(s) \/ WaitAgain(s)
    \/ \E gate \in {"PASS", "FAIL"}, recorded \in BOOLEAN : WorkerDevelops(gate, recorded)
    \/ \E verdict \in GivenVerdicts, recorded \in BOOLEAN : WorkerVerifies(verdict, recorded)
    \/ WorkerSkipsDevelopment
    \/ WorkerSkipsVerify
    \/ WorkerRaises
    \/ WorkerDies
    \/ WaitLeaseExpires
    \/ RuntimeDies

WaitSpec == WaitInit /\ [][WaitNext]_waitVars

-----------------------------------------------------------------------------
(* Properties *)

WaitTypeOK ==
    /\ waitUp \in BOOLEAN
    /\ DOMAIN waitShim = WaitShims
    /\ \A s \in WaitShims : waitShim[s].step \in {"idle", "wait", "end", "done"}
    /\ waitRun.number \in 0 .. WaitRuns
    /\ waitRun.step \in {"off", "development", "verify"}
    /\ waitRun.leased \in BOOLEAN
    /\ {waitRows, waitFiles, waitLog, waitRun.rows} \subseteq
          [gate : {"", "PASS", "FAIL"}, verdict : Verdicts \cup {""}, of : 0 .. WaitRuns]

(* retry_command and _wait_for_verify: although read keeps showing the old  *)
(* verdict while the new worker runs, and the runtime decides from rows that *)
(* may be older than the files and the events, a retry that reports success  *)
(* reports the verdict of the worker it started or of a later one.           *)
RetrySuccessIsFresh(s) ==
    (waitShim[s].step = "done" /\ waitShim[s].kind = "retry")
        => waitShim[s].of >= waitShim[s].run

(* A READY verdict is final: as long as the lease keeps workers apart (see   *)
(* StageLease), no later command, worker, restart or death takes it back,    *)
(* neither from the file nor from the events, also when one of the two       *)
(* records is missing; what a shim publishes after its wait is still the     *)
(* READY candidate.                                                          *)
ReadyVerdictStays ==
    /\ waitLog.verdict = "READY" => waitLog' = waitLog
    /\ waitFiles.verdict = "READY" => waitFiles' = waitFiles

=============================================================================
