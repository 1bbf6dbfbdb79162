------------------------------- MODULE HostGate -------------------------------
(***************************************************************************)
(* The host entries of the tool bootstrap and of the controlled end-to-end *)
(* run (runtime_broker/_host.py).  A run parses its seven inputs, checks   *)
(* that tool lock, tool record, run binding and gate name each other,      *)
(* spends the single-use gate, demonstrates the isolation of a child, and  *)
(* only then provisions tools, starts processes and writes its             *)
(* observations.                                                           *)
(*                                                                         *)
(* Several runs share one state root: the markers of used gates, the write *)
(* probe, the child's report (Windows), the browser project and the        *)
(* observations.  Digests are injective: a digest is the document itself.  *)
(***************************************************************************)
EXTENDS Integers, FiniteSets

CONSTANTS GateRuns,        \* host processes on one state root
          GateInvocations, \* command lines with the documents they name
          GateClockMax     \* bound of the clock

VARIABLES gatePlatform, \* "linux" or "windows"
          gateClock,
          gateUsed,     \* tools/used-host-gates: bindings whose marker exists
          gateProbe,    \* tools/.isolation-write-probe exists
          gateReport,   \* tools/isolation-child-report.json: a report or NoReport
          gateNotes,    \* tools/tool-observations.json: whose run, or "none", "torn"
          gateStep,     \* where each run is
          gateInv,      \* its invocation
          gateReply,    \* what it printed: "none", "ok" or a rejection code
          gateLone,     \* history: it never overlapped another run
          gateWorked,   \* history: it provisioned tools or started a process
          gateShown     \* history: its own child demonstrated the isolation

gateVars == <<gatePlatform, gateClock, gateUsed, gateProbe, gateReport, gateNotes,
              gateStep, gateInv, gateReply, gateLone, gateWorked, gateShown>>

NoReport == [outsideRead |-> "no report"]
NoInvocation == [flags |-> "not started"]
GateEnded == {"idle", "ended", "raised"}
GateBusy == {r \in GateRuns : gateStep[r] \notin GateEnded}

GateInit ==
    /\ gatePlatform \in {"linux", "windows"}
    /\ gateClock = 0
    /\ gateUsed = {}
    /\ gateProbe = FALSE
    /\ gateReport = NoReport
    /\ gateNotes = "none"
    /\ gateStep = [r \in GateRuns |-> "idle"]
    /\ gateInv = [r \in GateRuns |-> NoInvocation]
    /\ gateReply = [r \in GateRuns |-> "none"]
    /\ gateLone = [r \in GateRuns |-> TRUE]
    /\ gateWorked = [r \in GateRuns |-> FALSE]
    /\ gateShown = [r \in GateRuns |-> FALSE]

Unavailable == "DEPENDENCY_UNAVAILABLE"
Unsupported == "UNSUPPORTED_RUNTIME"

\* reject(): one envelope, exit code 1
GateRejects(r, code) ==
    /\ gateStep' = [gateStep EXCEPT ![r] = "ended"]
    /\ gateReply' = [gateReply EXCEPT ![r] = code]

GateGoes(r, step) == gateStep' = [gateStep EXCEPT ![r] = step] /\ UNCHANGED gateReply

-----------------------------------------------------------------------------
(* Authorization: _auth.py *)

\* parse_host_argv: seven flags, each once, and nothing else
ArgvParses(inv) == inv.flags = "each once"

\* _require_exact_keys and _require_origin, with the entries of the record
WellFormed(doc) == doc.keys /\ doc.origin
GateWellFormed(gate) == gate.keys

\* Lock, record, binding and gate name each other, and the inputs name them
Linked(inv) ==
    LET record == inv.record
        binding == inv.binding
    IN  /\ record.entries
        /\ record.lock = inv.lock /\ binding.lock = inv.lock
        /\ binding.record = record
        /\ inv.gate.binding = binding
        /\ record.source = binding.source
        /\ record.source = binding.integration
        /\ record.source = inv.source
        /\ record.candidate = inv.candidate /\ binding.candidate = inv.candidate

InForce(binding) == binding.issued <= gateClock /\ gateClock < binding.expires

\* inspect_snapshot: a directory without .git whose tree has the digest
SnapshotFits(inv) == inv.snapshot = [git |-> FALSE, tree |-> inv.record.source]

\* validate_authorization up to the gate; owner-only access is asked last but one
Authorized(inv) ==
    /\ inv.files
    /\ WellFormed(inv.record) /\ WellFormed(inv.binding) /\ GateWellFormed(inv.gate)
    /\ Linked(inv)
    /\ InForce(inv.binding)
    /\ inv.owned
    /\ SnapshotFits(inv)

GateStart(r, inv) ==
    /\ gateStep[r] = "idle"
    /\ gateInv' = [gateInv EXCEPT ![r] = inv]
    /\ IF ArgvParses(inv) /\ Authorized(inv)
         THEN /\ GateGoes(r, "gate")
              /\ gateLone' = [q \in GateRuns |->
                                 gateLone[q] /\ (q \in GateBusy \cup {r} => GateBusy = {})]
         ELSE GateRejects(r, Unavailable) /\ UNCHANGED gateLone
    /\ UNCHANGED <<gatePlatform, gateClock, gateUsed, gateProbe, gateReport, gateNotes,
                   gateWorked, gateShown>>

\* Mutant of MarkerFree: the marker is opened for writing, whoever made it.
MarkerReopened(binding) == binding = binding

\* consume_host_gate opens its marker exclusively
MarkerFree(binding) == binding \notin gateUsed

\* protect_owner_only may fail after the marker is there: the error is no
\* AuthorizationError and leaves the process
ConsumeHostGate(r, protects) ==
    /\ gateStep[r] = "gate"
    /\ IF MarkerFree(gateInv[r].binding)
         THEN /\ gateUsed' = gateUsed \cup {gateInv[r].binding}
              /\ GateGoes(r, IF protects THEN "probe" ELSE "raised")
         ELSE GateRejects(r, Unavailable) /\ UNCHANGED gateUsed
    /\ UNCHANGED <<gatePlatform, gateClock, gateProbe, gateReport, gateNotes, gateInv,
                   gateLone, gateWorked, gateShown>>

-----------------------------------------------------------------------------
(* prove_host_isolation: _isolation.py *)

\* _state_root_writable writes a file that every run names alike
WriteProbe(r) ==
    /\ gateStep[r] = "probe"
    /\ gateProbe' = TRUE
    /\ GateGoes(r, "unlink")
    /\ UNCHANGED <<gatePlatform, gateClock, gateUsed, gateReport, gateNotes, gateInv,
                   gateLone, gateWorked, gateShown>>

\* ... and removes it; a missing file is an OSError, so the root is "not
\* writable".  The child is demonstrated all the same before the run is refused.
UnlinkProbe(r) ==
    /\ gateStep[r] = "unlink"
    /\ gateProbe' = FALSE
    /\ GateGoes(r, IF gateProbe THEN "child" ELSE "child in vain")
    /\ UNCHANGED <<gatePlatform, gateClock, gateUsed, gateReport, gateNotes, gateInv,
                   gateLone, gateWorked, gateShown>>

\* What the child found: each access "ok", "access_denied" or "error"
Confined == [outsideRead |-> "access_denied", outsideWrite |-> "access_denied",
             snapshotWrite |-> "access_denied", stateWrite |-> "ok", egress |-> "failed",
             identity |-> TRUE]
ChildReports == {Confined, [Confined EXCEPT !.outsideRead = "ok"],
                 [Confined EXCEPT !.outsideWrite = "error"],
                 [Confined EXCEPT !.snapshotWrite = "ok"],
                 [Confined EXCEPT !.stateWrite = "error"],
                 [Confined EXCEPT !.egress = "connected"],
                 [Confined EXCEPT !.identity = FALSE]}

\* identity: an AppContainer token on Windows, elsewhere a user that is neither
\* root nor the host's
EvaluateChildProbeReport(report) ==
    /\ report.outsideRead = "access_denied"
    /\ report.outsideWrite = "access_denied"
    /\ report.snapshotWrite = "access_denied"
    /\ report.stateWrite = "ok"
    /\ report.egress = "failed"
    /\ report.identity

\* On Linux the report is the child's output; NoReport: no child, a bad exit,
\* fifteen seconds, or output that is no report
LinuxChildShows(report) == report # NoReport /\ EvaluateChildProbeReport(report)

\* A child that can write the state root leaves its report there, on Windows the
\* host reads the one that is there once the child has ended or its fifteen
\* seconds are over
ReportLeft(report) ==
    IF report # NoReport /\ report.stateWrite = "ok" THEN report ELSE gateReport

WindowsChildShows(report) ==
    ReportLeft(report) # NoReport /\ EvaluateChildProbeReport(ReportLeft(report))

IsolationShown(report) ==
    IF gatePlatform = "windows" THEN WindowsChildShows(report) ELSE LinuxChildShows(report)

\* The other locked assertions are asked again around the child: the snapshot has
\* no .git, and on Windows there are job objects.
DemonstrateChild(r, report, rest) ==
    /\ gateStep[r] \in {"child", "child in vain"}
    /\ gateReport' = ReportLeft(report)
    /\ gateShown' = [gateShown EXCEPT ![r] =
                        rest /\ report # NoReport /\ EvaluateChildProbeReport(report)]
    /\ IF gateStep[r] = "child" /\ rest /\ IsolationShown(report) THEN GateGoes(r, "authorized")
       ELSE GateRejects(r, Unsupported)
    /\ UNCHANGED <<gatePlatform, gateClock, gateUsed, gateProbe, gateNotes, gateInv,
                   gateLone, gateWorked>>

-----------------------------------------------------------------------------
(* run_bootstrap and run_controlled_e2e: _host.py *)

\* The sealed Codex of Windows is refused before anything is provisioned
RefuseCodex(r) ==
    /\ gateStep[r] = "authorized"
    /\ gatePlatform = "windows" /\ gateInv[r].mode = "probe-codex"
    /\ GateRejects(r, Unsupported)
    /\ UNCHANGED <<gatePlatform, gateClock, gateUsed, gateProbe, gateReport, gateNotes,
                   gateInv, gateLone, gateWorked, gateShown>>

\* load_and_materialize: the package files must have the digests, name, pin and
\* integrity of the lock before they are copied
Materialize(r, fits) ==
    /\ gateStep[r] = "authorized"
    /\ ~(gatePlatform = "windows" /\ gateInv[r].mode = "probe-codex")
    /\ gateWorked' = [gateWorked EXCEPT ![r] = fits]
    /\ GateGoes(r, IF fits THEN "work" ELSE "raised")
    /\ UNCHANGED <<gatePlatform, gateClock, gateUsed, gateProbe, gateReport, gateNotes,
                   gateInv, gateLone, gateShown>>

\* The mode's own work: npm online or offline, an agent's probe, the end-to-end
\* session, or (selfcheck) only the argument list.  A missing executable, a failed
\* npm or a rejected argument list raises; the answer of a probe is recorded
\* whatever it is, a session that failed is recorded and rejected.
ModeWorks(mode, outcome) ==
    \/ outcome = "done"
    \/ outcome = "raised"
    \/ outcome = "failed" /\ mode = "e2e"

GateWork(r, outcome) ==
    /\ gateStep[r] = "work"
    /\ ModeWorks(gateInv[r].mode, outcome)
    /\ GateGoes(r, CASE outcome = "done" -> "record"
                     [] outcome = "failed" -> "record failure"
                     [] outcome = "raised" -> "raised")
    /\ UNCHANGED <<gatePlatform, gateClock, gateUsed, gateProbe, gateReport, gateNotes,
                   gateInv, gateLone, gateWorked, gateShown>>

\* write_observations truncates the one file, then writes it
OpenNotes(r) ==
    /\ gateStep[r] \in {"record", "record failure"}
    /\ gateNotes' = "torn"
    /\ GateGoes(r, IF gateStep[r] = "record" THEN "write" ELSE "write failure")
    /\ UNCHANGED <<gatePlatform, gateClock, gateUsed, gateProbe, gateReport, gateInv,
                   gateLone, gateWorked, gateShown>>

\* The payload names the binding the run was authorized with
WriteObservations(r) ==
    /\ gateStep[r] \in {"write", "write failure"}
    /\ gateNotes' = gateInv[r].binding.nonce
    /\ IF gateStep[r] = "write"
         THEN /\ gateStep' = [gateStep EXCEPT ![r] = "ended"]
              /\ gateReply' = [gateReply EXCEPT ![r] = "ok"]
         ELSE GateRejects(r, Unavailable)
    /\ UNCHANGED <<gatePlatform, gateClock, gateUsed, gateProbe, gateReport, gateInv,
                   gateLone, gateWorked, gateShown>>

-----------------------------------------------------------------------------
GateCrash(r) ==
    /\ gateStep[r] \notin GateEnded
    /\ GateGoes(r, "raised")
    /\ UNCHANGED <<gatePlatform, gateClock, gateUsed, gateProbe, gateReport, gateNotes,
                   gateInv, gateLone, gateWorked, gateShown>>

GateTick ==
    /\ gateClock < GateClockMax
    /\ gateClock' = gateClock + 1
    /\ UNCHANGED <<gatePlatform, gateUsed, gateProbe, gateReport, gateNotes, gateStep,
                   gateInv, gateReply, gateLone, gateWorked, gateShown>>

GateNext ==
    \/ \E r \in GateRuns, inv \in GateInvocations : GateStart(r, inv)
    \/ \E r \in GateRuns, protects \in BOOLEAN : ConsumeHostGate(r, protects)
    \/ \E r \in GateRuns : WriteProbe(r)
    \/ \E r \in GateRuns : UnlinkProbe(r)
    \/ \E r \in GateRuns, report \in ChildReports \cup {NoReport}, rest \in BOOLEAN :
          DemonstrateChild(r, report, rest)
    \/ \E r \in GateRuns : RefuseCodex(r)
    \/ \E r \in GateRuns, fits \in BOOLEAN : Materialize(r, fits)
    \/ \E r \in GateRuns, outcome \in {"done", "raised", "failed"} : GateWork(r, outcome)
    \/ \E r \in GateRuns : OpenNotes(r)
    \/ \E r \in GateRuns : WriteObservations(r)
    \/ \E r \in GateRuns : GateCrash(r)
    \/ GateTick

GateSpec == GateInit /\ [][GateNext]_gateVars

-----------------------------------------------------------------------------
(* Properties *)

GateTypeOK ==
    /\ gatePlatform \in {"linux", "windows"}
    /\ gateClock \in 0..GateClockMax
    /\ \A used \in gateUsed : \E inv \in GateInvocations : inv.binding = used
    /\ gateProbe \in BOOLEAN
    /\ gateReport = NoReport \/ gateReport \in ChildReports
    /\ gateStep \in [GateRuns -> GateEnded \cup {"gate", "probe", "unlink", "child",
                        "child in vain", "authorized", "work", "record", "record failure",
                        "write", "write failure"}]
    /\ \A r \in GateRuns : gateInv[r] = NoInvocation \/ gateInv[r] \in GateInvocations
    /\ gateReply \in [GateRuns -> {"none", "ok", Unavailable, Unsupported}]

(* consume_host_gate: "replay fails closed".  Of all runs that name one     *)
(* binding, at once or one after the other, crashed or not, at most one     *)
(* does any work.                                                           *)
OneRunPerBinding ==
    \A r, q \in GateRuns :
        (gateWorked[r] /\ gateWorked[q] /\ gateInv[r].binding = gateInv[q].binding) => r = q

(* validate_authorization and prove_host_isolation come before any work:    *)
(* what was provisioned or recorded was done with documents that name each  *)
(* other and a gate that is spent, and on Linux by a run whose own child    *)
(* demonstrated its confinement while the other assertions held.            *)
WorkIsAuthorized ==
    /\ \A r \in GateRuns : gateWorked[r] =>
          /\ Linked(gateInv[r])
          /\ gateInv[r].binding \in gateUsed
          /\ gatePlatform = "linux" => gateShown[r]
    /\ gateNotes \notin {"none", "torn"} =>
          \E r \in GateRuns : gateWorked[r] /\ gateInv[r].binding.nonce = gateNotes

(* A run that was alone is refused as UNSUPPORTED_RUNTIME only because its  *)
(* own child was not confined, the host lacked another locked assertion or  *)
(* the tool is not supported: a probe file that a crashed run left behind   *)
(* costs nobody their gate.                                                 *)
RefusalIsReal ==
    \A r \in GateRuns :
        (gateReply[r] = Unsupported /\ gateLone[r]) =>
            \/ ~gateShown[r]
            \/ gatePlatform = "windows" /\ gateInv[r].mode = "probe-codex"

(* What the host entries promise: single use, work only after every check,  *)
(* refusals for a reason.                                                   *)
GateContract == OneRunPerBinding /\ WorkIsAuthorized /\ RefusalIsReal
=============================================================================
