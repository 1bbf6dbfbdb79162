---------------------------- MODULE MCComponents ----------------------------
(***************************************************************************)
(* The components beside the kernel, each on a small instance.  They share *)
(* no state that the code does not pass through the kernel, so one         *)
(* behaviour moves one of them: focus is chosen at the start and stays.    *)
(***************************************************************************)
EXTENDS SpikeStore, SpikeLease, ArtifactStore, ControlProtocol, DeliveryRecords,
        HostPublish, ShimWait, BrokerRun, McpSession, VerifyFlow, ProjectDesk,
        StageExecutors, GraphRun, HostGate, HostE2E, SpikeRecovery, BrowserTools,
        HostSetup, Capability

VARIABLE focus      \* the component that moves

Components == {"spike", "lease", "artifacts", "control", "delivery", "host", "wait",
               "broker", "mcp", "verify", "desk", "executors", "graph",
               "gate", "session", "recovery", "tools", "setup", "capability"}

SpikeSubmits ==
    {[id |-> "a", delta |-> 1, expected |-> 0], [id |-> "a", delta |-> 2, expected |-> 0],
     [id |-> "b", delta |-> 1, expected |-> 0], [id |-> "b", delta |-> 1, expected |-> 1]}

Command(payload, faults) ==
    [path |-> "/v1/commands", cid |-> "c", payload |-> payload,
     bridge |-> FALSE, faults |-> faults]
Requests == {Command(1, {}), Command(1, {"token"}), Command(1, {"size"}),
             [Command(2, {}) EXCEPT !.bridge = TRUE], [Command(1, {}) EXCEPT !.path = "/readyz"]}

\* Host invocations: two that share a binding, one of another, and ones with a fault
GateRecord == [keys |-> TRUE, origin |-> TRUE, entries |-> TRUE, lock |-> "lock",
               source |-> "tree", candidate |-> "sha"]
GateBinding(nonce) ==
    [keys |-> TRUE, origin |-> TRUE, lock |-> "lock", record |-> GateRecord,
     source |-> "tree", integration |-> "tree", candidate |-> "sha", issued |-> 1,
     expires |-> 2, nonce |-> nonce]
Invocation(nonce, mode) ==
    [flags |-> "each once", files |-> TRUE, owned |-> TRUE, mode |-> mode, lock |-> "lock",
     source |-> "tree", candidate |-> "sha", record |-> GateRecord,
     binding |-> GateBinding(nonce), gate |-> [keys |-> TRUE, binding |-> GateBinding(nonce)],
     snapshot |-> [git |-> FALSE, tree |-> "tree"]]
Invocations ==
    LET i == Invocation("n1", "bootstrap")
    IN  {i, Invocation("n1", "e2e"), Invocation("n2", "probe-codex"),
         [i EXCEPT !.flags = "repeated"], [i EXCEPT !.files = FALSE],
         [i EXCEPT !.owned = FALSE], [i EXCEPT !.gate.binding = GateBinding("n2")],
         [i EXCEPT !.source = "other"], [i EXCEPT !.snapshot.tree = "other"]}

\* Paths of up to three parts below an anchor, two folders with a spelling of their own
LaunchFolders == {<<"/", "w", "p">>, <<"C:", "w", ".", "q", "..">>}
AskedPaths ==
    {<<>>} \cup {<<anchor>> \o parts : anchor \in {"/", "c:", "//", "w"},
                parts \in UNION {[1 .. n -> {"w", "W", "p", "..", "."}] : n \in 0 .. 3}}

\* The two callers (holders, shims, runs, pipelines) of a component do the same; they
\* have the same names in every component, so that one exchange swaps them all.
Exchange == Permutations(SpikeCallers)

\* Every component but one stands still.
OthersStill(moving) ==
    /\ IF moving = "spike" THEN TRUE ELSE UNCHANGED spikeVars
    /\ IF moving = "lease" THEN TRUE ELSE UNCHANGED fenceVars
    /\ IF moving = "artifacts" THEN TRUE ELSE UNCHANGED casVars
    /\ IF moving = "control" THEN TRUE ELSE UNCHANGED httpVars
    /\ IF moving = "delivery" THEN TRUE ELSE UNCHANGED delVars
    /\ IF moving = "host" THEN TRUE ELSE UNCHANGED hostVars
    /\ IF moving = "wait" THEN TRUE ELSE UNCHANGED waitVars
    /\ IF moving = "broker" THEN TRUE ELSE UNCHANGED runVars
    /\ IF moving = "mcp" THEN TRUE ELSE UNCHANGED mcpVars
    /\ IF moving = "verify" THEN TRUE ELSE UNCHANGED verifyVars
    /\ IF moving = "desk" THEN TRUE ELSE UNCHANGED deskVars
    /\ IF moving = "executors" THEN TRUE ELSE UNCHANGED exVars
    /\ IF moving = "graph" THEN TRUE ELSE UNCHANGED graphVars
    /\ IF moving = "gate" THEN TRUE ELSE UNCHANGED gateVars
    /\ IF moving = "session" THEN TRUE ELSE UNCHANGED e2eVars
    /\ IF moving = "recovery" THEN TRUE ELSE UNCHANGED recVars
    /\ IF moving = "tools" THEN TRUE ELSE UNCHANGED toolVars
    /\ IF moving = "setup" THEN TRUE ELSE UNCHANGED setupVars
    /\ IF moving = "capability" THEN TRUE ELSE UNCHANGED capVars

ComponentsInit ==
    /\ focus \in Components
    /\ SpikeInit /\ FenceInit /\ CasInit /\ HttpInit /\ DelInit /\ HostInit /\ WaitInit
    /\ RunInit /\ McpInit /\ VerifyInit /\ DeskInit /\ ExInit /\ GraphInit
    /\ GateInit /\ E2EInit /\ RecInit /\ ToolInit /\ SetupInit /\ CapInit
    /\ focus # "gate" => gatePlatform = "linux"

ComponentsNext ==
    /\ UNCHANGED focus
    /\ \/ focus = "spike" /\ SpikeNext
       \/ focus = "lease" /\ FenceNext
       \/ focus = "artifacts" /\ CasNext
       \/ focus = "control" /\ HttpNext
       \/ focus = "delivery" /\ DelNext
       \/ focus = "host" /\ HostNext
       \/ focus = "wait" /\ WaitNext
       \/ focus = "broker" /\ RunNext
       \/ focus = "mcp" /\ McpNext
       \/ focus = "verify" /\ VerifyNext
       \/ focus = "desk" /\ DeskNext
       \/ focus = "executors" /\ ExNext
       \/ focus = "graph" /\ GraphNext
       \/ focus = "gate" /\ GateNext
       \/ focus = "session" /\ E2ENext
       \/ focus = "recovery" /\ RecNext
       \/ focus = "tools" /\ ToolNext
       \/ focus = "setup" /\ SetupNext
       \/ focus = "capability" /\ CapNext
    /\ OthersStill(focus)

componentVars == <<focus, spikeVars, fenceVars, casVars, httpVars, delVars, hostVars,
                   waitVars, runVars, mcpVars, verifyVars, deskVars, exVars, graphVars,
                   gateVars, e2eVars, recVars, toolVars, setupVars, capVars>>

ComponentsSpec == ComponentsInit /\ [][ComponentsNext]_componentVars

\* What the persistence spike promises: commits that are whole and happen once,
\* and results that only a current lease holder delivers.
PersistenceSpikeContract == SpikeContract /\ FenceContract

\* What the runtime broker promises of a launch, of a process and of a browser:
\* a true result, nothing left running, and a profile that admits what it names.
LaunchContract == RunContract /\ McpContract /\ CapabilityIsExact

\* What the shim's own commands promise of the files they write: published rows
\* that are true, and a state root a runtime can be started from.
ShimContract == HostContract /\ SetupContract

\* The records and counters of every component stay within their types and
\* bounds; a component that stands still is as it was at the start.
ComponentsTypeOK ==
    CASE focus = "spike" -> SpikeTypeOK [] focus = "lease" -> FenceTypeOK
      [] focus = "artifacts" -> CasTypeOK [] focus = "control" -> HttpTypeOK
      [] focus = "delivery" -> DelTypeOK [] focus = "host" -> HostTypeOK
      [] focus = "wait" -> WaitTypeOK [] focus = "broker" -> RunTypeOK
      [] focus = "mcp" -> McpTypeOK [] focus = "verify" -> VerifyTypeOK
      [] focus = "desk" -> DeskTypeOK [] focus = "executors" -> ExTypeOK
      [] focus = "graph" -> GraphTypeOK [] focus = "gate" -> GateTypeOK
      [] focus = "session" -> E2ETypeOK [] focus = "recovery" -> RecTypeOK
      [] focus = "tools" -> ToolTypeOK [] focus = "setup" -> SetupTypeOK
      [] focus = "capability" -> CapTypeOK [] OTHER -> FALSE
=============================================================================
