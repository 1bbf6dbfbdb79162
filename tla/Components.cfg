\* The components beside the kernel, one at a time.  n1 and n2 name the two callers,
\* holders, shims, runs or pipelines of a component.
SPECIFICATION ComponentsSpec
CONSTANTS
    SpikeCallers = {n1, n2}
    SpikeCommands <- SpikeSubmits
    SpikeFaultBound = 2
    FenceHolders = {n1, n2}
    FenceDuration = 2
    FenceClockMax = 4
    FenceGrants = 3
    Putters = {n1, n2}
    PutBound = 4
    HttpSlots = {s1}
    HttpRequests <- Requests
    RateMax = 1
    RateWindow = 2
    HttpClockMax = 3
    HttpBudget = 2
    DelPipelines = {n1, n2}
    DelHeads = {"h1"}
    DelEvents = {"e"}
    DelGitHub = {"runtime"}
    DelBound = 2
    HostShims = {n1, n2}
    HostPipelines = {n1, n2}
    HostBound = 2
    WaitShims = {n1, n2}
    WaitRuns = 2
    WaitPolls = 2
    StreamMax = 2
    RunChildren = {"k1", "k2"}
    McpFrames = 5
    Verifiers = {n1, n2}
    VerifyAttempts = 2
    DeskProjects = {"p", ""}
    DeskPeople = {"u"}
    DeskPipelines = {n1, n2}
    DeskEdits = 5
    ExLaunches = 5
    GraphExecutors = {n1, n2}
    StageRuns = {"r1", "r2"}
    SpikeRuns = {"s1"}
    GraphCalls = 4
    GateRuns = {n1, n2}
    GateInvocations <- Invocations
    GateClockMax = 2
    E2EMost = 4
    E2EAtOnce = 2
    E2EOutput = 3
    RecCallers = {n1, n2}
    RecCalls = 2
    RecRuns = 2
    ToolWorkers = {n1, n2}
    ToolRuns = 3
    SetupShims = {n1, n2}
    SetupRuns = 3
    CapFolders <- LaunchFolders
    CapTargets <- AskedPaths
SYMMETRY Exchange
INVARIANTS
    ComponentsTypeOK
    ControlContract
    ShimContract
    LaunchContract
    VerifyContract
    DeskContract
    StationContract
    GraphContract
    GateContract
    SessionContract
    RecoveryContract
    ToolContract
PROPERTIES
    PersistenceSpikeContract
    PutContract
    DeliveryContract
    
CHECK_DEADLOCK FALSE
