------------------------------- MODULE HostSetup -------------------------------
(***************************************************************************)
(* What `hermes pipeline setup` and `start` write under the state root     *)
(* before a runtime serves: the ownership markers (ensure_layout), the     *)
(* agent pins (write_runtime_pins) and the managed environment             *)
(* (provision_runtime_env).  None of these writes is atomic and no lock    *)
(* guards them; the runtime loads the pins once, when it boots.            *)
(*                                                                         *)
(* Descriptors, process identities and the runtime's own lock are the      *)
(* subject of RuntimeLifecycle: here a runtime is absent, boots or serves, *)
(* and one at a time holds the state root.                                 *)
(***************************************************************************)
EXTENDS Integers, FiniteSets

CONSTANTS SetupShims,   \* commands that run at the same time
          SetupRuns     \* bound: commands begun

VARIABLES setMarker,    \* the marker of each child directory, in layout order
          setPins,      \* descriptor/runtimes.json
          setEnv,       \* the managed environment: "torn" has an interpreter only
          setRuntime,   \* the runtime; "corrupt" serves, and refuses every command
          setShim,      \* the step of each command
          setRuns,      \* commands begun
          setLaid,      \* history: some command has been through the whole layout
          setCut,       \* history: what a command or uv left half written
          setMixed,     \* history: a command began beside another, or beside a boot
          setBroken,    \* history: a runtime was launched from half an environment
          setInvalid    \* history: a setup has answered STATE_ROOT_INVALID

setupVars == <<setMarker, setPins, setEnv, setRuntime, setShim, setRuns, setLaid, setCut,
               setMixed, setBroken, setInvalid>>

Children == 1 .. 3      \* STATE_ROOT_CHILDREN
FileStates == {"none", "torn", "whole"}
SetupIdle == [cmd |-> "none", step |-> "idle", child |-> 0]
SetupBusy == {s \in SetupShims : setShim[s] # SetupIdle}

SetupInit ==
    /\ setMarker = [c \in Children |-> "none"]
    /\ setPins = "none" /\ setEnv = "none" /\ setRuntime = "none"
    /\ setShim = [s \in SetupShims |-> SetupIdle]
    /\ setRuns = 0
    /\ setLaid = FALSE /\ setCut = {} /\ setMixed = FALSE
    /\ setBroken = FALSE /\ setInvalid = FALSE

-----------------------------------------------------------------------------

At(s, step) == setShim[s].step = step
ShimGoes(s, step) == setShim' = [setShim EXCEPT ![s].step = step]
ShimDone(s) == setShim' = [setShim EXCEPT ![s] = SetupIdle]

SetupBegin(s, cmd) ==
    /\ setShim[s] = SetupIdle
    /\ setRuns < SetupRuns
    /\ setRuns' = setRuns + 1
    /\ setShim' = [setShim EXCEPT ![s] = [cmd |-> cmd, step |-> "marker?", child |-> 1]]
    /\ setMixed' = (setMixed \/ SetupBusy # {} \/ setRuntime = "booting")
    /\ UNCHANGED <<setMarker, setPins, setEnv, setRuntime, setLaid, setCut, setBroken,
                   setInvalid>>

\* On to the next child of the layout, and then to what follows it
NextChild(s) ==
    LET c == setShim[s].child
        then == IF setShim[s].cmd = "setup" THEN "validate" ELSE "pins"
    IN  /\ setShim' = [setShim EXCEPT ![s] = [cmd |-> @.cmd,
                           step |-> IF c = 3 THEN then ELSE "marker?",
                           child |-> IF c = 3 THEN 0 ELSE c + 1]]
        /\ setLaid' = (setLaid \/ c = 3)

\* ensure_layout(): a marker is written only when there is no such file
CheckMarker(s) ==
    /\ At(s, "marker?")
    /\ \/ /\ setMarker[setShim[s].child] = "none"
          /\ ShimGoes(s, "open marker")
          /\ UNCHANGED setLaid
       \/ /\ setMarker[setShim[s].child] # "none"
          /\ NextChild(s)
    /\ UNCHANGED <<setMarker, setPins, setEnv, setRuntime, setRuns, setCut, setMixed,
                   setBroken, setInvalid>>

\* write_text() creates or truncates the file, and then fills it
OpenMarker(s) ==
    /\ At(s, "open marker")
    /\ setMarker' = [setMarker EXCEPT ![setShim[s].child] = "torn"]
    /\ ShimGoes(s, "fill marker")
    /\ UNCHANGED <<setPins, setEnv, setRuntime, setRuns, setLaid, setCut, setMixed,
                   setBroken, setInvalid>>

FillMarker(s) ==
    /\ At(s, "fill marker")
    /\ setMarker' = [setMarker EXCEPT ![setShim[s].child] = "whole"]
    /\ NextChild(s)
    /\ UNCHANGED <<setPins, setEnv, setRuntime, setRuns, setCut, setMixed, setBroken,
                   setInvalid>>

\* ownership_marker_valid(): all markers are read and none is repaired
OwnershipMarkerValid == \A c \in Children : setMarker[c] = "whole"

ValidateLayout(s) ==
    /\ At(s, "validate")
    /\ setInvalid' = (setInvalid \/ ~OwnershipMarkerValid)
    /\ ShimDone(s)
    /\ UNCHANGED <<setMarker, setPins, setEnv, setRuntime, setRuns, setLaid, setCut,
                   setMixed, setBroken>>

\* Mutant of TruncatePins: the pins are written like a marker, only when absent.
PinsOnlyOnce(s) ==
    /\ At(s, "pins")
    /\ setPins' = IF setPins = "none" THEN "torn" ELSE setPins
    /\ ShimGoes(s, IF setPins = "none" THEN "fill pins" ELSE "descriptor")
    /\ UNCHANGED <<setMarker, setEnv, setRuntime, setRuns, setLaid, setCut, setMixed,
                   setBroken, setInvalid>>

\* write_runtime_pins(): every start writes them anew, before it looks for a runtime
TruncatePins(s) ==
    /\ At(s, "pins")
    /\ setPins' = "torn"
    /\ ShimGoes(s, "fill pins")
    /\ UNCHANGED <<setMarker, setEnv, setRuntime, setRuns, setLaid, setCut, setMixed,
                   setBroken, setInvalid>>

FillPins(s) ==
    /\ At(s, "fill pins")
    /\ setPins' = "whole"
    /\ ShimGoes(s, "descriptor")
    /\ UNCHANGED <<setMarker, setEnv, setRuntime, setRuns, setLaid, setCut, setMixed,
                   setBroken, setInvalid>>

\* A runtime that serves is converged to; an interpreter that is there is taken for
\* an environment
FindRuntime(s) ==
    /\ At(s, "descriptor")
    /\ \/ setRuntime \in {"ready", "corrupt"} /\ ShimDone(s)
       \/ /\ setRuntime \in {"none", "booting"}
          /\ ShimGoes(s, IF setEnv = "none" THEN "sync" ELSE "launch")
    /\ UNCHANGED <<setMarker, setPins, setEnv, setRuntime, setRuns, setLaid, setCut,
                   setMixed, setBroken, setInvalid>>

\* uv sync: the interpreter first, the packages after it
SyncInterpreter(s) ==
    /\ At(s, "sync")
    /\ setEnv' = IF setEnv = "none" THEN "torn" ELSE setEnv
    /\ ShimGoes(s, "packages")
    /\ UNCHANGED <<setMarker, setPins, setRuntime, setRuns, setLaid, setCut, setMixed,
                   setBroken, setInvalid>>

\* Exit code 0, an interpreter, and its sys.prefix is the managed directory
SyncEnds(s) ==
    /\ At(s, "packages")
    /\ setEnv' = "whole"
    /\ ShimGoes(s, "launch")
    /\ UNCHANGED <<setMarker, setPins, setRuntime, setRuns, setLaid, setCut, setMixed,
                   setBroken, setInvalid>>

\* Popen: without its packages a runtime exits at once; without the lock, too
LaunchRuntime(s) ==
    /\ At(s, "launch")
    /\ setRuntime' = IF setEnv = "whole" /\ setRuntime = "none" THEN "booting" ELSE setRuntime
    /\ setBroken' = (setBroken \/ setEnv # "whole")
    /\ ShimGoes(s, "wait")
    /\ UNCHANGED <<setMarker, setPins, setEnv, setRuns, setLaid, setCut, setMixed,
                   setInvalid>>

\* _wait_for_ready(): /readyz answers, or the budget is spent
StartWaits(s) ==
    /\ At(s, "wait")
    /\ ShimDone(s)
    /\ UNCHANGED <<setMarker, setPins, setEnv, setRuntime, setRuns, setLaid, setCut,
                   setMixed, setBroken, setInvalid>>

\* An OSError, a failed sync or the death of the command.  An orphaned uv may end well.
HalfWritten == [step \in {"fill marker", "fill pins", "packages"} |->
                   CASE step = "fill marker" -> "marker" [] step = "fill pins" -> "pins"
                     [] step = "packages" -> "env"]

SetupEndsEarly(s) ==
    /\ setShim[s] # SetupIdle
    /\ ShimDone(s)
    /\ \/ /\ setCut' = setCut \cup {HalfWritten[t] : t \in DOMAIN HalfWritten \cap {setShim[s].step}}
          /\ UNCHANGED setEnv
       \/ /\ At(s, "packages")
          /\ setEnv' = "whole"
          /\ UNCHANGED setCut
    /\ UNCHANGED <<setMarker, setPins, setRuntime, setRuns, setLaid, setMixed, setBroken,
                   setInvalid>>

\* KernelBridge._load_runtime_pins(): a file that does not parse marks the bridge
\* corrupt for the life of the runtime, which reports itself ready all the same
LoadPins ==
    /\ setRuntime = "booting"
    /\ setRuntime' = IF setPins = "torn" THEN "corrupt" ELSE "ready"
    /\ UNCHANGED <<setMarker, setPins, setEnv, setShim, setRuns, setLaid, setCut, setMixed,
                   setBroken, setInvalid>>

\* The runtime is stopped or dies
RuntimeGoes ==
    /\ setRuntime # "none"
    /\ setRuntime' = "none"
    /\ UNCHANGED <<setMarker, setPins, setEnv, setShim, setRuns, setLaid, setCut, setMixed,
                   setBroken, setInvalid>>

SetupNext ==
    \/ \E s \in SetupShims :
          \/ \E cmd \in {"setup", "start"} : SetupBegin(s, cmd)
          \/ CheckMarker(s)
          \/ OpenMarker(s)
          \/ FillMarker(s)
          \/ ValidateLayout(s)
          \/ TruncatePins(s)
          \/ FillPins(s)
          \/ FindRuntime(s)
          \/ SyncInterpreter(s)
          \/ SyncEnds(s)
          \/ LaunchRuntime(s)
          \/ StartWaits(s)
          \/ SetupEndsEarly(s)
    \/ LoadPins
    \/ RuntimeGoes

SetupSpec == SetupInit /\ [][SetupNext]_setupVars

-----------------------------------------------------------------------------
(* Properties *)

SetupTypeOK ==
    /\ setMarker \in [Children -> FileStates]
    /\ setPins \in FileStates /\ setEnv \in FileStates
    /\ setRuntime \in {"none", "booting", "ready", "corrupt"}
    /\ \A s \in SetupShims : setShim[s].child \in 0 .. 3
    /\ setRuns \in 0 .. SetupRuns
    /\ setCut \subseteq {"marker", "pins", "env"}
    /\ {setLaid, setMixed, setBroken, setInvalid} \subseteq BOOLEAN

(* ensure_layout ("repeated setup calls converge"): however many commands   *)
(* overlap, when none runs any more and one has been through the layout,    *)
(* every marker is whole, unless a command was cut off while it wrote one;  *)
(* and no setup answers STATE_ROOT_INVALID but for such a cut or because    *)
(* commands overlapped.                                                     *)
LayoutConverges ==
    "marker" \notin setCut =>
        /\ (SetupBusy = {} /\ setLaid) => OwnershipMarkerValid
        /\ setInvalid => setMixed

(* write_runtime_pins and _load_runtime_pins: starts that come one after    *)
(* the other never give a runtime half written pins, though each may die    *)
(* while it writes them and the runtime may die and be started again.  A    *)
(* runtime that refuses every command as corrupt has met a second start.    *)
PoisonHasACause == setRuntime = "corrupt" => setMixed

(* start_command and provision_runtime_env: an interpreter stands for a     *)
(* whole environment.  A runtime is launched from half of one only if a     *)
(* sync was cut off or failed, or a second start came during the first.     *)
EnvironmentTakenWhole == setBroken => "env" \in setCut \/ setMixed

(* What setup and start leave under the state root: markers, pins and an    *)
(* environment that are whole, or a reason why not.                         *)
SetupContract == LayoutConverges /\ PoisonHasACause /\ EnvironmentTakenWhole
=============================================================================
