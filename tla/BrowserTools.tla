------------------------------ MODULE BrowserTools ------------------------------
(***************************************************************************)
(* The locked browser tools of the end-to-end step                         *)
(* (runtime_broker/browser_tools.py, called by KernelBridge._e2e_runtime,  *)
(* used by chrome_mcp.closed_mcp_argv).                                    *)
(*                                                                         *)
(* Every stage worker of one state root shares one verify-sandbox.  A      *)
(* worker that misses one of three files there downloads and unpacks all   *)
(* of them in place; that a file is there is all that is ever asked of it. *)
(***************************************************************************)
EXTENDS Integers, FiniteSets

CONSTANTS ToolWorkers,  \* stage workers that reach the end-to-end step
          ToolRuns      \* bound of the number of times they do

VARIABLES toolThere,    \* the parts whose file is there
          toolTorn,     \* the parts a writer was interrupted in
          toolStep,     \* where each worker is
          toolClean,    \* no writer of its part was interrupted since it began
          toolRuns,     \* end-to-end steps begun
          toolLone,     \* history: nobody else was at work since the worker began
          toolMixed,    \* history: two workers were at work at once
          toolCut       \* history: npm was interrupted

toolVars == <<toolThere, toolTorn, toolStep, toolClean, toolRuns, toolLone, toolMixed, toolCut>>

\* The executables closed_mcp_argv asks for: npm unpacks the server
ToolParts == {"node", "chrome", "server"}

ToolEnded == {"idle", "refused", "launched", "broken launch", "raised", "dead"}
ToolBusy == {w \in ToolWorkers : toolStep[w] \notin ToolEnded}

\* A part is written from the first byte of its archive to the last
PartWritten ==
    [w \in ToolWorkers |->
        CASE toolStep[w] \in {"node begun", "node there"} -> "node"
          [] toolStep[w] \in {"chrome begun", "chrome there"} -> "chrome"
          [] toolStep[w] \in {"npm begun", "npm there"} -> "server"
          [] OTHER -> "nothing"]
PartWhole(part) ==
    /\ part \in toolThere \ toolTorn
    /\ \A w \in ToolWorkers : PartWritten[w] # part

ToolInit ==
    /\ toolThere = {} /\ toolTorn = {}
    /\ toolStep = [w \in ToolWorkers |-> "idle"]
    /\ toolClean = [w \in ToolWorkers |-> TRUE]
    /\ toolRuns = 0
    /\ toolLone = [w \in ToolWorkers |-> TRUE]
    /\ toolMixed = FALSE
    /\ toolCut = FALSE

ToolGoes(w, step) == toolStep' = [toolStep EXCEPT ![w] = step]

-----------------------------------------------------------------------------
\* Mutant of ClosedMcpArgv: the server is not asked for.
ServerTakenForGranted == {"node", "chrome"} \subseteq toolThere

\* closed_mcp_argv has an argument list: the three files are there
ClosedMcpArgv == ToolParts \subseteq toolThere

\* materialize_browser_tools returns at once if nothing is missing
ToolBegin(w) ==
    /\ toolStep[w] \in ToolEnded
    /\ toolRuns < ToolRuns
    /\ toolRuns' = toolRuns + 1
    /\ ToolGoes(w, IF ClosedMcpArgv THEN "launch" ELSE "inputs")
    /\ toolLone' = [v \in ToolWorkers |-> IF v = w THEN ToolBusy = {}
                                          ELSE toolLone[v] /\ v \notin ToolBusy]
    /\ toolMixed' = (toolMixed \/ ToolBusy # {})
    /\ UNCHANGED <<toolThere, toolTorn, toolClean, toolCut>>

\* A digest, a download, a missing npm: BrowserToolsError and OSError are suppressed
\* and the launch is tried all the same.  An archive that is none, or a manifest that
\* does not parse, is another error and leaves the step ("raised").
ToolGivesUp(w, at, after) ==
    /\ toolStep[w] = at
    /\ ToolGoes(w, after)
    /\ UNCHANGED <<toolThere, toolTorn, toolClean, toolRuns, toolLone, toolMixed, toolCut>>

\* _verify_lock_inputs and _place_npm_project
PlaceProject(w) ==
    /\ toolStep[w] = "inputs"
    /\ ToolGoes(w, "node")
    /\ UNCHANGED <<toolThere, toolTorn, toolClean, toolRuns, toolLone, toolMixed, toolCut>>

\* _place_node (the archive has its digest) and _place_cft (any archive): the files
\* that are there are written over one by one.  npm, which comes with node, first
\* removes node_modules.
UnpackBegins(w, part) ==
    /\ toolStep[w] = part
    /\ part = "npm" => "node" \in toolThere
    /\ ToolGoes(w, CASE part = "node" -> "node begun" [] part = "chrome" -> "chrome begun"
                     [] part = "npm" -> "npm begun")
    /\ toolClean' = [toolClean EXCEPT ![w] = TRUE]
    /\ toolThere' = IF part = "npm" THEN toolThere \ {"server"} ELSE toolThere
    /\ UNCHANGED <<toolTorn, toolRuns, toolLone, toolMixed, toolCut>>

\* The file that will be asked for has been created
UnpackReaches(w) ==
    /\ toolStep[w] \in {"node begun", "chrome begun", "npm begun"}
    /\ toolThere' = toolThere \cup {PartWritten[w]}
    /\ ToolGoes(w, CASE PartWritten[w] = "node" -> "node there"
                     [] PartWritten[w] = "chrome" -> "chrome there"
                     [] PartWritten[w] = "server" -> "npm there")
    /\ UNCHANGED <<toolTorn, toolClean, toolRuns, toolLone, toolMixed, toolCut>>

\* The end of the archive; what another writer left undone stays undone
UnpackEnds(w) ==
    /\ toolStep[w] \in {"node there", "chrome there", "npm there"}
    /\ toolTorn' = IF toolClean[w] THEN toolTorn \ {PartWritten[w]} ELSE toolTorn
    /\ ToolGoes(w, CASE PartWritten[w] = "node" -> "chrome" [] PartWritten[w] = "chrome" -> "npm"
                     [] PartWritten[w] = "server" -> "incomplete?")
    /\ UNCHANGED <<toolThere, toolClean, toolRuns, toolLone, toolMixed, toolCut>>

\* An interrupted writer: an OSError or npm's exit code ("launch"), a damaged archive
\* or npm's five minutes ("raised"), a death
UnpackBreaks(w, after) ==
    /\ PartWritten[w] # "nothing"
    /\ toolTorn' = toolTorn \cup {PartWritten[w]}
    /\ toolClean' = [v \in ToolWorkers |-> toolClean[v] /\ PartWritten[v] # PartWritten[w]]
    /\ toolCut' = (toolCut \/ PartWritten[w] = "server")
    /\ ToolGoes(w, after)
    /\ UNCHANGED <<toolThere, toolRuns, toolLone, toolMixed>>

\* The last question of materialize_browser_tools
ToolComplete(w) ==
    /\ toolStep[w] = "incomplete?"
    /\ ToolGoes(w, IF ClosedMcpArgv THEN "materialized" ELSE "launch")
    /\ UNCHANGED <<toolThere, toolTorn, toolClean, toolRuns, toolLone, toolMixed, toolCut>>

\* ChromeMcpRuntime.launch asks closed_mcp_argv again and starts what it finds
ToolLaunch(w) ==
    /\ toolStep[w] \in {"materialized", "launch"}
    /\ ToolGoes(w, CASE ~ClosedMcpArgv -> "refused"
                     [] ClosedMcpArgv /\ \A part \in ToolParts : PartWhole(part) -> "launched"
                     [] OTHER -> "broken launch")
    /\ UNCHANGED <<toolThere, toolTorn, toolClean, toolRuns, toolLone, toolMixed, toolCut>>

ToolNext ==
    \/ \E w \in ToolWorkers : ToolBegin(w)
    \/ \E w \in ToolWorkers, at \in {"inputs", "node", "chrome", "npm"},
          after \in {"launch", "raised", "dead"} : ToolGivesUp(w, at, after)
    \/ \E w \in ToolWorkers : PlaceProject(w)
    \/ \E w \in ToolWorkers, part \in {"node", "chrome", "npm"} : UnpackBegins(w, part)
    \/ \E w \in ToolWorkers : UnpackReaches(w)
    \/ \E w \in ToolWorkers : UnpackEnds(w)
    \/ \E w \in ToolWorkers, after \in {"launch", "raised", "dead"} : UnpackBreaks(w, after)
    \/ \E w \in ToolWorkers : ToolComplete(w)
    \/ \E w \in ToolWorkers : ToolLaunch(w)

ToolSpec == ToolInit /\ [][ToolNext]_toolVars

-----------------------------------------------------------------------------
(* Properties *)

ToolTypeOK ==
    /\ toolThere \subseteq ToolParts /\ toolTorn \subseteq ToolParts
    /\ toolStep \in [ToolWorkers -> ToolEnded \cup
                        {"inputs", "node", "node begun", "node there", "chrome",
                         "chrome begun", "chrome there", "npm", "npm begun", "npm there",
                         "incomplete?", "materialized", "launch"}]
    /\ toolRuns \in 0..ToolRuns

(* materialize_browser_tools: whatever earlier workers left half written,   *)
(* one that does the work, alone and without an error, leaves the three     *)
(* parts whole; what it finds on disk is not mistaken for its own.          *)
MaterializedIsWhole ==
    \A w \in ToolWorkers :
        (toolStep[w] = "materialized" /\ toolLone[w]) => \A part \in ToolParts : PartWhole(part)

(* closed_mcp_argv takes a file that is there for a tool that is whole.     *)
(* That is enough although workers die, archives end early and downloads    *)
(* fail, because npm's part, which is unpacked last, is missing until the   *)
(* others are whole: a browser is started from half a tool only if npm was  *)
(* itself interrupted or two workers have been at work at once.             *)
BrokenLaunchHasACause ==
    \A w \in ToolWorkers : toolStep[w] = "broken launch" => toolCut \/ toolMixed

(* What the end-to-end step may rely on: whole tools, or a reason why not.  *)
ToolContract == MaterializedIsWhole /\ BrokenLaunchHasACause
=============================================================================
