------------------------------- MODULE Capability -------------------------------
(***************************************************************************)
(* The capability profile an adapter is launched with                      *)
(* (runtime_broker/capability.py): compile_profile, and evaluate for one   *)
(* request.  Paths are judged by their spelling alone, in the style of the *)
(* platform the spelling belongs to, whatever platform runs the code.      *)
(*                                                                         *)
(* A path is the sequence of its parts, an anchor first.  The profiles the *)
(* bridge compiles deny the network, so hosts are not parsed here.         *)
(***************************************************************************)
EXTENDS Naturals, Sequences, FiniteSets, SequencesExt

CONSTANTS CapFolders,   \* the folders adapters are launched in
          CapTargets    \* the paths that are asked for

VARIABLES capProfile,   \* the compiled profile
          capRequest,   \* the request evaluated last
          capAllowed    \* CapabilityVerdict.allowed

capVars == <<capProfile, capRequest, capAllowed>>

PosixAnchors == {"/"}
WindowsAnchors == {"C:", "c:"}
CapRuntimes == {"opencode", "codex", "claude", "chrome"}

-----------------------------------------------------------------------------
(* Profiles *)

NoProfile == [for |-> "none", write |-> {}, read |-> {}, executables |-> {},
              browser |-> "NONE"]

\* compile_profile: read_roots default to write_roots, secrets and side effects to
\* nothing.  "for" is the adapter that is given the profile.
CompileProfile(runtime, folder, executables, browser) ==
    [for |-> runtime, write |-> {folder}, read |-> {folder},
     executables |-> executables, browser |-> browser]

\* _runtime_broker with _profile_for, and _e2e_runtime; the agents without an adapter
\* of their own (claude, cursor, kiro, grok) share the process adapter's profile
ProfileFor(runtime, folder) ==
    IF runtime = "chrome" THEN CompileProfile(runtime, folder, {}, "CHROME_DEVTOOLS_MCP")
    ELSE CompileProfile(runtime, folder,
                        {IF runtime = "claude" THEN "process" ELSE runtime}, "NONE")

-----------------------------------------------------------------------------
(* Paths *)

\* _style: an anchor of neither style ("//", a name, nothing) has none
Style(text) ==
    IF text = <<>> THEN "none"
    ELSE IF text[1] \in PosixAnchors THEN "posix"
    ELSE IF text[1] \in WindowsAnchors THEN "windows"
    ELSE "none"

NowhereIn(style) == [style |-> style, valid |-> FALSE, parts |-> <<>>]

\* Mutant of CollapsePart: ".." at the anchor stays there, as a shell would
CollapseClamps(path, part) ==
    IF ~path.valid \/ part = "." THEN path
    ELSE IF part = ".."
         THEN IF Len(path.parts) = 1 THEN path ELSE [path EXCEPT !.parts = Front(@)]
    ELSE [path EXCEPT !.parts = Append(@, part)]

\* One round of _normalize's loop: ".." removes the part before it, and is refused
\* when only the anchor is left
CollapsePart(path, part) ==
    IF ~path.valid \/ part = "." THEN path
    ELSE IF part = ".."
         THEN IF Len(path.parts) = 1 THEN NowhereIn(path.style)
              ELSE [path EXCEPT !.parts = Front(@)]
    ELSE [path EXCEPT !.parts = Append(@, part)]

Normalize(text) ==
    IF Style(text) = "none" THEN NowhereIn("none")
    ELSE FoldLeft(CollapsePart,
                  [style |-> Style(text), valid |-> TRUE, parts |-> <<text[1]>>],
                  Tail(text))

\* str.casefold, for the names in use
Casefold(part) == CASE part = "W" -> "w" [] part = "C:" -> "c:" [] OTHER -> part

Folded(path) ==
    IF path.style = "windows" THEN [i \in DOMAIN path.parts |-> Casefold(path.parts[i])]
    ELSE path.parts

\* _contains
Contained(root, path) ==
    /\ root.style = path.style
    /\ IsPrefix(Folded(root), Folded(path))

\* _evaluate_path: a root that does not normalise is passed over
EvaluatePath(target, roots) ==
    /\ Normalize(target).valid
    /\ \E root \in roots : /\ Normalize(root).valid
                           /\ Contained(Normalize(root), Normalize(target))

-----------------------------------------------------------------------------
(* Requests *)

\* evaluate: a kind it does not know, and what the profile does not list, is denied
Evaluate(profile, request) ==
    CASE request.kind = "READ_PATH" -> EvaluatePath(request.path, profile.read)
      [] request.kind = "WRITE_PATH" -> EvaluatePath(request.path, profile.write)
      [] request.kind = "EXECUTABLE" -> request.name \in profile.executables
      [] request.kind = "BROWSER" -> request.name = profile.browser
      [] OTHER -> FALSE

\* What the adapters ask before they start anything
AdapterAsks(runtime) ==
    [kind |-> IF runtime = "chrome" THEN "BROWSER" ELSE "EXECUTABLE", path |-> <<>>,
     name |-> CASE runtime = "chrome" -> "CHROME_DEVTOOLS_MCP"
                [] runtime = "claude" -> "process"
                [] OTHER -> runtime]

PathRequests == [kind : {"READ_PATH", "WRITE_PATH"}, path : CapTargets, name : {""}]
NameRequests == {AdapterAsks(runtime) : runtime \in CapRuntimes}
                \cup [kind : {"NETWORK", "SECRET", "SIDE_EFFECT", "SHELL"}, path : {<<>>},
                      name : {"x"}]
NotAsked == [kind |-> "none", path |-> <<>>, name |-> ""]

CapInit == capProfile = NoProfile /\ capRequest = NotAsked /\ capAllowed = FALSE

\* The bridge compiles a profile for an agent or for the browser
CapCompile(folder, runtime) ==
    /\ capProfile = NoProfile
    /\ capProfile' = ProfileFor(runtime, folder)
    /\ UNCHANGED <<capRequest, capAllowed>>

\* Verdicts do not depend on earlier requests: one is asked of each profile
CapEvaluate(request) ==
    /\ capProfile # NoProfile /\ capRequest = NotAsked
    /\ capRequest' = request
    /\ capAllowed' = Evaluate(capProfile, request)
    /\ UNCHANGED capProfile

CapNext ==
    \/ \E folder \in CapFolders, runtime \in CapRuntimes : CapCompile(folder, runtime)
    \/ \E request \in PathRequests \cup NameRequests : CapEvaluate(request)

CapSpec == CapInit /\ [][CapNext]_capVars

-----------------------------------------------------------------------------
(* Properties *)

CapTypeOK ==
    /\ capProfile = NoProfile \/ \E folder \in CapFolders : capProfile.write = {folder}
    /\ capRequest = NotAsked \/ capRequest.kind \notin {"READ_PATH", "WRITE_PATH"}
       \/ capRequest.path \in CapTargets
    /\ capAllowed \in BOOLEAN

\* Where a spelling leads, without following it: ".." and a name cancel like closing
\* and opening brackets, so a name stays if no closing bracket after it is its own
Opens(text, i, j) == Cardinality({k \in i .. j : text[k] \notin {".", ".."}})
Closes(text, i, j) == Cardinality({k \in i .. j : text[k] = ".."})
LeavesAnchor(text) ==
    \E j \in 2 .. Len(text) : Closes(text, 2, j) > Opens(text, 2, j)
Stays(text) ==
    {i \in 2 .. Len(text) :
        /\ text[i] \notin {".", ".."}
        /\ \A j \in i .. Len(text) : Closes(text, i, j) < Opens(text, i, j)}
SameName(style, x, y) == IF style = "windows" THEN Casefold(x) = Casefold(y) ELSE x = y
\* The i-th name of the place a spelling leads to
NthStaying(text, i) ==
    text[CHOOSE k \in Stays(text) : Cardinality({l \in Stays(text) : l <= k}) = i]
LeadsInto(text, folder) ==
    /\ Style(text) = Style(folder) /\ Style(text) # "none"
    /\ ~LeavesAnchor(text)
    /\ SameName(Style(text), text[1], folder[1])
    /\ Cardinality(Stays(folder)) <= Cardinality(Stays(text))
    /\ \A i \in 1 .. Cardinality(Stays(folder)) :
           SameName(Style(text), NthStaying(text, i), NthStaying(folder, i))

(* evaluate and _normalize: a path is allowed exactly if, however it is     *)
(* spelled, it leads to the folder of the profile or below it and never     *)
(* climbs above its anchor on the way; the two case rules are those of the  *)
(* style of the spelling.  Of the adapters, the one that was given the      *)
(* profile may start, and no other.                                         *)
CapabilityIsExact ==
    /\ capRequest.kind \in {"READ_PATH", "WRITE_PATH"} =>
           (capAllowed <=> \E folder \in capProfile.write : LeadsInto(capRequest.path, folder))
    /\ \A runtime \in CapRuntimes :
           capRequest = AdapterAsks(runtime) => (capAllowed <=> capProfile.for = runtime)
=============================================================================
