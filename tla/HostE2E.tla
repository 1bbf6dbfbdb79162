-------------------------------- MODULE HostE2E --------------------------------
(***************************************************************************)
(* The controlled end-to-end session of runtime_broker/_e2e.py: a fixture  *)
(* server, a mock chat provider that scripts three answers, and the locked *)
(* OpenCode under the fence of _process.run_fenced.                        *)
(*                                                                         *)
(* The provider is a threading server: each request counts itself and then *)
(* reads the counter for its answer, in a thread of its own.  OpenCode is  *)
(* external: it posts, obeys an answer by calling the tool it names, and   *)
(* prints what it does; it may also post more often, post elsewhere, print *)
(* other things, fail, hang and leave a browser behind.                    *)
(***************************************************************************)
EXTENDS Integers, Sequences, FiniteSets, SequencesExt

CONSTANTS E2EMost,      \* bound of the number of requests OpenCode sends
          E2EAtOnce,    \* bound of the number of requests that are not answered yet
          E2EOutput     \* bound of the number of printed events

VARIABLES e2eStep,      \* where run_e2e_after_isolation is
          e2eUp,        \* fixture and provider serve
          e2eCalls,     \* MockChatProvider.calls
          e2ePost,      \* each request: "none", "sent", "counted", an answer, "over"
          e2eGiven,     \* history: the answers given before the judgement
          e2eOut,       \* OpenCode's output
          e2eExit,      \* "running", "zero", "failed"
          e2eBrowser,   \* a browser of the session lives
          e2eProfile,   \* the browser's profile directory has files
          e2eResult     \* "none", "ok" or "failed"

E2EPosts == 1..E2EMost

e2eVars == <<e2eStep, e2eUp, e2eCalls, e2ePost, e2eGiven, e2eOut, e2eExit, e2eBrowser,
             e2eProfile, e2eResult>>

E2EInit ==
    /\ e2eStep = "idle"
    /\ e2eUp = FALSE
    /\ e2eCalls = 0
    /\ e2ePost = [p \in E2EPosts |-> "none"]
    /\ e2eGiven = <<>>
    /\ e2eOut = <<>>
    /\ e2eExit = "running"
    /\ e2eBrowser = FALSE
    /\ e2eProfile = FALSE
    /\ e2eResult = "none"

-----------------------------------------------------------------------------
\* start_loopback_servers, then the configuration; a missing executable raises
\* into the finally clause
StartSession(installed) ==
    /\ e2eStep = "idle"
    /\ e2eUp' = TRUE
    /\ e2eStep' = IF installed THEN "fenced" ELSE "raising"
    /\ UNCHANGED <<e2eCalls, e2ePost, e2eGiven, e2eOut, e2eExit, e2eBrowser, e2eProfile,
                   e2eResult>>

OpenCodeRuns == e2eStep = "fenced" /\ e2eExit = "running"

\* One request at a time or several at once
OpenCodePosts(p) ==
    /\ OpenCodeRuns
    /\ p = 1 + Cardinality({q \in E2EPosts : e2ePost[q] # "none"})
    /\ Cardinality({q \in E2EPosts : e2ePost[q] \in {"sent", "counted"}}) < E2EAtOnce
    /\ e2ePost' = [e2ePost EXCEPT ![p] = "sent"]
    /\ UNCHANGED <<e2eStep, e2eUp, e2eCalls, e2eGiven, e2eOut, e2eExit, e2eBrowser,
                   e2eProfile, e2eResult>>

\* MockChatProvider.handle, as long as its calls can still be judged: another path
\* or method is a conflict and not counted
ProviderRefuses(p) ==
    /\ e2eStep = "fenced" /\ e2ePost[p] = "sent"
    /\ e2ePost' = [e2ePost EXCEPT ![p] = "over"]
    /\ UNCHANGED <<e2eStep, e2eUp, e2eCalls, e2eGiven, e2eOut, e2eExit, e2eBrowser,
                   e2eProfile, e2eResult>>

ProviderCounts(p) ==
    /\ e2eStep = "fenced" /\ e2ePost[p] = "sent"
    /\ e2eCalls' = e2eCalls + 1
    /\ e2ePost' = [e2ePost EXCEPT ![p] = "counted"]
    /\ UNCHANGED <<e2eStep, e2eUp, e2eGiven, e2eOut, e2eExit, e2eBrowser, e2eProfile,
                   e2eResult>>

\* The script by the number of calls so far
Answer(calls) ==
    CASE calls = 1 -> "navigate"
      [] calls = 2 -> "evaluate"
      [] calls = 3 -> "proof"
      [] OTHER -> "conflict"

ProviderAnswers(p) ==
    /\ e2eStep = "fenced" /\ e2ePost[p] = "counted"
    /\ e2ePost' = [e2ePost EXCEPT ![p] = IF Answer(e2eCalls) = "conflict" THEN "over"
                                         ELSE Answer(e2eCalls)]
    /\ e2eGiven' = Append(e2eGiven, Answer(e2eCalls))
    /\ UNCHANGED <<e2eStep, e2eUp, e2eCalls, e2eOut, e2eExit, e2eBrowser, e2eProfile,
                   e2eResult>>

\* OpenCode prints the tool call or the final text; a navigation starts a browser
OpenCodeObeys(p) ==
    /\ OpenCodeRuns
    /\ e2ePost[p] \in {"navigate", "evaluate", "proof"}
    /\ Len(e2eOut) < E2EOutput
    /\ e2eOut' = Append(e2eOut, e2ePost[p])
    /\ e2ePost' = [e2ePost EXCEPT ![p] = "over"]
    /\ e2eBrowser' = (e2eBrowser \/ e2ePost[p] = "navigate")
    /\ e2eProfile' = (e2eProfile \/ e2ePost[p] = "navigate")
    /\ UNCHANGED <<e2eStep, e2eUp, e2eCalls, e2eGiven, e2eExit, e2eResult>>

\* Something the oracle forbids: a listing of tools, a denial, another tool
OpenCodeStrays ==
    /\ OpenCodeRuns
    /\ Len(e2eOut) < E2EOutput /\ "stray" \notin Range(e2eOut)
    /\ e2eOut' = Append(e2eOut, "stray")
    /\ UNCHANGED <<e2eStep, e2eUp, e2eCalls, e2ePost, e2eGiven, e2eExit, e2eBrowser,
                   e2eProfile, e2eResult>>

\* It ends by itself, or the fence kills it after thirty seconds; the browser may
\* have left the process group
OpenCodeExits(exit, leaves) ==
    /\ OpenCodeRuns
    /\ e2eExit' = exit
    /\ e2eBrowser' = (e2eBrowser /\ leaves)
    /\ UNCHANGED <<e2eStep, e2eUp, e2eCalls, e2ePost, e2eGiven, e2eOut, e2eProfile,
                   e2eResult>>

BrowserDies ==
    /\ e2eBrowser /\ e2eExit # "running"
    /\ e2eBrowser' = FALSE
    /\ UNCHANGED <<e2eStep, e2eUp, e2eCalls, e2ePost, e2eGiven, e2eOut, e2eExit,
                   e2eProfile, e2eResult>>

-----------------------------------------------------------------------------
Printed(event) == event \in Range(e2eOut)
FirstPrinted(event) == CHOOSE i \in DOMAIN e2eOut :
                          e2eOut[i] = event /\ \A j \in 1..(i - 1) : e2eOut[j] # event

\* Mutant of E2ESuccess: the output alone decides.
OutputDecides(calls) ==
    /\ calls >= 0
    /\ ~Printed("stray")
    /\ Printed("navigate") /\ Printed("evaluate") /\ Printed("proof")
    /\ FirstPrinted("navigate") < FirstPrinted("evaluate")

\* The oracle: three calls, nothing forbidden, the tools in their order, the proof
E2ESuccess(calls) ==
    /\ calls = 3
    /\ ~Printed("stray")
    /\ Printed("navigate") /\ Printed("evaluate") /\ Printed("proof")
    /\ FirstPrinted("navigate") < FirstPrinted("evaluate")

\* The fence reports a survivor only if there is one, and may miss it
Judge(reported) ==
    /\ e2eStep = "fenced" /\ e2eExit # "running"
    /\ reported => e2eBrowser
    /\ e2eResult' = IF e2eExit = "zero" /\ E2ESuccess(e2eCalls) /\ ~reported
                      THEN "ok" ELSE "failed"
    /\ e2eStep' = "cleanup"
    /\ UNCHANGED <<e2eUp, e2eCalls, e2ePost, e2eGiven, e2eOut, e2eExit, e2eBrowser,
                   e2eProfile>>

\* cleanup_mcp_profile removes plain files and directories: a browser that still
\* writes makes rmdir raise, and so does a socket or a dangling link left behind
CleanupProfile(raises) ==
    /\ e2eStep = "cleanup"
    /\ raises => e2eProfile
    /\ e2eProfile' = (e2eProfile /\ raises)
    /\ e2eStep' = IF raises THEN "raising" ELSE "returning"
    /\ UNCHANGED <<e2eUp, e2eCalls, e2ePost, e2eGiven, e2eOut, e2eExit, e2eBrowser,
                   e2eResult>>

\* finally: both servers are shut down, then the result or the error leaves
StopServers ==
    /\ e2eStep \in {"raising", "returning"}
    /\ e2eUp' = FALSE
    /\ e2eStep' = IF e2eStep = "raising" THEN "raised" ELSE "returned"
    /\ UNCHANGED <<e2eCalls, e2ePost, e2eGiven, e2eOut, e2eExit, e2eBrowser, e2eProfile,
                   e2eResult>>

E2ENext ==
    \/ \E installed \in BOOLEAN : StartSession(installed)
    \/ \E p \in E2EPosts : OpenCodePosts(p)
    \/ \E p \in E2EPosts : ProviderRefuses(p)
    \/ \E p \in E2EPosts : ProviderCounts(p)
    \/ \E p \in E2EPosts : ProviderAnswers(p)
    \/ \E p \in E2EPosts : OpenCodeObeys(p)
    \/ OpenCodeStrays
    \/ \E exit \in {"zero", "failed"}, leaves \in BOOLEAN : OpenCodeExits(exit, leaves)
    \/ BrowserDies
    \/ \E reported \in BOOLEAN : Judge(reported)
    \/ \E raises \in BOOLEAN : CleanupProfile(raises)
    \/ StopServers

E2ESpec == E2EInit /\ [][E2ENext]_e2eVars

-----------------------------------------------------------------------------
(* Properties *)

E2ETypeOK ==
    /\ e2eStep \in {"idle", "fenced", "cleanup", "raising", "returning", "raised", "returned"}
    /\ e2eUp \in BOOLEAN /\ e2eBrowser \in BOOLEAN /\ e2eProfile \in BOOLEAN
    /\ e2eCalls \in 0..E2EMost
    /\ e2eExit \in {"running", "zero", "failed"}
    /\ e2eResult \in {"none", "ok", "failed"}

(* e2e_success, "exact lock oracle": when a session is judged ok, exactly   *)
(* the three answers of the script had been given, one after the other,     *)
(* however the provider's threads interleaved; a fourth call, even one that *)
(* was only told of a conflict, fails the session.                          *)
SessionIsExact ==
    (e2eResult = "ok") => e2eGiven = <<"navigate", "evaluate", "proof">>

(* The finally clause: however the session ends, its servers are shut down; *)
(* a profile is left only where its removal raised, and then the session    *)
(* does not return a result, not even the ok it had judged.                 *)
SessionLeavesNothing ==
    /\ e2eStep \in {"raised", "returned"} => ~e2eUp
    /\ e2eStep = "returned" => ~e2eProfile /\ e2eResult # "none"

(* What the controlled session promises: an exact success, and nothing left *)
(* behind.                                                                  *)
SessionContract == SessionIsExact /\ SessionLeavesNothing
=============================================================================
